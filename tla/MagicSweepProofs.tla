-------------------------- MODULE MagicSweepProofs --------------------------
(***************************************************************************)
(* What TLAPS proves of the signature sweep, for every list of signatures, *)
(* every image and every chunk at least as long as what is carried over.   *)
(***************************************************************************)
EXTENDS TextRuns, FiniteSetTheorems, WellFoundedInduction, TLAPS

Size(p) == Len(Patterns[p])

\* The window is where the code thinks it is, and reaches far enough back to
\* hold whole whatever the chunk boundary at pos would cut.
FrameInv ==
  /\ pc = "read" => pos = hi
  /\ pc = "find" => pos < hi
  /\ pc \in {"read", "find"} => lo + prevLen = pos
  /\ pc = "read" => lo = 0 \/ prevLen >= over \/ hi = Len(image)
  /\ pc = "find" => lo = 0 \/ prevLen >= over
  /\ pc = "find" => hi - pos >= over \/ hi = Len(image)

\* The occurrence of p at a has been searched for.
Searched(p, a) ==
  \/ a + Size(p) <= pos
  \/ pc = "find" /\ a + Size(p) <= hi /\ (p < pat \/ (p = pat /\ a < lo + i))

SeenInv ==
  /\ \A p \in Signatures, a \in Nat :
       OccursAt(p, a) /\ Searched(p, a) => counts[p] > 0
  /\ \A p \in Signatures :
       /\ counts[p] > 0 <=> first[p] # <<>>
       /\ \A x \in 1 .. Len(first[p]) : OccursAt(p, first[p][x])
       /\ first[p] # <<>> =>
            \A a \in Nat : OccursAt(p, a) => first[p][1] <= a

DoneInv == pc = "done" => pos = Len(image)

SweepInv == TypeOK /\ FrameInv /\ SeenInv /\ DoneInv

-----------------------------------------------------------------------------
\* A signature has at least one byte and at most over + 1.
LEMMA PatternFacts ==
  /\ over \in Nat
  /\ Len(Patterns) \in Nat
  /\ Signatures = 1 .. Len(Patterns)
  /\ \A p \in Signatures : Size(p) \in 1 .. over + 1
<1>1. \A p \in Signatures : Patterns[p] \in Seq(Nat) /\ Patterns[p] # <<>>
  BY PatternAssumption DEF Signatures
<1>2. \A p \in Signatures : Size(p) \in Nat /\ Size(p) >= 1 /\ Size(p) \in Lengths
  BY <1>1 DEF Size, Lengths, Signatures
<1>3. Longest \in Nat
  BY <1>2, PatternAssumption DEF Lengths, Size, Signatures
<1> HIDE DEF Longest
<1>4. \A p \in Signatures : Size(p) <= Longest
  BY <1>2, PatternAssumption
<1>5. Signatures = 1 .. Len(Patterns) /\ Len(Patterns) \in Nat
  BY PatternAssumption DEF Signatures
<1> QED BY <1>2, <1>3, <1>4, <1>5, PatternAssumption DEF over

LEMMA FrozenStep ==
  ASSUME [Next]_vars
  PROVE  UNCHANGED image /\ \A p, a : OccursAt(p, a)' = OccursAt(p, a)
<1>1. UNCHANGED image
  BY DEF Next, Step, Done, vars, EndOfImage, ReadChunk, Hit, NextPattern, Carry
<1> QED BY <1>1 DEF OccursAt

\* A signature of the image ends inside it.
LEMMA OccursInside ==
  ASSUME NEW p \in Signatures, NEW a \in Nat, OccursAt(p, a)
  PROVE  a + Size(p) <= Len(image)
BY DEF OccursAt, Size

LEMMA SweepInit == Init => SweepInv
<1> SUFFICES ASSUME Init PROVE SweepInv
  OBVIOUS
<1>1. TypeOK
  BY ImageAssumption, PatternFacts DEF Init, TypeOK
<1>2. FrameInv /\ DoneInv
  BY DEF Init, FrameInv, DoneInv
<1>3. SeenInv
  <2>1. ASSUME NEW p \in Signatures, NEW a \in Nat PROVE ~Searched(p, a)
    BY PatternFacts DEF Init, Searched
  <2>2. \A p \in Signatures : counts[p] = 0 /\ first[p] = <<>>
    BY DEF Init
  <2> QED BY <2>1, <2>2 DEF SeenInv
<1> QED BY <1>1, <1>2, <1>3 DEF SweepInv

\* The hit is the next occurrence in the window, and its offset is the true one.
LEMMA HitFacts ==
  ASSUME SweepInv, Hit
  PROVE  \E x \in Nat :
           /\ x >= i /\ i' = x + 1
           /\ x + Size(pat) <= hi - lo
           /\ OccursAt(pat, lo + x)
           /\ \A y \in Nat : y >= i /\ y + Size(pat) <= hi - lo
                               /\ OccursAt(pat, lo + y) => x <= y
           /\ counts' = [counts EXCEPT ![pat] = @ + 1]
           /\ first' = IF Len(first[pat]) < 4
                       THEN [first EXCEPT ![pat] = Append(@, lo + x)]
                       ELSE first
<1>1. /\ pat \in Signatures /\ Size(pat) \in Nat /\ i \in Nat
      /\ lo \in Nat /\ hi \in Nat /\ base = lo
  BY PatternFacts DEF SweepInv, TypeOK, FrameInv, Hit, base
<1>2. PICK x \in HitsFrom(pat, i) :
        /\ \A y \in HitsFrom(pat, i) : x <= y
        /\ counts' = [counts EXCEPT ![pat] = @ + 1]
        /\ first' = IF Len(first[pat]) < 4
                    THEN [first EXCEPT ![pat] = Append(@, base + x)]
                    ELSE first
        /\ i' = x + 1
  BY DEF Hit
<1>3. \A y \in Nat : y \in HitsFrom(pat, i) <=>
        y >= i /\ y + Size(pat) <= hi - lo /\ OccursAt(pat, lo + y)
  BY <1>1 DEF HitsFrom, Size
<1>4. x \in Nat
  BY <1>1 DEF HitsFrom
<1> QED BY <1>1, <1>2, <1>3, <1>4

LEMMA TypeStep == SweepInv /\ [Next]_vars => TypeOK'
<1> SUFFICES ASSUME SweepInv, [Next]_vars PROVE TypeOK'
  OBVIOUS
<1>0. TypeOK /\ FrameInv /\ UNCHANGED image /\ Len(image) \in Nat
  BY FrozenStep DEF SweepInv, TypeOK
<1>1. CASE EndOfImage \/ UNCHANGED vars
  BY <1>0, <1>1 DEF TypeOK, EndOfImage, vars
<1>2. CASE ReadChunk
  BY <1>0, <1>2, ChunkAssumption, PatternFacts DEF TypeOK, ReadChunk
<1>3. CASE Hit
  <2>1. PICK x \in Nat :
          /\ i' = x + 1
          /\ counts' = [counts EXCEPT ![pat] = @ + 1]
          /\ first' = IF Len(first[pat]) < 4
                      THEN [first EXCEPT ![pat] = Append(@, lo + x)]
                      ELSE first
    BY <1>3, HitFacts
  <2>2. lo + x \in Nat /\ pat \in Signatures
    BY <1>0, <1>3, PatternFacts DEF TypeOK, Hit
  <2>3. counts' \in [Signatures -> Nat]
    BY <1>0, <2>1, <2>2 DEF TypeOK
  <2>4. first' \in [Signatures -> Seq(Nat)]
    BY <1>0, <2>1, <2>2 DEF TypeOK
  <2> QED BY <1>0, <1>3, <2>1, <2>3, <2>4 DEF TypeOK, Hit
<1>4. CASE NextPattern
  BY <1>0, <1>4, PatternFacts DEF TypeOK, NextPattern
<1>5. CASE Carry
  BY <1>0, <1>5, PatternFacts DEF TypeOK, FrameInv, Carry
<1> QED BY <1>1, <1>2, <1>3, <1>4, <1>5 DEF Next, Step, Done

LEMMA FrameStep == SweepInv /\ [Next]_vars => FrameInv' /\ DoneInv'
<1> SUFFICES ASSUME SweepInv, [Next]_vars PROVE FrameInv' /\ DoneInv'
  OBVIOUS
<1>0. TypeOK /\ FrameInv /\ DoneInv /\ UNCHANGED image /\ Len(image) \in Nat
  BY FrozenStep DEF SweepInv, TypeOK
<1>1. CASE EndOfImage \/ UNCHANGED vars
  BY <1>0, <1>1 DEF FrameInv, DoneInv, EndOfImage, vars
<1>2. CASE ReadChunk
  BY <1>0, <1>2, ChunkAssumption, PatternFacts, PatternAssumption
  DEF TypeOK, FrameInv, DoneInv, ReadChunk
<1>3. CASE Hit \/ NextPattern
  BY <1>0, <1>3 DEF FrameInv, DoneInv, Hit, NextPattern
<1>4. CASE Carry
  <2>1. (hi - lo) - prevLen = hi - pos /\ pos < hi
    BY <1>0, <1>4 DEF TypeOK, FrameInv, Carry
  <2>2. prevLen' >= over \/ hi = Len(image)
    BY <1>0, <1>4, <2>1, PatternFacts DEF TypeOK, FrameInv, Carry
  <2>3. pos' = hi /\ lo' + prevLen' = hi
    BY <1>0, <1>4, <2>1, PatternFacts DEF TypeOK, Carry
  <2> QED
    BY <1>0, <1>4, <2>2, <2>3 DEF FrameInv, DoneInv, Carry
<1> QED BY <1>1, <1>2, <1>3, <1>4 DEF Next, Step, Done

\* Between pos and the end of the window nothing is cut: an occurrence that
\* ends there starts in the window.
LEMMA NotCut ==
  ASSUME SweepInv, pc = "find",
         NEW p \in Signatures, NEW a \in Nat, OccursAt(p, a),
         ~(a + Size(p) <= pos)
  PROVE  a >= lo
BY PatternFacts DEF SweepInv, TypeOK, FrameInv

LEMMA SeenStep == SweepInv /\ [Next]_vars => SeenInv'
<1> SUFFICES ASSUME SweepInv, [Next]_vars PROVE SeenInv'
  OBVIOUS
<1>0. /\ TypeOK /\ FrameInv /\ SeenInv
      /\ \A p, a : OccursAt(p, a)' = OccursAt(p, a)
      /\ \A p \in Signatures : Size(p) \in Nat /\ Size(p) > 0
      /\ image' = image /\ Len(image) \in Nat
  BY FrozenStep, PatternFacts DEF SweepInv, TypeOK
<1>1. CASE /\ UNCHANGED <<counts, first>>
           /\ \A p \in Signatures, a \in Nat :
                OccursAt(p, a) /\ Searched(p, a)' => Searched(p, a)
  <2>1. \A p \in Signatures, a \in Nat :
          OccursAt(p, a)' /\ Searched(p, a)' => counts'[p] > 0
    BY <1>0, <1>1 DEF SeenInv
  <2>2. counts' = counts /\ first' = first
    BY <1>1
  <2>3. \A p \in Signatures :
          /\ counts'[p] > 0 <=> first'[p] # <<>>
          /\ \A x \in 1 .. Len(first'[p]) : OccursAt(p, first'[p][x])
          /\ first'[p] # <<>> =>
               \A a \in Nat : OccursAt(p, a) => first'[p][1] <= a
    BY <1>0, <2>2 DEF SeenInv
  <2> QED BY <1>0, <2>1, <2>3 DEF SeenInv
<1>2. CASE EndOfImage \/ UNCHANGED vars
  <2>1. \A p \in Signatures, a \in Nat : Searched(p, a)' => Searched(p, a)
    BY <1>2 DEF EndOfImage, vars, Searched
  <2> QED BY <1>1, <1>2, <2>1 DEF EndOfImage, vars
<1>3. CASE ReadChunk
  <2> SUFFICES ASSUME NEW p \in Signatures, NEW a \in Nat,
                      OccursAt(p, a), Searched(p, a)'
               PROVE  Searched(p, a)
    BY <1>1, <1>3 DEF ReadChunk
  <2>1. p >= 1 /\ p \in Nat
    BY PatternFacts
  <2>2. a + Size(p) <= pos \/ (p = 1 /\ a < lo)
    BY <1>0, <1>3, <2>1 DEF TypeOK, ReadChunk, Searched, Size
  <2>3. CASE p = 1 /\ a < lo
    <3>1. lo + over <= pos \/ lo = 0 \/ hi = Len(image)
      BY <1>0, <1>3, PatternFacts DEF FrameInv, TypeOK, ReadChunk
    <3>2. a + Size(p) <= pos
      BY <1>0, <1>3, <2>3, <3>1, PatternFacts DEF TypeOK, ReadChunk
    <3> QED BY <3>2 DEF Searched
  <2> QED BY <2>2, <2>3 DEF Searched
<1>4. CASE NextPattern
  <2> SUFFICES ASSUME NEW p \in Signatures, NEW a \in Nat,
                      OccursAt(p, a), Searched(p, a)'
               PROVE  Searched(p, a)
    BY <1>1, <1>4 DEF NextPattern
  <2>1. \A x \in i .. hi - lo - Size(pat) : ~OccursAt(pat, lo + x)
    BY <1>4 DEF NextPattern, HitsFrom, Size
  <2>2. p \in Nat /\ pat \in Nat /\ i \in Nat /\ lo \in Nat /\ hi \in Nat
        /\ pos \in Nat
    BY <1>0, PatternFacts DEF TypeOK
  <2>3. \/ a + Size(p) <= pos
        \/ a + Size(p) <= hi /\ p < pat
        \/ a + Size(p) <= hi /\ p = pat
        \/ a + Size(p) <= hi /\ p = pat + 1 /\ a < lo
    BY <1>4, <2>2 DEF NextPattern, Searched, Size
  <2>4. CASE a + Size(p) <= hi /\ p = pat /\ ~(a + Size(p) <= pos)
    <3>1. a >= lo
      BY <1>4, <2>4, NotCut DEF NextPattern
    <3>2. a = lo + (a - lo) /\ a - lo \in Nat /\ a - lo <= hi - lo - Size(pat)
      BY <1>0, <2>2, <2>4, <3>1
    <3>3. a - lo < i
      <4> SUFFICES ASSUME a - lo >= i PROVE FALSE
        BY <2>2, <3>2
      <4>1. a - lo \in i .. hi - lo - Size(pat)
        BY <1>0, <2>2, <2>4, <3>2
      <4>2. ~OccursAt(pat, lo + (a - lo))
        BY <2>1, <4>1
      <4> QED BY <2>4, <3>2, <4>2
    <3> QED BY <1>4, <2>2, <2>4, <3>3 DEF Searched, NextPattern
  <2>5. CASE a + Size(p) <= hi /\ p = pat + 1 /\ a < lo
    <3>1. a + Size(p) <= pos
      BY <1>4, <2>2, <2>5, NotCut DEF NextPattern
    <3> QED BY <3>1 DEF Searched
  <2> QED BY <1>4, <2>3, <2>4, <2>5 DEF Searched, NextPattern
<1>5. CASE Carry
  <2> SUFFICES ASSUME NEW p \in Signatures, NEW a \in Nat,
                      OccursAt(p, a), Searched(p, a)'
               PROVE  Searched(p, a)
    BY <1>1, <1>5 DEF Carry
  <2>1. pos' = hi /\ pc' = "read" /\ pc = "find" /\ pat > Len(Patterns)
    BY <1>0, <1>5 DEF TypeOK, FrameInv, Carry
  <2>2. a + Size(p) <= hi
    BY <2>1 DEF Searched, Size
  <2>3. p < pat
    BY <1>0, <2>1, PatternFacts DEF TypeOK
  <2> QED BY <2>1, <2>2, <2>3 DEF Searched
<1>6. CASE Hit
  <2>1. PICK x \in Nat :
          /\ x >= i /\ i' = x + 1
          /\ x + Size(pat) <= hi - lo
          /\ OccursAt(pat, lo + x)
          /\ \A y \in Nat : y >= i /\ y + Size(pat) <= hi - lo
                              /\ OccursAt(pat, lo + y) => x <= y
          /\ counts' = [counts EXCEPT ![pat] = @ + 1]
          /\ first' = IF Len(first[pat]) < 4
                      THEN [first EXCEPT ![pat] = Append(@, lo + x)]
                      ELSE first
    BY <1>6, HitFacts
  <2>2. /\ pat \in Signatures /\ i \in Nat /\ lo \in Nat /\ hi \in Nat
        /\ pos \in Nat /\ pc = "find" /\ pc' = "find"
        /\ UNCHANGED <<pos, pat, lo, hi>>
        /\ \A p \in Signatures : p \in Nat
        /\ counts \in [Signatures -> Nat] /\ first \in [Signatures -> Seq(Nat)]
    BY <1>0, <1>6, PatternFacts DEF TypeOK, Hit
  <2>3. ASSUME NEW a \in Nat, OccursAt(pat, a), a < lo + x
        PROVE  Searched(pat, a)
    <3>1. CASE a + Size(pat) <= pos
      BY <3>1 DEF Searched
    <3>2. CASE ~(a + Size(pat) <= pos)
      <4>1. a >= lo
        BY <2>2, <2>3, <3>2, NotCut
      <4>2. a = lo + (a - lo) /\ a - lo \in Nat
        BY <2>2, <4>1
      <4>3. a + Size(pat) <= hi
        BY <1>0, <2>1, <2>2, <2>3
      <4>4. a - lo < i
        <5> SUFFICES ASSUME a - lo >= i PROVE FALSE
          BY <2>2, <4>2
        <5>1. (a - lo) + Size(pat) <= hi - lo
          BY <1>0, <2>2, <4>1, <4>3
        <5>2. x <= a - lo
          BY <2>1, <2>3, <4>2, <5>1
        <5> QED BY <2>2, <2>3, <4>2, <5>2
      <4> QED BY <2>2, <4>2, <4>3, <4>4 DEF Searched
    <3> QED BY <3>1, <3>2
  <2>4. counts'[pat] > 0 /\ \A p \in Signatures : p # pat => counts'[p] = counts[p]
    BY <2>1, <2>2
  <2>5. \A p \in Signatures, a \in Nat :
          OccursAt(p, a)' /\ Searched(p, a)' => counts'[p] > 0
    <3> SUFFICES ASSUME NEW p \in Signatures, NEW a \in Nat,
                        OccursAt(p, a), Searched(p, a)', p # pat
                 PROVE  counts[p] > 0
      BY <1>0, <2>4
    <3>1. Searched(p, a)
      BY <2>2 DEF Searched, Size
    <3> QED BY <1>0, <3>1 DEF SeenInv
  <2>6. \A p \in Signatures : p # pat => first'[p] = first[p]
    BY <2>1, <2>2
  <2>7. CASE ~(Len(first[pat]) < 4)
    <3>1. first' = first /\ first[pat] # <<>>
      BY <2>1, <2>2, <2>7
    <3> QED BY <1>0, <2>4, <2>5, <3>1 DEF SeenInv
  <2>8. CASE Len(first[pat]) < 4
    <3>1. first'[pat] = Append(first[pat], lo + x) /\ first[pat] \in Seq(Nat)
      BY <2>1, <2>2, <2>8
    <3>2. first'[pat] # <<>>
      <4>1. Len(first'[pat]) = Len(first[pat]) + 1 /\ Len(first[pat]) \in Nat
        BY <2>1, <2>2, <3>1
      <4> QED BY <4>1
    <3>3. \A y \in 1 .. Len(first'[pat]) : OccursAt(pat, first'[pat][y])
      BY <1>0, <2>1, <2>2, <3>1 DEF SeenInv
    <3>4. \A a \in Nat : OccursAt(pat, a) => first'[pat][1] <= a
      <4>1. CASE first[pat] # <<>>
        <5>1. first'[pat][1] = first[pat][1]
          BY <3>1, <4>1
        <5> QED BY <1>0, <2>2, <4>1, <5>1 DEF SeenInv
      <4>2. CASE first[pat] = <<>>
        <5>1. first'[pat][1] = lo + x
          BY <3>1, <4>2
        <5>2. ~(counts[pat] > 0)
          BY <1>0, <2>2, <4>2 DEF SeenInv
        <5>3. ASSUME NEW a \in Nat, OccursAt(pat, a), a < lo + x PROVE FALSE
          BY <1>0, <2>2, <2>3, <5>2, <5>3 DEF SeenInv
        <5> QED BY <2>2, <5>1, <5>3
      <4> QED BY <4>1, <4>2
    <3> QED BY <1>0, <2>4, <2>5, <2>6, <3>2, <3>3, <3>4 DEF SeenInv
  <2> QED BY <2>7, <2>8
<1> QED BY <1>2, <1>3, <1>4, <1>5, <1>6 DEF Next, Step, Done

LEMMA SweepAlways == Spec => []SweepInv
<1>1. SweepInv /\ [Next]_vars => SweepInv'
  BY TypeStep, FrameStep, SeenStep DEF SweepInv
<1> QED BY <1>1, SweepInit, PTL DEF Spec

-----------------------------------------------------------------------------
\* The window stays inside the image and every count is a natural number.
THEOREM TypeCorrect == Spec => []TypeOK
<1>1. SweepInv => TypeOK
  BY DEF SweepInv
<1> QED BY <1>1, SweepAlways, PTL

LEMMA DoneSearched ==
  ASSUME SweepInv, pc = "done", NEW p \in Signatures, NEW a \in Occurrences(p)
  PROVE  a \in Nat /\ OccursAt(p, a) /\ Searched(p, a)
<1>1. a \in Nat /\ OccursAt(p, a)
  BY DEF Occurrences
<1>2. a + Size(p) <= Len(image)
  BY <1>1, OccursInside
<1> QED BY <1>1, <1>2 DEF SweepInv, DoneInv, Searched

\* A zero in the report is a proof of absence and a count is a proof of
\* presence, for every signature, image and chunk size.
THEOREM ZeroIsProof == Spec => []AbsentMeansAbsent
<1>1. SweepInv => AbsentMeansAbsent
  <2> SUFFICES ASSUME SweepInv, pc = "done", NEW p \in Signatures
               PROVE  counts[p] = 0 <=> Occurrences(p) = {}
    BY DEF AbsentMeansAbsent
  <2>1. counts[p] \in Nat /\ first[p] \in Seq(Nat)
    BY DEF SweepInv, TypeOK
  <2>2. ASSUME NEW a \in Occurrences(p) PROVE counts[p] > 0
    BY <2>2, DoneSearched DEF SweepInv, SeenInv
  <2>3. ASSUME counts[p] > 0 PROVE first[p][1] \in Occurrences(p)
    <3>1. first[p] # <<>>
      BY <2>3 DEF SweepInv, SeenInv
    <3>2. 1 \in 1 .. Len(first[p]) /\ first[p][1] \in Nat
      BY <2>1, <3>1
    <3>3. OccursAt(p, first[p][1])
      BY <3>2 DEF SweepInv, SeenInv
    <3>4. first[p][1] + Size(p) <= Len(image)
      BY <3>2, <3>3, OccursInside
    <3>5. Size(p) \in Nat /\ Size(p) > 0 /\ Len(image) \in Nat
      BY PatternFacts DEF SweepInv, TypeOK
    <3> QED BY <3>2, <3>3, <3>4, <3>5 DEF Occurrences
  <2> QED BY <2>1, <2>2, <2>3
<1> QED BY <1>1, SweepAlways, PTL

\* The offsets printed are occurrences, and the first of them is the first.
THEOREM FirstOffsetIsFirst == Spec => []FirstIsFirst
<1>1. SweepInv => FirstIsFirst
  <2> SUFFICES ASSUME SweepInv, pc = "done", NEW p \in Signatures
               PROVE  /\ \A x \in 1 .. Len(first[p]) : OccursAt(p, first[p][x])
                      /\ \A a \in Occurrences(p) :
                           first[p] # <<>> /\ first[p][1] <= a
    BY DEF FirstIsFirst
  <2>1. \A x \in 1 .. Len(first[p]) : OccursAt(p, first[p][x])
    BY DEF SweepInv, SeenInv
  <2>2. ASSUME NEW a \in Occurrences(p)
        PROVE  first[p] # <<>> /\ first[p][1] <= a
    <3>1. a \in Nat /\ OccursAt(p, a) /\ counts[p] > 0
      BY <2>2, DoneSearched DEF SweepInv, SeenInv
    <3> QED BY <3>1 DEF SweepInv, SeenInv
  <2> QED BY <2>1, <2>2
<1> QED BY <1>1, SweepAlways, PTL

-----------------------------------------------------------------------------
(* How often each signature is counted                                     *)

\* The occurrences of p that have been searched for.
Met(p) == {a \in Nat : OccursAt(p, a) /\ Searched(p, a)}

\* No occurrence is passed over, and one that could be met twice would have to
\* fit in the bytes carried over: the longest signatures do not.
CountInv ==
  /\ prevLen <= over
  /\ \A p \in Signatures :
       /\ counts[p] >= Cardinality(Met(p))
       /\ Size(p) = Longest => counts[p] = Cardinality(Met(p))

LEMMA MetIsFinite ==
  ASSUME TypeOK, NEW p \in Signatures
  PROVE  IsFiniteSet(Met(p)) /\ Cardinality(Met(p)) \in Nat
<1>1. Len(image) \in Nat /\ Size(p) \in Nat
  BY PatternFacts DEF TypeOK
<1>2. Met(p) \subseteq 0 .. Len(image)
  BY <1>1, OccursInside DEF Met
<1>3. IsFiniteSet(0 .. Len(image))
  BY <1>1, FS_Interval
<1> QED BY <1>2, <1>3, FS_Subset, FS_CardinalityType

LEMMA CountInit == Init => CountInv
<1> SUFFICES ASSUME Init PROVE CountInv
  OBVIOUS
<1>1. prevLen <= over
  BY PatternFacts DEF Init
<1>2. ASSUME NEW p \in Signatures PROVE Met(p) = {} /\ counts[p] = 0
  <2>1. ASSUME NEW a \in Nat PROVE ~Searched(p, a)
    BY PatternFacts DEF Init, Searched
  <2> QED BY <2>1 DEF Met, Init
<1> QED BY <1>1, <1>2, FS_EmptySet DEF CountInv

\* Only a hit changes what has been met.
LEMMA MetStays ==
  ASSUME SweepInv, [Next]_vars, ~Hit, NEW p \in Signatures
  PROVE  Met(p)' = Met(p)
<1>0. /\ TypeOK /\ FrameInv /\ SweepInv
      /\ \A q, a : OccursAt(q, a)' = OccursAt(q, a)
      /\ Size(p) \in Nat /\ Size(p) > 0 /\ p \in Nat /\ p >= 1
      /\ p <= Len(Patterns) /\ Len(Patterns) \in Nat
      /\ image' = image /\ Len(image) \in Nat
      /\ pos \in Nat /\ lo \in Nat /\ hi \in Nat /\ i \in Nat /\ pat \in Nat
      /\ prevLen \in Nat
  BY FrozenStep, PatternFacts DEF SweepInv, TypeOK
<1> SUFFICES ASSUME NEW a \in Nat, OccursAt(p, a)
             PROVE  Searched(p, a)' <=> Searched(p, a)
  BY <1>0 DEF Met
<1>1. CASE EndOfImage \/ UNCHANGED vars
  BY <1>1 DEF EndOfImage, vars, Searched
<1>2. CASE ReadChunk
  <2>1. Searched(p, a) <=> a + Size(p) <= pos
    BY <1>2 DEF ReadChunk, Searched
  <2>2. lo + over <= pos \/ lo = 0 \/ hi = Len(image)
    BY <1>0, <1>2, PatternFacts DEF FrameInv, ReadChunk
  <2>3. Searched(p, a)' <=>
          \/ a + Size(p) <= pos
          \/ a + Size(p) <= hi' /\ (p < 1 \/ (p = 1 /\ a < lo + 0))
    BY <1>2 DEF ReadChunk, Searched, Size
  <2>4. a < lo => a + Size(p) <= pos
    BY <1>0, <1>2, <2>2, PatternFacts DEF ReadChunk
  <2> QED BY <1>0, <2>1, <2>3, <2>4
<1>3. CASE NextPattern
  <2>1. Searched(p, a)' <=>
          \/ a + Size(p) <= pos
          \/ a + Size(p) <= hi /\ (p < pat + 1 \/ (p = pat + 1 /\ a < lo + 0))
    BY <1>3 DEF NextPattern, Searched, Size
  <2>2. Searched(p, a) <=>
          \/ a + Size(p) <= pos
          \/ a + Size(p) <= hi /\ (p < pat \/ (p = pat /\ a < lo + i))
    BY <1>3 DEF NextPattern, Searched
  <2>3. a + Size(p) <= pos \/ a >= lo
    BY <1>0, <1>3, NotCut DEF NextPattern
  <2>4. p = pat /\ a + Size(p) <= hi /\ a >= lo => a < lo + i
    <3> SUFFICES ASSUME p = pat, a + Size(p) <= hi, a >= lo, a >= lo + i PROVE FALSE
      BY <1>0
    <3>1. a - lo \in i .. hi - lo - Len(Patterns[pat]) /\ a = lo + (a - lo)
      BY <1>0 DEF Size
    <3>2. a - lo \in HitsFrom(pat, i)
      BY <3>1 DEF HitsFrom
    <3> QED BY <1>3, <3>2 DEF NextPattern
  <2> QED BY <1>0, <2>1, <2>2, <2>3, <2>4
<1>4. CASE Carry
  <2>1. pos' = hi /\ pc' = "read" /\ pc = "find" /\ pat > Len(Patterns) /\ pos < hi
    BY <1>0, <1>4 DEF TypeOK, FrameInv, Carry
  <2> QED BY <1>0, <2>1 DEF Searched, Size
<1> QED BY <1>1, <1>2, <1>3, <1>4 DEF Next, Step, Done

\* A hit meets one occurrence, and for the longest signatures a new one.
LEMMA HitMeets ==
  ASSUME SweepInv, CountInv, Hit, NEW p \in Signatures
  PROVE  /\ p # pat => Met(p)' = Met(p)
         /\ p = pat =>
              /\ Cardinality(Met(p)') \in {Cardinality(Met(p)), Cardinality(Met(p)) + 1}
              /\ Size(p) = Longest => Cardinality(Met(p)') = Cardinality(Met(p)) + 1
<1>0. /\ TypeOK /\ FrameInv
      /\ \A q, a : OccursAt(q, a)' = OccursAt(q, a)
      /\ \A q \in Signatures : Size(q) \in Nat /\ Size(q) > 0 /\ q \in Nat
      /\ pos \in Nat /\ lo \in Nat /\ hi \in Nat /\ i \in Nat
      /\ prevLen \in Nat /\ pat \in Signatures
  <2>1. \A q, a : OccursAt(q, a)' = OccursAt(q, a)
    BY FrozenStep DEF Next, Step
  <2>2. pat \in Signatures
    BY PatternFacts DEF SweepInv, TypeOK, Hit
  <2> QED BY <2>1, <2>2, PatternFacts DEF SweepInv, TypeOK
<1>1. PICK x \in Nat :
        /\ x >= i /\ i' = x + 1
        /\ x + Size(pat) <= hi - lo
        /\ OccursAt(pat, lo + x)
        /\ \A y \in Nat : y >= i /\ y + Size(pat) <= hi - lo
                            /\ OccursAt(pat, lo + y) => x <= y
  BY HitFacts
<1>2. pc = "find" /\ pc' = "find" /\ UNCHANGED <<pos, pat, lo, hi>>
  BY DEF Hit
<1>3. ASSUME p # pat PROVE Met(p)' = Met(p)
  <2>1. \A a \in Nat : Searched(p, a)' <=> Searched(p, a)
    BY <1>0, <1>2, <1>3 DEF Searched, Size
  <2> QED BY <1>0, <2>1 DEF Met
<1>4. ASSUME p = pat, NEW a \in Nat, OccursAt(p, a)
      PROVE  Searched(p, a)' <=> Searched(p, a) \/ a = lo + x
  <2>1. Searched(p, a)' <=>
          a + Size(p) <= pos \/ (a + Size(p) <= hi /\ a < lo + (x + 1))
    BY <1>0, <1>1, <1>2, <1>4 DEF Searched, Size
  <2>2. Searched(p, a) <=>
          a + Size(p) <= pos \/ (a + Size(p) <= hi /\ a < lo + i)
    BY <1>0, <1>2, <1>4 DEF Searched
  <2>3. a + Size(p) <= pos \/ a >= lo
    BY <1>0, <1>2, <1>4, NotCut
  <2>4. a >= lo /\ a + Size(p) <= hi /\ a < lo + x => a < lo + i
    <3> SUFFICES ASSUME a >= lo, a + Size(p) <= hi, a < lo + x, a >= lo + i PROVE FALSE
      BY <1>0
    <3>1. a - lo \in Nat /\ a - lo >= i /\ (a - lo) + Size(p) <= hi - lo
          /\ a = lo + (a - lo)
      BY <1>0
    <3>2. x <= a - lo
      BY <1>0, <1>1, <1>4, <3>1
    <3> QED BY <1>0, <3>2
  <2>5. (lo + x) + Size(p) <= hi
    BY <1>0, <1>1, <1>4
  <2> QED BY <1>0, <1>1, <2>1, <2>2, <2>3, <2>4, <2>5
<1>5. ASSUME p = pat PROVE Met(p)' = Met(p) \cup {lo + x}
  <2>1. lo + x \in Nat
    BY <1>0
  <2>2. Met(p)' = {a \in Nat : OccursAt(p, a) /\ Searched(p, a)'}
    BY <1>0, <1>2 DEF Met
  <2>3. \A a : a \in Met(p)' <=> a \in Met(p) \/ a = lo + x
    BY <1>1, <1>4, <1>5, <2>1, <2>2 DEF Met
  <2> QED BY <2>3
<1>6. ASSUME p = pat, Size(p) = Longest PROVE lo + x \notin Met(p)
  <2>1. Size(p) = over + 1 /\ over \in Nat
    BY <1>0, <1>6, PatternFacts DEF over
  <2>2. lo + prevLen = pos /\ prevLen <= over
    BY <1>2 DEF SweepInv, FrameInv, CountInv
  <2>3. ~Searched(p, lo + x)
    BY <1>0, <1>1, <1>2, <1>6, <2>1, <2>2 DEF Searched
  <2> QED BY <2>3 DEF Met
<1>7. /\ Cardinality(Met(p)) \in Nat
      /\ Cardinality(Met(p) \cup {lo + x}) =
           IF lo + x \in Met(p) THEN Cardinality(Met(p)) ELSE Cardinality(Met(p)) + 1
  BY <1>0, MetIsFinite, FS_AddElement
<1>8. CASE p = pat
  <2>1. Met(p)' = Met(p) \cup {lo + x}
    BY <1>5, <1>8
  <2>2. Size(p) = Longest => lo + x \notin Met(p)
    BY <1>6, <1>8
  <2>3. Cardinality(Met(p)') = Cardinality(Met(p) \cup {lo + x})
    BY <2>1
  <2> HIDE DEF Size
  <2>4. Cardinality(Met(p)') \in {Cardinality(Met(p)), Cardinality(Met(p)) + 1}
    BY <2>3, <1>7
  <2>5. Size(p) = Longest => Cardinality(Met(p)') = Cardinality(Met(p)) + 1
    BY <2>2, <2>3, <1>7
  <2> QED BY <1>7, <1>8, <2>4, <2>5
<1> QED BY <1>3, <1>8

LEMMA CountStep == SweepInv /\ CountInv /\ [Next]_vars => CountInv'
<1> SUFFICES ASSUME SweepInv, CountInv, [Next]_vars PROVE CountInv'
  OBVIOUS
<1>0. /\ TypeOK /\ \A p \in Signatures : counts[p] \in Nat
      /\ Signatures' = Signatures /\ over' = over /\ Longest' = Longest
      /\ \A p : Size(p)' = Size(p)
  BY DEF SweepInv, TypeOK, Signatures, over, Longest, Lengths, Size
<1>1. prevLen' <= over
  <2>1. over \in Nat /\ prevLen <= over
    BY PatternFacts DEF CountInv
  <2>2. CASE Carry
    BY <1>0, <2>1, <2>2 DEF Carry, TypeOK
  <2> QED BY <2>1, <2>2
    DEF Next, Step, Done, vars, EndOfImage, ReadChunk, Hit, NextPattern
<1>2. ASSUME NEW p \in Signatures
      PROVE  /\ counts'[p] >= Cardinality(Met(p)')
             /\ Size(p) = Longest => counts'[p] = Cardinality(Met(p)')
  <2>0. /\ counts[p] >= Cardinality(Met(p))
        /\ Size(p) = Longest => counts[p] = Cardinality(Met(p))
        /\ IsFiniteSet(Met(p)) /\ Cardinality(Met(p)) \in Nat
    BY <1>0, MetIsFinite DEF CountInv
  <2>1. CASE ~Hit
    <3>1. counts' = counts
      BY <2>1 DEF Next, Step, Done, vars, EndOfImage, ReadChunk, NextPattern, Carry
    <3>2. Met(p)' = Met(p)
      BY <2>1, MetStays
    <3> QED BY <2>0, <3>1, <3>2
  <2>2. CASE Hit
    <3>1. counts' = [counts EXCEPT ![pat] = @ + 1]
      BY <2>2, HitFacts
    <3>2. CASE p # pat
      <4>1. counts'[p] = counts[p]
        BY <1>0, <3>1, <3>2 DEF TypeOK
      <4>2. Met(p)' = Met(p)
        BY <2>2, <3>2, HitMeets
      <4> QED BY <2>0, <4>1, <4>2
    <3>3. CASE p = pat
      <4>1. counts'[p] = counts[p] + 1
        BY <1>0, <3>1, <3>3 DEF TypeOK
      <4>2. /\ Cardinality(Met(p)') \in {Cardinality(Met(p)), Cardinality(Met(p)) + 1}
            /\ Size(p) = Longest => Cardinality(Met(p)') = Cardinality(Met(p)) + 1
        BY <2>2, <3>3, HitMeets
      <4> QED BY <1>0, <2>0, <4>1, <4>2
    <3> QED BY <3>2, <3>3
  <2> QED BY <2>1, <2>2
<1> QED BY <1>0, <1>1, <1>2 DEF CountInv

\* For every image, signature list and chunk size, no occurrence goes uncounted,
\* and the count of the longest signatures is exact: only a signature that fits
\* in the bytes carried over can be counted twice.
THEOREM CountsNeverFallShort == Spec => []CountsCover
<1>1. SweepInv /\ CountInv => CountsCover
  <2> SUFFICES ASSUME SweepInv, CountInv, pc = "done", NEW p \in Signatures
               PROVE  Occurrences(p) = Met(p)
    BY DEF CountsCover, CountInv, Size
  <2>1. Occurrences(p) \subseteq Met(p)
    BY DoneSearched DEF Met
  <2>2. Met(p) \subseteq Occurrences(p)
    BY OccursInside, PatternFacts DEF Met, Occurrences, SweepInv, TypeOK
  <2> QED BY <2>1, <2>2
<1>2. SweepInv /\ CountInv /\ [Next]_vars => (SweepInv /\ CountInv)'
  BY TypeStep, FrameStep, SeenStep, CountStep DEF SweepInv
<1> QED BY <1>1, <1>2, SweepInit, CountInit, PTL DEF Spec

-----------------------------------------------------------------------------
(* With the text of the file                                               *)

\* Listing the text of a file that has been swept changes nothing of the sweep:
\* the theorems above hold for the two halves of the tool run in turn.
THEOREM TextLeavesSweep == AuditSpec => Spec
<1>1. AuditInit => Init
  BY DEF AuditInit
<1>2. [AuditNext]_<<vars, textVars>> => [Next]_vars
  BY DEF AuditNext, AuditDone, Next
<1> QED BY <1>1, <1>2, PTL DEF AuditSpec, Spec

\* What the runs check of the whole tool: a count of zero is absence, no
\* occurrence goes uncounted, and the first offset printed is that of the first.
THEOREM AuditedSweep ==
  AuditSpec => [](AbsentMeansAbsent /\ FirstIsFirst /\ CountsCover)
BY TextLeavesSweep, ZeroIsProof, FirstOffsetIsFirst, CountsNeverFallShort, PTL

Row == [off : Nat, text : Seq(Nat)]

TextTypes ==
  /\ raw \in BOOLEAN
  /\ want \in Names \cup {All}
  /\ at \in 0 .. Len(image)
  /\ rows \in Seq(Row)
  /\ r \in 1 .. Len(rows) + 1
  /\ buckets \in [Names -> Seq(Row)]
  /\ cat \in 1 .. Len(Sections) + 1
  /\ printed \in Seq([name : Names, lines : Seq(Row)])
  /\ tpc \in {"idle", "find", "sort", "print", "printed", "raised"}

\* Each stage starts where the one before has ended, and the search for runs is
\* never left inside one.
StageInv ==
  /\ tpc # "idle" => pc = "done"
  /\ tpc = "idle" => at = 0 /\ rows = <<>>
  /\ tpc \in {"idle", "find"} => r = 1
  /\ tpc \in {"idle", "find", "sort"} => cat = 1
  /\ tpc \notin {"idle", "find"} => RunStarts = {}
  /\ tpc \in {"print", "printed", "raised"} => r = Len(rows) + 1
  /\ tpc \in {"printed", "raised"} => cat = Len(Sections) + 1
  /\ at = 0 \/ at = Len(image) \/ image[at + 1] \notin Printable

RowOf(x, e) == [off |-> x, text |-> Text(x, e)]

\* The rows are the runs kept up to where the search is, in their order.
RowsInv ==
  /\ \A y \in DOMAIN rows : \E x, e \in 0 .. Len(image) :
       rows[y] = RowOf(x, e) /\ Kept(x, e) /\ e <= at
  /\ \A y, z \in DOMAIN rows : y < z => rows[y].off < rows[z].off
  /\ \A x, e \in 0 .. Len(image) : Kept(x, e) /\ e <= at =>
       \E y \in DOMAIN rows : rows[y] = RowOf(x, e)

\* A bucket is the rows of its category among those sorted, in their order.
BucketInv ==
  /\ \A c \in Names : \A z \in DOMAIN buckets[c] :
       \E y \in 1 .. r - 1 : buckets[c][z] = rows[y] /\ c \in Filed(rows[y].text)
  /\ \A c \in Names : \A y, z \in DOMAIN buckets[c] :
       y < z => buckets[c][y].off < buckets[c][z].off
  /\ \A y \in 1 .. r - 1 : \A c \in Filed(rows[y].text) :
       \E z \in DOMAIN buckets[c] : buckets[c][z] = rows[y]

Section(k) == [name |-> Sections[k], lines |-> buckets[Sections[k]]]

\* What is printed is the sections reached that are shown, each once.
PrintInv ==
  /\ \A x \in DOMAIN printed : \E k \in 1 .. cat - 1 :
       printed[x] = Section(k) /\ Shown(Sections[k])
  /\ \A x, y \in DOMAIN printed : printed[x].name = printed[y].name => x = y
  /\ \A k \in 1 .. cat - 1 : Shown(Sections[k]) =>
       \E x \in DOMAIN printed : printed[x] = Section(k)

TextInv == TextTypes /\ StageInv /\ RowsInv /\ BucketInv /\ PrintInv

\* The sections are the categories and the last one, each with its own name, and
\* a row is filed under some of them.
LEMMA SectionFacts ==
  /\ Sections \in Seq(Names)
  /\ \A k, m \in DOMAIN Sections : Sections[k] = Sections[m] => k = m
  /\ \A t : Filed(t) \subseteq Names
<1> DEFINE Given == {CATEGORIES[c] : c \in DOMAIN CATEGORIES}
<1>1. CATEGORIES \in Seq(Given)
  BY TextAssumption
<1>2. /\ Len(Sections) = Len(CATEGORIES) + 1 /\ Len(CATEGORIES) \in Nat
      /\ DOMAIN Sections = 1 .. Len(CATEGORIES) + 1
      /\ DOMAIN CATEGORIES = 1 .. Len(CATEGORIES)
      /\ Sections[Len(CATEGORIES) + 1] = other
      /\ \A k \in 1 .. Len(CATEGORIES) : Sections[k] = CATEGORIES[k]
  <2>1. CATEGORIES \in Seq(Given \cup {other})
    BY <1>1
  <2> HIDE DEF Given
  <2> QED BY <2>1 DEF Sections
<1>3. Sections \in Seq(Names)
  <2>1. \A k \in DOMAIN Sections : Sections[k] \in Names
    BY DEF Names
  <2>2. Sections \in Seq(Given \cup {other})
    BY <1>1 DEF Sections
  <2> HIDE DEF Given
  <2> QED BY <2>1, <2>2, <1>2
<1>4. \A k, m \in DOMAIN Sections : Sections[k] = Sections[m] => k = m
  BY <1>2, TextAssumption
<1>5. \A t : Filed(t) \subseteq Names
  <2>1. \A c \in DOMAIN CATEGORIES : CATEGORIES[c] \in Names
    BY <1>2 DEF Names
  <2>2. other \in Names
    BY <1>2 DEF Names
  <2> QED BY <2>1, <2>2 DEF Filed, Categories
<1> QED BY <1>3, <1>4, <1>5

LEMMA TextFacts ==
  ASSUME image \in Seq(Nat), NEW x \in 0 .. Len(image), NEW e \in x .. Len(image)
  PROVE  /\ Text(x, e) \in Seq(Nat)
         /\ Len(Text(x, e)) = e - x
         /\ \A y \in 1 .. e - x : Text(x, e)[y] = image[x + y]
<1>1. x \in Nat /\ e \in Nat /\ Len(image) \in Nat /\ x <= e /\ e <= Len(image)
  OBVIOUS
<1>2. /\ Text(x, e) = [y \in 1 .. e - x |-> image[x + y]]
      /\ \A y \in 1 .. e - x : image[x + y] \in Nat
  BY <1>1 DEF Text
<1>3. Len(Text(x, e)) = e - x
  BY <1>1 DEF Text
<1> QED BY <1>1, <1>2, <1>3

\* A printable stretch longer than a run must be is a place to find one.
LEMMA RunStartsThere ==
  ASSUME image \in Seq(Nat), at \in Nat, NEW x \in Nat, NEW e \in 0 .. Len(image),
         at <= x, x + MIN <= e, AllPrintable(x, e)
  PROVE  x \in RunStarts
<1>1. MIN \in Nat /\ MIN > 0 /\ Len(image) \in Nat
  BY TextAssumption
<1>2. x \in at .. Len(image) - MIN
  BY <1>1
<1>3. AllPrintable(x, x + MIN)
  BY <1>1 DEF AllPrintable
<1> QED BY <1>2, <1>3 DEF RunStarts

\* A whole run that ends behind the search starts there: the search is in none.
LEMMA AheadOfSearch ==
  ASSUME TextTypes, StageInv, image \in Seq(Nat),
         NEW x \in 0 .. Len(image), NEW e \in 0 .. Len(image),
         IsRun(x, e), e > at
  PROVE  x >= at /\ x \in RunStarts
<1>1. MIN \in Nat /\ MIN > 0 /\ Len(image) \in Nat /\ at \in 0 .. Len(image)
  BY TextAssumption DEF TextTypes
<1>2. x >= at
  <2> SUFFICES ASSUME x < at PROVE FALSE
    BY <1>1
  <2>1. image[at + 1] \notin Printable
    BY <1>1 DEF StageInv
  <2>2. at + 1 \in x + 1 .. e
    BY <1>1
  <2> QED BY <2>1, <2>2 DEF IsRun, AllPrintable
<1> QED BY <1>1, <1>2, RunStartsThere DEF IsRun

\* What the search finds next is the next whole run of the file.
LEMMA NextIsRun ==
  ASSUME TextTypes, StageInv, image \in Seq(Nat),
         NEW x \in RunStarts, NEW e, NextRun(x, e)
  PROVE  /\ x \in 0 .. Len(image) /\ e \in 0 .. Len(image)
         /\ IsRun(x, e) /\ at <= x /\ x < e
         /\ \A y, f \in 0 .. Len(image) :
              IsRun(y, f) /\ f <= e => f <= at \/ (y = x /\ f = e)
<1>1. /\ MIN \in Nat /\ MIN > 0 /\ Len(image) \in Nat /\ at \in 0 .. Len(image)
      /\ x \in Nat /\ at <= x /\ x + MIN <= Len(image) /\ AllPrintable(x, x + MIN)
      /\ e \in Nat /\ x + MIN <= e /\ e <= Len(image) /\ AllPrintable(x, e)
      /\ e < Len(image) => image[e + 1] \notin Printable
      /\ \A y \in RunStarts : x <= y
  BY TextAssumption DEF TextTypes, NextRun, RunStarts
<1>2. x > 0 => image[x] \notin Printable
  <2> SUFFICES ASSUME x > 0, image[x] \in Printable PROVE FALSE
    OBVIOUS
  <2>1. CASE x = at
    <3>1. image[at + 1] \notin Printable
      BY <1>1, <2>1 DEF StageInv
    <3>2. x + 1 \in x + 1 .. x + MIN
      BY <1>1
    <3> QED BY <1>1, <2>1, <3>1, <3>2 DEF AllPrintable
  <2>2. CASE x > at
    <3>1. x - 1 \in Nat /\ at <= x - 1 /\ (x - 1) + MIN <= e /\ e \in 0 .. Len(image)
      BY <1>1, <2>2
    <3>2. AllPrintable(x - 1, e)
      BY <1>1 DEF AllPrintable
    <3>3. x - 1 \in RunStarts
      BY <1>1, <3>1, <3>2, RunStartsThere
    <3> QED BY <1>1, <3>1, <3>3
  <2> QED BY <1>1, <2>1, <2>2
<1>3. IsRun(x, e)
  BY <1>1, <1>2 DEF IsRun
<1>4. ASSUME NEW y \in 0 .. Len(image), NEW f \in 0 .. Len(image),
             IsRun(y, f), f <= e, f > at
      PROVE  y = x /\ f = e
  <2>1. y \in RunStarts /\ x <= y
    BY <1>1, <1>4, AheadOfSearch
  <2>2. y = x
    <3> SUFFICES ASSUME y > x PROVE FALSE
      BY <1>1, <2>1
    <3>1. image[y] \notin Printable
      BY <1>1, <1>4 DEF IsRun
    <3>2. y \in x + 1 .. e
      BY <1>1, <1>4, TextAssumption DEF IsRun
    <3> QED BY <1>1, <3>1, <3>2 DEF AllPrintable
  <2>3. f = e
    <3> SUFFICES ASSUME f < e PROVE FALSE
      BY <1>1, <1>4
    <3>1. image[f + 1] \notin Printable
      BY <1>1, <1>4 DEF IsRun
    <3>2. f + 1 \in x + 1 .. e
      BY <1>1, <1>4, <2>2 DEF IsRun
    <3> QED BY <1>1, <3>1, <3>2 DEF AllPrintable
  <2> QED BY <2>2, <2>3
<1> QED BY <1>1, <1>3, <1>4

LEMMA TextInit0 == AuditInit => TextInv
<1> SUFFICES ASSUME AuditInit PROVE TextInv
  OBVIOUS
<1>0. image \in Seq(Nat) /\ Len(image) \in Nat /\ MIN \in Nat /\ MIN > 0
  BY ImageAssumption, TextAssumption DEF AuditInit, Init
<1>1. TextTypes
  <2>1. Len(Sections) \in Nat
    BY SectionFacts
  <2>2. buckets \in [Names -> Seq(Row)]
    BY DEF AuditInit, TextInit
  <2>3. rows \in Seq(Row) /\ Len(rows) = 0 /\ printed \in Seq([name : Names, lines : Seq(Row)])
    BY DEF AuditInit, TextInit
  <2>4. at \in 0 .. Len(image) /\ r \in 1 .. Len(rows) + 1 /\ cat \in 1 .. Len(Sections) + 1
    BY <1>0, <2>1, <2>3 DEF AuditInit, TextInit
  <2>5. raw \in BOOLEAN /\ want \in Names \cup {All} /\ tpc = "idle"
    BY DEF AuditInit, TextInit
  <2> QED BY <2>2, <2>3, <2>4, <2>5 DEF TextTypes
<1>2. StageInv
  BY <1>0 DEF AuditInit, TextInit, StageInv
<1>3. RowsInv
  <2>1. \A x, e \in 0 .. Len(image) : Kept(x, e) => ~(e <= at)
    BY <1>0 DEF AuditInit, TextInit, Kept, IsRun
  <2> QED BY <2>1 DEF AuditInit, TextInit, RowsInv
<1>4. BucketInv
  BY DEF AuditInit, TextInit, BucketInv
<1>5. PrintInv
  BY DEF AuditInit, TextInit, PrintInv
<1> QED BY <1>1, <1>2, <1>3, <1>4, <1>5 DEF TextInv

\* Nothing the text is judged by changes while it is listed.
LEMMA TextFrozen ==
  ASSUME image' = image, raw' = raw
  PROVE  /\ \A x, e : /\ IsRun(x, e)' = IsRun(x, e)
                      /\ Text(x, e)' = Text(x, e)
                      /\ RowOf(x, e)' = RowOf(x, e)
                      /\ Kept(x, e)' = Kept(x, e)
         /\ Sections' = Sections /\ Names' = Names
         /\ \A t : Filed(t)' = Filed(t)
BY DEF IsRun, Text, RowOf, Kept, AllPrintable, Sections, Names, Filed, Categories

\* A step that leaves the rows, the buckets and what is printed alone keeps what
\* is said of them.
LEMMA ListsKept ==
  ASSUME TextInv, image' = image, UNCHANGED <<rows, r, buckets>>
  PROVE  /\ raw' = raw /\ at' = at => RowsInv'
         /\ BucketInv'
         /\ UNCHANGED <<want, cat, printed>> => PrintInv'
<1>1. ASSUME raw' = raw, at' = at PROVE RowsInv'
  BY <1>1, TextFrozen DEF TextInv, RowsInv
<1>2. BucketInv'
  <2>1. Names' = Names /\ \A t : Filed(t)' = Filed(t)
    BY DEF Names, Sections, Filed, Categories
  <2>2. \A y : rows'[y].text = rows[y].text /\ Filed(rows[y].text)' = Filed(rows[y].text)
    BY DEF Filed, Categories
  <2>3. BucketInv
    BY DEF TextInv
  <2> HIDE DEF Names, Filed
  <2> QED BY <2>1, <2>2, <2>3 DEF BucketInv
<1>3. ASSUME UNCHANGED <<want, cat, printed>> PROVE PrintInv'
  BY <1>3 DEF TextInv, PrintInv, Section, Sections, Shown
<1> QED BY <1>1, <1>2, <1>3

\* The next run is found, and kept or not.
LEMMA FindStep ==
  ASSUME TextInv, image \in Seq(Nat), UNCHANGED vars, KeepRun \/ DropRun
  PROVE  TextInv'
<1>0. /\ TextTypes /\ StageInv /\ RowsInv /\ BucketInv /\ PrintInv
      /\ tpc = "find" /\ tpc' = "find" /\ pc = "done" /\ pc' = "done"
      /\ UNCHANGED <<image, raw, want, r, buckets, cat, printed>>
      /\ r = 1 /\ cat = 1 /\ Len(image) \in Nat
  BY DEF TextInv, StageInv, KeepRun, DropRun, vars
<1>1. PICK x \in RunStarts, e \in MIN .. Len(image) :
        /\ NextRun(x, e)
        /\ at' = e
        /\ IF raw \/ IsText(Text(x, e)) THEN rows' = Append(rows, RowOf(x, e)) ELSE rows' = rows
  BY DEF KeepRun, DropRun, RowOf
<1>2. /\ x \in 0 .. Len(image) /\ e \in 0 .. Len(image)
      /\ IsRun(x, e) /\ at <= x /\ x < e
      /\ \A y, f \in 0 .. Len(image) :
           IsRun(y, f) /\ f <= e => f <= at \/ (y = x /\ f = e)
  BY <1>0, <1>1, NextIsRun
<1>3. /\ Text(x, e) \in Seq(Nat) /\ RowOf(x, e) \in Row
      /\ RowOf(x, e).off = x
  BY <1>2, TextFacts DEF RowOf, Row
<1>4. rows' \in Seq(Row) /\ Len(rows') \in Nat /\ at' \in 0 .. Len(image)
  <2>1. rows \in Seq(Row)
    BY <1>0 DEF TextTypes
  <2>2. rows' = Append(rows, RowOf(x, e)) \/ rows' = rows
    BY <1>1
  <2>3. rows' \in Seq(Row)
    BY <1>3, <2>1, <2>2
  <2> QED BY <1>1, <1>2, <2>3
<1>5. TextTypes'
  <2>1. Names' = Names /\ Sections' = Sections
    BY DEF Names, Sections
  <2> QED BY <1>0, <1>4, <2>1 DEF TextTypes
<1>6. StageInv'
  <2>1. at' = Len(image) \/ image[at' + 1] \notin Printable
    BY <1>1, <1>2 DEF NextRun
  <2> QED BY <1>0, <2>1 DEF StageInv
<1>7. RowsInv'
  <2> DEFINE n == Len(rows)
  <2>0. n \in Nat /\ rows \in Seq(Row) /\ at \in Nat
    BY <1>0 DEF TextTypes
  <2>1. \A y, f \in 0 .. Len(image) : Kept(y, f) /\ f <= e =>
          f <= at \/ (y = x /\ f = e)
    BY <1>2 DEF Kept
  <2>2. \A y \in DOMAIN rows : \E z, f \in 0 .. Len(image) :
          rows[y] = RowOf(z, f) /\ Kept(z, f) /\ f <= e
    BY <1>0, <1>2, <2>0 DEF RowsInv
  <2>3. CASE raw \/ IsText(Text(x, e))
    <3>1. /\ Len(rows') = n + 1 /\ DOMAIN rows' = 1 .. n + 1
          /\ rows'[n + 1] = RowOf(x, e) /\ DOMAIN rows = 1 .. n
          /\ \A y \in 1 .. n : rows'[y] = rows[y]
      BY <1>1, <1>3, <2>0, <2>3
    <3>2. Kept(x, e)
      BY <1>2, <2>3 DEF Kept
    <3>3. \A y \in DOMAIN rows' : \E z, f \in 0 .. Len(image) :
            rows'[y] = RowOf(z, f) /\ Kept(z, f) /\ f <= e
      BY <1>2, <2>0, <2>2, <3>1, <3>2
    <3>4. \A y \in DOMAIN rows : rows[y].off < x
      <4> TAKE y \in DOMAIN rows
      <4>1. PICK z \in 0 .. Len(image), f \in 0 .. Len(image) :
              rows[y] = RowOf(z, f) /\ Kept(z, f) /\ f <= at
        BY <1>0 DEF RowsInv
      <4>2. z < f
        BY <4>1, TextAssumption DEF Kept, IsRun
      <4> QED BY <1>2, <2>0, <4>1, <4>2 DEF RowOf
    <3>5. \A y, z \in DOMAIN rows' : y < z => rows'[y].off < rows'[z].off
      <4> SUFFICES ASSUME NEW y \in 1 .. n + 1, NEW z \in 1 .. n + 1, y < z
                   PROVE  rows'[y].off < rows'[z].off
        BY <3>1
      <4>1. y \in 1 .. n /\ rows'[y] = rows[y] /\ y \in DOMAIN rows
        BY <2>0, <3>1
      <4>2. CASE z = n + 1
        <5>1. rows'[z].off = x
          BY <1>3, <3>1, <4>2
        <5> QED BY <3>4, <4>1, <5>1
      <4>3. CASE z \in 1 .. n
        <5>1. rows'[z] = rows[z] /\ z \in DOMAIN rows
          BY <3>1, <4>3
        <5> QED BY <1>0, <4>1, <5>1 DEF RowsInv
      <4> QED BY <2>0, <4>2, <4>3
    <3>6. \A y, f \in 0 .. Len(image) : Kept(y, f) /\ f <= e =>
            \E z \in DOMAIN rows' : rows'[z] = RowOf(y, f)
      BY <1>0, <2>0, <2>1, <3>1 DEF RowsInv
    <3>7. /\ \A y, f : RowOf(y, f)' = RowOf(y, f) /\ Kept(y, f)' = Kept(y, f)
          /\ Len(image)' = Len(image) /\ at' = e
      BY <1>0, <1>1, TextFrozen
    <3> QED BY <3>3, <3>5, <3>6, <3>7 DEF RowsInv
  <2>4. CASE ~(raw \/ IsText(Text(x, e)))
    <3>1. rows' = rows /\ ~Kept(x, e)
      BY <1>1, <2>4 DEF Kept
    <3>2. \A y, f \in 0 .. Len(image) : Kept(y, f) /\ f <= e =>
            \E z \in DOMAIN rows : rows[z] = RowOf(y, f)
      BY <1>0, <2>1, <3>1 DEF RowsInv
    <3>3. /\ \A y, f : RowOf(y, f)' = RowOf(y, f) /\ Kept(y, f)' = Kept(y, f)
          /\ Len(image)' = Len(image) /\ at' = e
      BY <1>0, <1>1, TextFrozen
    <3> QED BY <1>0, <2>2, <3>1, <3>2, <3>3 DEF RowsInv
  <2> QED BY <2>3, <2>4
<1>8. BucketInv'
  <2>1. \A c \in Names : DOMAIN buckets[c] = {}
    BY <1>0 DEF BucketInv
  <2> QED BY <1>0, <2>1, TextFrozen DEF BucketInv
<1>9. PrintInv'
  <2>1. DOMAIN printed = {}
    <3>1. 1 .. cat - 1 = {}
      BY <1>0
    <3> QED BY <1>0, <3>1, Zenon DEF PrintInv
  <2> QED BY <1>0, <2>1 DEF PrintInv
<1> QED BY <1>5, <1>6, <1>7, <1>8, <1>9 DEF TextInv

\* A stage is entered: the question is asked, the search or the sorting ends, the
\* report is finished.
LEMMA StageStep ==
  ASSUME TextInv, image \in Seq(Nat), UNCHANGED vars, pc = "done",
         AskText \/ NoMoreRuns \/ Sorted \/ TextEnds
  PROVE  TextInv'
<1>0. /\ TextTypes /\ StageInv /\ RowsInv /\ BucketInv /\ PrintInv
      /\ UNCHANGED <<image, at, rows, r, buckets, cat, printed, pc>>
      /\ Len(image) \in Nat /\ Len(rows) \in Nat /\ Len(Sections) \in Nat
  BY SectionFacts DEF TextInv, TextTypes, AskText, NoMoreRuns, Sorted, TextEnds, vars
<1>1. TextTypes'
  <2>1. Names' = Names /\ Sections' = Sections
    BY DEF Names, Sections
  <2>2. /\ raw' \in BOOLEAN /\ want' \in Names \cup {All}
        /\ tpc' \in {"find", "sort", "print", "printed", "raised"}
    BY <1>0 DEF TextTypes, AskText, NoMoreRuns, Sorted, TextEnds
  <2> QED BY <1>0, <2>1, <2>2 DEF TextTypes
<1>2. StageInv'
  <2>1. RunStarts' = RunStarts /\ Sections' = Sections
    BY <1>0 DEF RunStarts, AllPrintable, Sections
  <2>2. CASE AskText
    BY <1>0, <2>1, <2>2 DEF StageInv, AskText
  <2>3. CASE NoMoreRuns
    BY <1>0, <2>1, <2>3 DEF StageInv, NoMoreRuns
  <2>4. CASE Sorted
    BY <1>0, <2>1, <2>4 DEF StageInv, Sorted, TextTypes
  <2>5. CASE TextEnds
    BY <1>0, <2>1, <2>5 DEF StageInv, TextEnds, TextTypes
  <2> QED BY <2>2, <2>3, <2>4, <2>5
<1>3. RowsInv'
  <2>1. CASE AskText
    <3>1. at = 0 /\ rows = <<>>
      BY <1>0, <2>1 DEF StageInv, AskText
    <3>2. \A x, e \in 0 .. Len(image) : ~(Kept(x, e)' /\ e <= at)
      BY <1>0, <3>1, TextAssumption DEF Kept, IsRun
    <3> QED BY <1>0, <3>1, <3>2 DEF RowsInv
  <2>2. CASE ~AskText
    <3>1. raw' = raw
      BY <2>2 DEF NoMoreRuns, Sorted, TextEnds
    <3> QED BY <1>0, <3>1, ListsKept
  <2> QED BY <2>1, <2>2
<1>4. BucketInv'
  BY <1>0, ListsKept
<1>5. PrintInv'
  <2>1. CASE AskText
    <3>1. cat = 1
      BY <1>0, <2>1 DEF StageInv, AskText
    <3>2. DOMAIN printed = {}
      BY <1>0, <3>1 DEF PrintInv
    <3> QED BY <1>0, <3>1, <3>2 DEF PrintInv
  <2>2. CASE ~AskText
    <3>1. want' = want
      BY <2>2 DEF NoMoreRuns, Sorted, TextEnds
    <3> QED BY <1>0, <3>1, ListsKept
  <2> QED BY <2>1, <2>2
<1> QED BY <1>1, <1>2, <1>3, <1>4, <1>5 DEF TextInv

\* One row is filed under each of its categories.
LEMMA SortStep ==
  ASSUME TextInv, UNCHANGED vars, SortRow
  PROVE  TextInv'
<1>0. /\ TextTypes /\ StageInv /\ RowsInv /\ BucketInv /\ PrintInv
      /\ UNCHANGED <<image, pc, raw, want, at, rows, cat, printed, tpc>>
      /\ tpc = "sort" /\ cat = 1 /\ r' = r + 1
      /\ r \in Nat /\ r >= 1 /\ r <= Len(rows) /\ Len(rows) \in Nat
      /\ Names' = Names /\ Sections' = Sections
      /\ \A t : Filed(t) \subseteq Names /\ Filed(t)' = Filed(t)
  BY SectionFacts, TextFrozen DEF TextInv, TextTypes, StageInv, SortRow, vars
<1>1. rows \in Seq(Row) /\ rows[r] \in Row
  BY <1>0 DEF TextTypes
<1>2. /\ buckets' = [c \in Names |-> IF c \in Filed(rows[r].text)
                                     THEN Append(buckets[c], rows[r]) ELSE buckets[c]]
      /\ buckets \in [Names -> Seq(Row)]
  BY <1>0 DEF SortRow, TextTypes
<1>3. ASSUME NEW c \in Names, c \in Filed(rows[r].text)
      PROVE  /\ buckets'[c] \in Seq(Row)
             /\ DOMAIN buckets'[c] = 1 .. Len(buckets[c]) + 1
             /\ DOMAIN buckets[c] = 1 .. Len(buckets[c]) /\ Len(buckets[c]) \in Nat
             /\ buckets'[c][Len(buckets[c]) + 1] = rows[r]
             /\ \A z \in DOMAIN buckets[c] : buckets'[c][z] = buckets[c][z]
  <2>1. buckets'[c] = Append(buckets[c], rows[r]) /\ buckets[c] \in Seq(Row)
    BY <1>2, <1>3
  <2> QED BY <1>1, <2>1
<1>4. ASSUME NEW c \in Names, c \notin Filed(rows[r].text)
      PROVE  buckets'[c] = buckets[c] /\ buckets[c] \in Seq(Row)
  BY <1>2, <1>4
<1>5. TextTypes'
  <2>1. buckets' \in [Names -> Seq(Row)]
    BY <1>2, <1>3, <1>4
  <2>2. r + 1 \in 1 .. Len(rows) + 1
    BY <1>0
  <2> QED BY <1>0, <2>1, <2>2 DEF TextTypes
<1>6. StageInv'
  <2>1. RunStarts' = RunStarts
    BY <1>0 DEF RunStarts, AllPrintable
  <2> QED BY <1>0, <2>1 DEF StageInv
<1>7. RowsInv'
  <2>1. /\ \A y, f : RowOf(y, f)' = RowOf(y, f) /\ Kept(y, f)' = Kept(y, f)
        /\ Len(image)' = Len(image)
    BY <1>0, TextFrozen
  <2> QED BY <1>0, <2>1 DEF RowsInv
<1>8. BucketInv'
  <2> DEFINE From(c, z, m) == \E y \in 1 .. m : buckets'[c][z] = rows[y] /\ c \in Filed(rows[y].text)
  <2>1. ASSUME NEW c \in Names, NEW z \in DOMAIN buckets[c]
        PROVE  /\ \E y \in 1 .. r : buckets[c][z] = rows[y] /\ c \in Filed(rows[y].text)
               /\ buckets[c][z].off < rows[r].off
    <3>1. PICK y \in 1 .. r - 1 : buckets[c][z] = rows[y] /\ c \in Filed(rows[y].text)
      BY <1>0, <2>1 DEF BucketInv
    <3>2. y \in DOMAIN rows /\ r \in DOMAIN rows /\ y < r /\ y \in 1 .. r
      BY <1>0, <1>1, <3>1
    <3> QED BY <1>0, <3>1, <3>2 DEF RowsInv
  <2>2. ASSUME NEW c \in Names, NEW z \in DOMAIN buckets'[c]
        PROVE  From(c, z, r)
    <3>1. CASE c \notin Filed(rows[r].text)
      BY <1>4, <2>1, <2>2, <3>1
    <3>2. CASE c \in Filed(rows[r].text)
      <4>1. CASE z \in DOMAIN buckets[c]
        BY <1>3, <2>1, <3>2, <4>1
      <4>2. CASE z = Len(buckets[c]) + 1
        BY <1>0, <1>3, <3>2, <4>2
      <4> QED BY <1>3, <2>2, <3>2, <4>1, <4>2
    <3> QED BY <3>1, <3>2
  <2>3. ASSUME NEW c \in Names, NEW y \in DOMAIN buckets'[c], NEW z \in DOMAIN buckets'[c], y < z
        PROVE  buckets'[c][y].off < buckets'[c][z].off
    <3>1. CASE c \notin Filed(rows[r].text)
      BY <1>0, <1>4, <2>3, <3>1 DEF BucketInv
    <3>2. CASE c \in Filed(rows[r].text)
      <4>1. y \in DOMAIN buckets[c]
        BY <1>3, <2>3, <3>2
      <4>2. CASE z \in DOMAIN buckets[c]
        BY <1>0, <1>3, <2>3, <3>2, <4>1, <4>2 DEF BucketInv
      <4>3. CASE z = Len(buckets[c]) + 1
        BY <1>3, <2>1, <3>2, <4>1, <4>3
      <4> QED BY <1>3, <2>3, <3>2, <4>2, <4>3
    <3> QED BY <3>1, <3>2
  <2>4. ASSUME NEW y \in 1 .. r, NEW c \in Filed(rows[y].text)
        PROVE  \E z \in DOMAIN buckets'[c] : buckets'[c][z] = rows[y]
    <3>0. c \in Names
      BY <1>0
    <3>1. CASE y = r
      <4>1. Len(buckets[c]) + 1 \in DOMAIN buckets'[c]
        BY <1>3, <2>4, <3>0, <3>1
      <4> QED BY <1>3, <2>4, <3>0, <3>1, <4>1
    <3>2. CASE y \in 1 .. r - 1
      <4>1. PICK z \in DOMAIN buckets[c] : buckets[c][z] = rows[y]
        BY <1>0, <2>4, <3>2 DEF BucketInv
      <4>2. z \in DOMAIN buckets'[c] /\ buckets'[c][z] = buckets[c][z]
        BY <1>3, <1>4, <3>0, <4>1
      <4> QED BY <4>1, <4>2
    <3> QED BY <1>0, <3>1, <3>2
  <2>5. (r + 1) - 1 = r
    BY <1>0
  <2>6. \A c \in Names : \A z \in DOMAIN buckets'[c] :
          \E y \in 1 .. r : buckets'[c][z] = rows[y] /\ c \in Filed(rows[y].text)
    BY <2>2
  <2> QED BY <1>0, <2>3, <2>4, <2>5, <2>6 DEF BucketInv
<1>9. PrintInv'
  <2>1. 1 .. cat - 1 = {} /\ PrintInv
    BY <1>0
  <2>2. DOMAIN printed = {}
    BY <2>1, Zenon DEF PrintInv
  <2>3. printed' = printed /\ cat' = cat
    BY <1>0
  <2> QED BY <2>1, <2>2, <2>3, Zenon DEF PrintInv
<1> QED BY <1>5, <1>6, <1>7, <1>8, <1>9 DEF TextInv

\* One section is printed or passed over.
LEMMA PrintStep ==
  ASSUME TextInv, UNCHANGED vars, PrintCategory \/ PassCategory
  PROVE  TextInv'
<1>0. /\ TextTypes /\ StageInv /\ RowsInv /\ BucketInv /\ PrintInv /\ TextInv
      /\ UNCHANGED <<image, pc, raw, want, at, rows, r, buckets, tpc>>
      /\ tpc = "print" /\ cat' = cat + 1
      /\ cat \in Nat /\ cat >= 1 /\ cat <= Len(Sections) /\ Len(Sections) \in Nat
      /\ Names' = Names /\ Sections' = Sections
      /\ \A c : Shown(c)' = Shown(c)
      /\ \A k : Section(k)' = Section(k)
  BY SectionFacts, TextFrozen
  DEF TextInv, TextTypes, PrintCategory, PassCategory, vars, Shown, Section
<1>1. /\ cat \in DOMAIN Sections /\ Sections[cat] \in Names
      /\ DOMAIN Sections = 1 .. Len(Sections)
      /\ Section(cat).name = Sections[cat]
      /\ Section(cat) \in [name : Names, lines : Seq(Row)]
  BY <1>0, SectionFacts DEF Section, TextTypes
<1>2. /\ Shown(Sections[cat]) => printed' = Append(printed, Section(cat))
      /\ ~Shown(Sections[cat]) => printed' = printed
  BY DEF PrintCategory, PassCategory, Section
<1>3. printed \in Seq([name : Names, lines : Seq(Row)])
  BY <1>0 DEF TextTypes
<1>4. TextTypes'
  <2>1. printed' \in Seq([name : Names, lines : Seq(Row)])
    <3> DEFINE Printed == [name : Names, lines : Seq(Row)]
    <3>1. Section(cat) \in Printed /\ printed \in Seq(Printed)
      BY <1>1, <1>3
    <3> HIDE DEF Printed
    <3>2. Append(printed, Section(cat)) \in Seq(Printed)
      BY <3>1
    <3>3. printed' \in Seq(Printed)
      BY <1>2, <3>1, <3>2, Zenon
    <3> QED BY <3>3 DEF Printed
  <2>2. cat + 1 \in 1 .. Len(Sections) + 1
    BY <1>0
  <2> QED BY <1>0, <2>1, <2>2 DEF TextTypes
<1>5. StageInv'
  <2>1. RunStarts' = RunStarts
    BY <1>0 DEF RunStarts, AllPrintable
  <2> QED BY <1>0, <2>1 DEF StageInv
<1>6. RowsInv' /\ BucketInv'
  BY <1>0, ListsKept
<1>7. PrintInv'
  <2>0. (cat + 1) - 1 = cat /\ \A k \in 1 .. cat : k = cat \/ k \in 1 .. cat - 1
    BY <1>0
  <2>1. CASE ~Shown(Sections[cat])
    <3>1. printed' = printed
      BY <1>2, <2>1
    <3>2. \A x \in DOMAIN printed : \E k \in 1 .. cat :
            printed[x] = Section(k) /\ Shown(Sections[k])
      BY <1>0 DEF PrintInv
    <3>3. \A k \in 1 .. cat : Shown(Sections[k]) =>
            \E x \in DOMAIN printed : printed[x] = Section(k)
      BY <1>0, <2>0, <2>1 DEF PrintInv
    <3> QED BY <1>0, <2>0, <3>1, <3>2, <3>3 DEF PrintInv
  <2>2. CASE Shown(Sections[cat])
    <3> DEFINE n == Len(printed)
    <3>1. /\ n \in Nat /\ DOMAIN printed = 1 .. n /\ DOMAIN printed' = 1 .. n + 1
          /\ printed'[n + 1] = Section(cat)
          /\ \A x \in 1 .. n : printed'[x] = printed[x]
      BY <1>1, <1>2, <1>3, <2>2
    <3>2. ASSUME NEW x \in 1 .. n PROVE \E k \in 1 .. cat :
            printed'[x] = Section(k) /\ Shown(Sections[k]) /\ k # cat
      <4>1. PICK k \in 1 .. cat - 1 : printed[x] = Section(k) /\ Shown(Sections[k])
        BY <1>0, <3>1, <3>2 DEF PrintInv
      <4> QED BY <1>0, <3>1, <4>1
    <3>3. \A x \in DOMAIN printed' : \E k \in 1 .. cat :
            printed'[x] = Section(k) /\ Shown(Sections[k])
      <4> TAKE x \in DOMAIN printed'
      <4>1. CASE x = n + 1
        BY <1>0, <2>2, <3>1, <4>1
      <4>2. CASE x \in 1 .. n
        BY <3>2, <4>2
      <4> QED BY <3>1, <4>1, <4>2
    <3>4. ASSUME NEW x \in 1 .. n PROVE printed'[x].name # Sections[cat]
      <4>1. PICK k \in 1 .. cat : printed'[x] = Section(k) /\ k # cat
        BY <3>2
      <4>2. printed'[x].name = Sections[k] /\ k \in DOMAIN Sections
        BY <1>0, <1>1, <4>1 DEF Section
      <4> QED BY <1>1, <4>1, <4>2, SectionFacts
    <3>5. \A x, y \in DOMAIN printed' : printed'[x].name = printed'[y].name => x = y
      <4> SUFFICES ASSUME NEW x \in 1 .. n + 1, NEW y \in 1 .. n + 1,
                          printed'[x].name = printed'[y].name
                   PROVE  x = y
        BY <3>1
      <4>1. printed'[n + 1].name = Sections[cat]
        BY <1>1, <3>1
      <4>2. CASE x \in 1 .. n /\ y \in 1 .. n
        <5>1. printed[x].name = printed[y].name /\ x \in DOMAIN printed /\ y \in DOMAIN printed
          BY <3>1, <4>2
        <5> QED BY <1>0, <5>1 DEF PrintInv
      <4>3. CASE x = n + 1
        BY <3>1, <3>4, <4>1, <4>3
      <4>4. CASE y = n + 1
        BY <3>1, <3>4, <4>1, <4>4
      <4> QED BY <3>1, <4>2, <4>3, <4>4
    <3>6. \A k \in 1 .. cat : Shown(Sections[k]) =>
            \E x \in DOMAIN printed' : printed'[x] = Section(k)
      <4> SUFFICES ASSUME NEW k \in 1 .. cat, Shown(Sections[k])
                   PROVE  \E x \in DOMAIN printed' : printed'[x] = Section(k)
        OBVIOUS
      <4>1. CASE k = cat
        <5>1. n + 1 \in DOMAIN printed'
          BY <3>1
        <5> QED BY <3>1, <4>1, <5>1
      <4>2. CASE k \in 1 .. cat - 1
        <5>1. PICK x \in DOMAIN printed : printed[x] = Section(k)
          BY <1>0, <4>2 DEF PrintInv
        <5>2. x \in DOMAIN printed' /\ printed'[x] = printed[x]
          BY <3>1, <5>1
        <5> QED BY <5>1, <5>2
      <4> QED BY <2>0, <4>1, <4>2
    <3> QED BY <1>0, <2>0, <3>3, <3>5, <3>6 DEF PrintInv
  <2> QED BY <2>1, <2>2
<1> QED BY <1>4, <1>5, <1>6, <1>7 DEF TextInv

\* While the file is swept, and after the report, the text is as it was.
LEMMA TextWaits ==
  ASSUME TextInv, UNCHANGED textVars, image' = image, pc' # pc => tpc = "idle"
  PROVE  TextInv'
<1>0. /\ TextTypes /\ StageInv /\ RowsInv /\ BucketInv /\ PrintInv
      /\ UNCHANGED <<raw, want, at, rows, r, buckets, cat, printed, tpc>>
  BY DEF TextInv, textVars
<1>1. TextTypes'
  <2>1. Names' = Names /\ Sections' = Sections
    BY DEF Names, Sections
  <2> QED BY <1>0, <2>1 DEF TextTypes
<1>2. StageInv'
  <2>1. RunStarts' = RunStarts /\ Sections' = Sections
    BY <1>0 DEF RunStarts, AllPrintable, Sections
  <2> QED BY <1>0, <2>1 DEF StageInv
<1>3. RowsInv' /\ BucketInv' /\ PrintInv'
  BY <1>0, ListsKept
<1> QED BY <1>1, <1>2, <1>3 DEF TextInv

LEMMA TextAlways == AuditSpec => []TextInv
<1>1. TypeOK /\ TextInv /\ [AuditNext]_<<vars, textVars>> => TextInv'
  <2> SUFFICES ASSUME TypeOK, TextInv, [AuditNext]_<<vars, textVars>> PROVE TextInv'
    OBVIOUS
  <2>0. image \in Seq(Nat)
    BY DEF TypeOK
  <2>1. CASE Step /\ UNCHANGED textVars
    <3>1. image' = image
      BY <2>1, FrozenStep DEF Next
    <3>2. pc # "done"
      BY <2>1 DEF Step, EndOfImage, ReadChunk, Hit, NextPattern, Carry
    <3> QED BY <2>1, <3>1, <3>2, TextWaits DEF TextInv, StageInv
  <2>2. CASE pc = "done" /\ TextStep /\ UNCHANGED vars
    <3>1. CASE KeepRun \/ DropRun
      BY <2>0, <2>2, <3>1, FindStep
    <3>2. CASE AskText \/ NoMoreRuns \/ Sorted \/ TextEnds
      BY <2>0, <2>2, <3>2, StageStep
    <3>3. CASE SortRow
      BY <2>2, <3>3, SortStep
    <3>4. CASE PrintCategory \/ PassCategory
      BY <2>2, <3>4, PrintStep
    <3> QED BY <2>2, <3>1, <3>2, <3>3, <3>4 DEF TextStep
  <2>3. CASE UNCHANGED <<vars, textVars>>
    BY <2>3, TextWaits DEF vars
  <2> QED BY <2>1, <2>2, <2>3 DEF AuditNext, AuditDone
<1>2. AuditSpec => []TypeOK
  BY TextLeavesSweep, TypeCorrect, PTL
<1> QED BY <1>1, <1>2, TextInit0, PTL DEF AuditSpec

\* When the search for runs has ended, every run that passes the filter is a row.
LEMMA AllRunsKept ==
  ASSUME TextInv, image \in Seq(Nat), tpc \notin {"idle", "find"},
         NEW x \in 0 .. Len(image), NEW e \in 0 .. Len(image), Kept(x, e)
  PROVE  \E y \in DOMAIN rows : rows[y] = RowOf(x, e)
<1>1. RunStarts = {}
  BY DEF TextInv, StageInv
<1>2. ~(e > at)
  BY <1>1, AheadOfSearch DEF TextInv, Kept
<1>3. e <= at
  BY <1>2 DEF TextInv, TextTypes
<1> QED BY <1>3 DEF TextInv, RowsInv

\* A row is the run of the image at its offset, all of it.
LEMMA RowIsRun ==
  ASSUME TextInv, image \in Seq(Nat), NEW y \in DOMAIN rows
  PROVE  LET b == rows[y].off
             e == b + Len(rows[y].text)
         IN  /\ b \in 0 .. Len(image) /\ e \in b .. Len(image)
             /\ Kept(b, e) /\ rows[y].text = Text(b, e)
<1>1. PICK x, e \in 0 .. Len(image) : rows[y] = RowOf(x, e) /\ Kept(x, e)
  BY DEF TextInv, RowsInv
<1>2. x <= e /\ Len(image) \in Nat
  BY <1>1, TextAssumption DEF Kept, IsRun
<1>3. rows[y].off = x /\ rows[y].text = Text(x, e) /\ Len(Text(x, e)) = e - x
  <2>1. x \in 0 .. Len(image) /\ e \in x .. Len(image)
    BY <1>2
  <2>2. Len(Text(x, e)) = e - x
    BY <2>1, TextFacts
  <2> QED BY <1>1, <2>2 DEF RowOf
<1>4. x + Len(rows[y].text) = e
  BY <1>1, <1>3
<1> QED BY <1>1, <1>2, <1>3, <1>4

\* For every file, list of categories and length of run, with and without the
\* filter: the report is of whole runs at their true offsets, in order, each
\* under every one of its categories that was asked for, and of all of them.
THEOREM TextIsAllListed == AuditSpec => []TextIsListed
<1>1. TypeOK /\ TextInv => TextIsListed
  <2> SUFFICES ASSUME TypeOK, TextInv, tpc \in {"printed", "raised"}
               PROVE  TextIsListed
    BY DEF TextIsListed
  <2>0. /\ image \in Seq(Nat) /\ TextTypes /\ BucketInv /\ PrintInv
        /\ cat = Len(Sections) + 1 /\ r = Len(rows) + 1
        /\ Len(Sections) \in Nat /\ Len(rows) \in Nat
        /\ DOMAIN Sections = 1 .. Len(Sections) /\ DOMAIN rows = 1 .. Len(rows)
        /\ cat - 1 = Len(Sections) /\ r - 1 = Len(rows)
    <3>1. rows \in Seq(Row) /\ cat = Len(Sections) + 1 /\ r = Len(rows) + 1
      BY DEF TextInv, TextTypes, StageInv
    <3> QED BY <3>1, SectionFacts DEF TypeOK, TextInv
  <2>1. \A x, y \in DOMAIN printed : printed[x].name = printed[y].name => x = y
    BY <2>0 DEF PrintInv
  <2>2. ASSUME NEW x \in DOMAIN printed
        PROVE  LET c == printed[x].name
                   s == printed[x].lines
               IN  /\ want \in {All, c}
                   /\ \A y, z \in DOMAIN s : y < z => s[y].off < s[z].off
                   /\ \A y \in DOMAIN s :
                        /\ Kept(s[y].off, s[y].off + Len(s[y].text))
                        /\ s[y].text = Text(s[y].off, s[y].off + Len(s[y].text))
                        /\ c \in Filed(s[y].text)
    <3>1. PICK k \in 1 .. cat - 1 : printed[x] = Section(k) /\ Shown(Sections[k])
      BY <2>0 DEF PrintInv
    <3> DEFINE c == Sections[k]
               s == buckets[c]
    <3>2. printed[x].name = c /\ printed[x].lines = s /\ c \in Names
      BY <2>0, <3>1 DEF Section, Names
    <3>3. want \in {All, c}
      BY <3>1 DEF Shown
    <3>4. \A y, z \in DOMAIN s : y < z => s[y].off < s[z].off
      BY <2>0, <3>2 DEF BucketInv
    <3>5. ASSUME NEW y \in DOMAIN s
          PROVE  /\ Kept(s[y].off, s[y].off + Len(s[y].text))
                 /\ s[y].text = Text(s[y].off, s[y].off + Len(s[y].text))
                 /\ c \in Filed(s[y].text)
      <4>1. PICK z \in 1 .. r - 1 : s[y] = rows[z] /\ c \in Filed(rows[z].text)
        BY <2>0, <3>2, <3>5 DEF BucketInv
      <4>2. z \in DOMAIN rows
        BY <2>0, <4>1
      <4> QED BY <2>0, <4>1, <4>2, RowIsRun
    <3> QED BY <3>2, <3>3, <3>4, <3>5
  <2>3. ASSUME NEW x \in 0 .. Len(image), NEW e \in 0 .. Len(image), Kept(x, e),
               NEW c \in Filed(Text(x, e)), want \in {All, c}
        PROVE  \E y \in DOMAIN printed :
                 /\ printed[y].name = c
                 /\ \E z \in DOMAIN printed[y].lines :
                      printed[y].lines[z] = [off |-> x, text |-> Text(x, e)]
    <3>1. PICK w \in DOMAIN rows : rows[w] = RowOf(x, e)
      BY <2>0, <2>3, AllRunsKept
    <3>2. w \in 1 .. r - 1 /\ rows[w].text = Text(x, e)
      BY <2>0, <3>1 DEF RowOf
    <3>3. PICK z \in DOMAIN buckets[c] : buckets[c][z] = rows[w]
      BY <2>0, <3>2 DEF BucketInv
    <3>4. c \in Names
      BY SectionFacts
    <3>5. PICK k \in 1 .. cat - 1 : Sections[k] = c
      BY <2>0, <3>4 DEF Names
    <3>6. Shown(Sections[k])
      BY <2>3, <3>3, <3>5 DEF Shown
    <3>7. PICK y \in DOMAIN printed : printed[y] = Section(k)
      BY <2>0, <3>6 DEF PrintInv
    <3>8. printed[y].name = c /\ printed[y].lines = buckets[c]
      BY <3>5, <3>7 DEF Section
    <3> QED BY <3>1, <3>3, <3>8 DEF RowOf
  <2> QED BY <2>1, <2>2, <2>3 DEF TextIsListed
<1>2. AuditSpec => []TypeOK
  BY TextLeavesSweep, TypeCorrect, PTL
<1> QED BY <1>1, <1>2, TextAlways, PTL

\* Among natural numbers there is a least.
LEMMA LeastThere ==
  ASSUME NEW S, S \subseteq Nat, S # {}
  PROVE  \E x \in S : \A y \in S : x <= y
<1>1. PICK x \in S : \A y \in S : ~(<<y, x>> \in OpToRel(<, Nat))
  BY WFMin, NatLessThanWellFounded
<1>2. \A y, z \in Nat : <<y, z>> \notin OpToRel(<, Nat) => z <= y
  BY DEF OpToRel
<1> QED BY <1>1, <1>2

\* A printable stretch lies in a whole run.
LEMMA RunAround ==
  ASSUME image \in Seq(Nat), NEW a \in Nat, NEW f \in 0 .. Len(image),
         a + MIN <= f, AllPrintable(a, f)
  PROVE  \E b \in 0 .. a, e \in f .. Len(image) : IsRun(b, e)
<1> DEFINE Starts == {b \in 0 .. a : AllPrintable(b, f)}
           Ends == {e \in f .. Len(image) : e = Len(image) \/ image[e + 1] \notin Printable}
<1>0. MIN \in Nat /\ MIN > 0 /\ Len(image) \in Nat /\ f \in Nat /\ f <= Len(image)
  BY TextAssumption
<1>1. PICK b \in Starts : \A y \in Starts : b <= y
  <2>1. Starts \subseteq Nat /\ a \in Starts
    OBVIOUS
  <2> QED BY <2>1, LeastThere
<1>2. PICK e \in Ends : \A y \in Ends : e <= y
  <2>1. Ends \subseteq Nat /\ Len(image) \in Ends
    BY <1>0
  <2> QED BY <2>1, LeastThere
<1>3. b \in Nat /\ b <= a /\ AllPrintable(b, f) /\ e \in Nat /\ f <= e /\ e <= Len(image)
  BY <1>0, <1>1, <1>2
<1>4. b > 0 => image[b] \notin Printable
  <2> SUFFICES ASSUME b > 0, image[b] \in Printable PROVE FALSE
    OBVIOUS
  <2>1. AllPrintable(b - 1, f)
    BY <1>0, <1>3 DEF AllPrintable
  <2>2. b - 1 \in Starts
    BY <1>3, <2>1
  <2> QED BY <1>1, <1>3, <2>2
<1>5. AllPrintable(b, e)
  <2> SUFFICES ASSUME NEW y \in b + 1 .. e PROVE image[y] \in Printable
    BY DEF AllPrintable
  <2>1. CASE y <= f
    BY <1>0, <1>3, <2>1 DEF AllPrintable
  <2>2. CASE y > f
    <3>1. y - 1 \in f .. Len(image) /\ ~(e <= y - 1) /\ (y - 1) + 1 = y
      BY <1>0, <1>3, <2>2
    <3>2. y - 1 \notin Ends
      BY <1>2, <3>1
    <3> QED BY <3>1, <3>2
  <2> QED BY <1>0, <1>3, <2>1, <2>2
<1> QED BY <1>0, <1>2, <1>3, <1>4, <1>5 DEF IsRun

\* For every file and every list of signatures the two halves of the tool agree:
\* a signature in a run that was kept is counted and found no later than there,
\* and without the filter each offset printed for a long enough printable
\* signature lies in a row.
THEOREM SweepAndTextAgree == AuditSpec => []SweepMeetsText
<1>1. TypeOK /\ TextInv /\ AbsentMeansAbsent /\ FirstIsFirst => SweepMeetsText
  <2> SUFFICES ASSUME TypeOK, TextInv, AbsentMeansAbsent, FirstIsFirst,
                      tpc \notin {"idle", "find"}, NEW p \in Signatures
               PROVE  /\ \A y \in DOMAIN rows : Contains(rows[y].text, Patterns[p]) =>
                           /\ counts[p] > 0
                           /\ first[p][1] <= rows[y].off + Len(rows[y].text) - Len(Patterns[p])
                      /\ raw /\ IsPrintable(p) /\ Len(Patterns[p]) >= MIN =>
                           \A x \in DOMAIN first[p] :
                             \E y \in DOMAIN rows : InRow(first[p][x], p, rows[y])
    BY DEF SweepMeetsText
  <2>0. /\ image \in Seq(Nat) /\ Len(image) \in Nat /\ pc = "done"
        /\ counts[p] \in Nat /\ first[p] \in Seq(Nat)
        /\ Len(Patterns[p]) \in Nat /\ Len(Patterns[p]) > 0
        /\ DOMAIN Patterns[p] = 1 .. Len(Patterns[p])
    <3>1. Patterns[p] \in Seq(Nat)
      BY PatternAssumption DEF Signatures
    <3> QED BY <3>1, PatternFacts DEF TypeOK, TextInv, StageInv, Size
  <2>1. ASSUME NEW y \in DOMAIN rows, Contains(rows[y].text, Patterns[p])
        PROVE  /\ counts[p] > 0
               /\ first[p][1] <= rows[y].off + Len(rows[y].text) - Len(Patterns[p])
    <3> DEFINE b == rows[y].off
               e == b + Len(rows[y].text)
    <3>1. /\ b \in 0 .. Len(image) /\ e \in b .. Len(image)
          /\ rows[y].text = Text(b, e)
      BY <2>0, RowIsRun
    <3>2. /\ Len(Text(b, e)) = e - b
          /\ \A z \in 1 .. e - b : Text(b, e)[z] = image[b + z]
      BY <2>0, <3>1, TextFacts
    <3>10. b = rows[y].off
      OBVIOUS
    <3> HIDE DEF b, e
    <3>3. PICK k \in 0 .. (e - b) - Len(Patterns[p]) :
            \A z \in 1 .. Len(Patterns[p]) : Text(b, e)[k + z] = Patterns[p][z]
      BY <2>0, <2>1, <3>1, <3>2 DEF Contains
    <3>4. OccursAt(p, b + k)
      <4>1. (b + k) + Len(Patterns[p]) <= Len(image)
        BY <2>0, <3>1, <3>3
      <4>2. ASSUME NEW z \in 1 .. Len(Patterns[p])
            PROVE  image[(b + k) + z] = Patterns[p][z]
        <5>1. k + z \in 1 .. e - b /\ (b + k) + z = b + (k + z)
          BY <2>0, <3>1, <3>3
        <5>2. Text(b, e)[k + z] = image[b + (k + z)]
          BY <3>2, <5>1
        <5> QED BY <3>3, <5>1, <5>2
      <4> QED BY <4>1, <4>2 DEF OccursAt
    <3>5. b + k \in Occurrences(p) /\ b + k \in Nat
      BY <2>0, <3>1, <3>3, <3>4 DEF Occurrences, OccursAt
    <3>6. counts[p] > 0
      BY <2>0, <3>5 DEF AbsentMeansAbsent
    <3>7. first[p] # <<>> /\ first[p][1] <= b + k
      BY <2>0, <3>5 DEF FirstIsFirst
    <3>8. first[p][1] \in Nat
      BY <2>0, <3>7
    <3>9. first[p][1] <= e - Len(Patterns[p])
      BY <2>0, <3>1, <3>3, <3>7, <3>8
    <3>11. Len(rows[y].text) = e - b
      BY <3>1, <3>2
    <3>12. first[p][1] <= b + (Len(rows[y].text) - Len(Patterns[p]))
      BY <2>0, <3>1, <3>8, <3>9, <3>11
    <3> QED BY <3>6, <3>10, <3>12
  <2>2. ASSUME raw, IsPrintable(p), Len(Patterns[p]) >= MIN, NEW x \in DOMAIN first[p]
        PROVE  \E y \in DOMAIN rows : InRow(first[p][x], p, rows[y])
    <3> DEFINE a == first[p][x]
               f == a + Len(Patterns[p])
    <3>0. x \in 1 .. Len(first[p])
      BY <2>0, <2>2
    <3>1. a \in Nat /\ OccursAt(p, a)
      BY <2>0, <3>0 DEF FirstIsFirst
    <3> HIDE DEF a
    <3>2. f \in 0 .. Len(image) /\ a + MIN <= f /\ f \in Nat /\ MIN \in Nat
      BY <2>0, <2>2, <3>1, TextAssumption DEF OccursAt
    <3>3. AllPrintable(a, f)
      <4> SUFFICES ASSUME NEW z \in a + 1 .. f PROVE image[z] \in Printable
        BY DEF AllPrintable
      <4>1. z - a \in 1 .. Len(Patterns[p]) /\ z = a + (z - a)
        BY <2>0, <3>1
      <4>2. image[a + (z - a)] = Patterns[p][z - a]
        BY <3>1, <4>1 DEF OccursAt
      <4> QED BY <2>0, <2>2, <4>1, <4>2 DEF IsPrintable
    <3> HIDE DEF f
    <3>4. PICK b \in 0 .. a, e \in f .. Len(image) : IsRun(b, e)
      BY <2>0, <3>1, <3>2, <3>3, RunAround
    <3>5. b \in 0 .. Len(image) /\ e \in 0 .. Len(image) /\ e \in b .. Len(image)
      BY <2>0, <3>1, <3>2, <3>4 DEF f
    <3>6. Kept(b, e)
      BY <2>2, <3>4 DEF Kept
    <3>7. PICK y \in DOMAIN rows : rows[y] = RowOf(b, e)
      BY <2>0, <3>5, <3>6, AllRunsKept
    <3>8. rows[y].off = b /\ Len(rows[y].text) = e - b
      <4>1. Len(Text(b, e)) = e - b
        BY <2>0, <3>5, TextFacts
      <4> QED BY <3>7, <4>1 DEF RowOf
    <3>9. InRow(a, p, rows[y])
      BY <2>0, <3>1, <3>4, <3>5, <3>8 DEF InRow, f
    <3> QED BY <3>9 DEF a
  <2> QED BY <2>1, <2>2
<1>2. AuditSpec => []TypeOK
  BY TextLeavesSweep, TypeCorrect, PTL
<1> QED BY <1>1, <1>2, TextAlways, AuditedSweep, PTL

=============================================================================
