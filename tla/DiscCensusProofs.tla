-------------------------- MODULE DiscCensusProofs --------------------------
(***************************************************************************)
(* What TLAPS proves of the censuses of one disc, for every container and  *)
(* whatever the token streams decode to: first of the two that look for    *)
(* blocks, then of all three.  The SCPK bundles are neither blocks nor     *)
(* bundles to the other two tools, what is proved of those holds beside    *)
(* the third, and its own verdicts add up.  Then the counts: each tool has *)
(* tallied the blocks it passed, and so the tools agree; and the reports,  *)
(* whose lines and totals are those of what the disc holds.                *)
(***************************************************************************)
EXTENDS DiscReports, FiniteSetTheorems, WellFoundedInduction, TLAPS

-----------------------------------------------------------------------------
(* Sums over finite sets                                                   *)

Some(s) == CHOOSE x \in s : TRUE

Body(f, t, s) == IF s = {} THEN 0 ELSE f[Some(s)] + t[s \ {Some(s)}]

Totals(f, S) == CHOOSE t : t = [s \in SUBSET S |-> Body(f, t, s)]

\* The library's sum, taken apart.
LEMMA SumIsTotal ==
  ASSUME NEW f, NEW S
  PROVE  SumFunctionOnSet(f, S) = Totals(f, S)[S]
BY DEF SumFunctionOnSet, FoldFunctionOnSet, MapThenFoldSet, Totals, Body, Some

\* Among natural numbers there is a least.
LEMMA LeastThere ==
  ASSUME NEW S, S \subseteq Nat, S # {}
  PROVE  \E x \in S : \A y \in S : x <= y
<1>1. PICK x \in S : \A y \in S : ~(<<y, x>> \in OpToRel(<, Nat))
  BY WFMin, NatLessThanWellFounded
<1>2. \A y, z \in Nat : <<y, z>> \notin OpToRel(<, Nat) => z <= y
  BY DEF OpToRel
<1> QED BY <1>1, <1>2

LEMMA OneLess ==
  ASSUME NEW s, IsFiniteSet(s), s # {}
  PROVE  /\ Some(s) \in s /\ IsFiniteSet(s \ {Some(s)})
         /\ Cardinality(s \ {Some(s)}) = Cardinality(s) - 1
         /\ Cardinality(s) \in Nat /\ Cardinality(s) > 0
<1>1. Some(s) \in s
  BY DEF Some
<1>2. Cardinality(s) \in Nat /\ Cardinality(s) # 0
  BY FS_CardinalityType, FS_EmptySet
<1> QED BY <1>1, <1>2, FS_RemoveElement

\* There are such totals: by the size of the subsets they are of.
LEMMA TotalsExist ==
  ASSUME NEW f, NEW S, IsFiniteSet(S)
  PROVE  \E t : t = [s \in SUBSET S |-> Body(f, t, s)]
<1> DEFINE Small(n) == {s \in SUBSET S : Cardinality(s) <= n}
           Bad == {n \in Nat : ~ \E t : t = [s \in Small(n) |-> Body(f, t, s)]}
<1>1. \A s \in SUBSET S : IsFiniteSet(s) /\ Cardinality(s) \in Nat /\ Cardinality(s) <= Cardinality(S)
  BY FS_Subset, FS_CardinalityType
<1>2. Bad = {}
  <2> SUFFICES ASSUME Bad # {} PROVE FALSE
    OBVIOUS
  <2>1. PICK m \in Bad : \A n \in Bad : m <= n
    <3>1. Bad \subseteq Nat
      OBVIOUS
    <3> QED BY <3>1, LeastThere
  <2>2. m \in Nat /\ ~ \E t : t = [s \in Small(m) |-> Body(f, t, s)]
    OBVIOUS
  <2>3. CASE m = 0
    <3>1. \A s \in Small(m) : s = {}
      BY <1>1, <2>3, FS_EmptySet
    <3> DEFINE t == [s \in Small(m) |-> 0]
    <3>2. t = [s \in Small(m) |-> Body(f, t, s)]
      BY <3>1 DEF Body
    <3> QED BY <2>2, <3>2
  <2>4. CASE m # 0
    <3>1. m - 1 \in Nat /\ ~(m <= m - 1)
      BY <2>2, <2>4
    <3>2. m - 1 \notin Bad
      BY <2>1, <3>1
    <3>3. PICK u : u = [s \in Small(m - 1) |-> Body(f, u, s)]
      BY <3>1, <3>2
    <3> DEFINE t == [s \in Small(m) |-> Body(f, u, s)]
    <3>4. ASSUME NEW s \in Small(m) PROVE Body(f, u, s) = Body(f, t, s)
      <4>1. CASE s = {}
        BY <4>1 DEF Body
      <4>2. CASE s # {}
        <5> DEFINE q == s \ {Some(s)}
        <5>1. q \in SUBSET S /\ Cardinality(q) = Cardinality(s) - 1 /\ Cardinality(s) \in Nat
              /\ Cardinality(s) <= m
          BY <1>1, <4>2, OneLess
        <5>2. q \in Small(m - 1) /\ q \in Small(m)
          BY <2>2, <3>1, <5>1
        <5>3. t[q] = Body(f, u, q) /\ u[q] = Body(f, u, q)
          <6> HIDE DEF q, Small
          <6> QED BY <3>3, <5>2
        <5> QED BY <4>2, <5>3 DEF Body
      <4> QED BY <4>1, <4>2
    <3>5. t = [s \in Small(m) |-> Body(f, t, s)]
      BY <3>4
    <3> QED BY <2>2, <3>5
  <2> QED BY <2>3, <2>4
<1>3. Cardinality(S) \in Nat
  BY FS_CardinalityType
<1>4. Small(Cardinality(S)) = SUBSET S
  BY <1>1
<1>5. \E t : t = [s \in Small(Cardinality(S)) |-> Body(f, t, s)]
  BY <1>2, <1>3
<1> QED BY <1>4, <1>5

LEMMA TotalsAre ==
  ASSUME NEW f, NEW S, IsFiniteSet(S), NEW s \in SUBSET S
  PROVE  Totals(f, S)[s] = Body(f, Totals(f, S), s)
<1> DEFINE T == Totals(f, S)
<1>1. T = [q \in SUBSET S |-> Body(f, T, q)]
  BY TotalsExist DEF Totals
<1> HIDE DEF T
<1>2. T[s] = Body(f, T, s)
  BY <1>1
<1> QED BY <1>2 DEF T

\* Among finite sets there is a smallest.
LEMMA SmallestSet ==
  ASSUME NEW W, W # {}, \A q \in W : IsFiniteSet(q)
  PROVE  \E q \in W : \A s \in W : Cardinality(q) <= Cardinality(s)
<1> DEFINE Sizes == {Cardinality(q) : q \in W}
<1>1. Sizes \subseteq Nat /\ Sizes # {}
  BY FS_CardinalityType
<1>2. PICK n \in Sizes : \A m \in Sizes : n <= m
  BY <1>1, LeastThere
<1> QED BY <1>2

\* They do not depend on the set they are taken in.
LEMMA TotalsAgree ==
  ASSUME NEW f, NEW S, NEW U, IsFiniteSet(S), IsFiniteSet(U),
         NEW s \in SUBSET (S \cap U)
  PROVE  Totals(f, S)[s] = Totals(f, U)[s]
<1> DEFINE Wrong == {q \in SUBSET (S \cap U) : Totals(f, S)[q] # Totals(f, U)[q]}
<1> SUFFICES ASSUME Wrong # {} PROVE FALSE
  OBVIOUS
<1>1. \A q \in SUBSET (S \cap U) : IsFiniteSet(q) /\ Cardinality(q) \in Nat
  BY FS_Subset, FS_CardinalityType
<1>2. PICK q \in Wrong : \A p \in Wrong : Cardinality(q) <= Cardinality(p)
  BY <1>1, SmallestSet
<1> DEFINE r == q \ {Some(q)}
<1>3. Totals(f, S)[q] = Body(f, Totals(f, S), q) /\ Totals(f, U)[q] = Body(f, Totals(f, U), q)
  BY TotalsAre
<1>4. q # {}
  BY <1>3 DEF Body
<1>5. /\ r \in SUBSET (S \cap U)
      /\ Cardinality(r) = Cardinality(q) - 1 /\ Cardinality(q) \in Nat
  BY <1>1, <1>4, OneLess
<1>6. ~(Cardinality(q) <= Cardinality(r))
  BY <1>5
<1>7. r \notin Wrong
  BY <1>2, <1>6
<1>8. Totals(f, S)[r] = Totals(f, U)[r]
  BY <1>5, <1>7
<1> QED BY <1>3, <1>4, <1>8 DEF Body

LEMMA SumOfNone == ASSUME NEW f PROVE SumFunctionOnSet(f, {}) = 0
<1>1. IsFiniteSet({}) /\ {} \in SUBSET {}
  BY FS_EmptySet
<1>2. Totals(f, {})[{}] = Body(f, Totals(f, {}), {})
  BY <1>1, TotalsAre
<1> QED BY <1>2, SumIsTotal DEF Body

LEMMA SumOfSome ==
  ASSUME NEW f, NEW s, IsFiniteSet(s), s # {}
  PROVE  SumFunctionOnSet(f, s) = f[Some(s)] + SumFunctionOnSet(f, s \ {Some(s)})
<1> DEFINE r == s \ {Some(s)}
<1>1. IsFiniteSet(r) /\ r \in SUBSET s /\ s \in SUBSET s /\ r \in SUBSET r
  BY FS_Subset
<1>2. Totals(f, s)[s] = f[Some(s)] + Totals(f, s)[r]
  BY <1>1, TotalsAre DEF Body
<1>3. Totals(f, s)[r] = Totals(f, r)[r]
  BY <1>1, TotalsAgree
<1> QED BY <1>2, <1>3, SumIsTotal

\* A sum of natural numbers is one.
LEMMA SumIsNat ==
  ASSUME NEW f, NEW S, IsFiniteSet(S), \A x \in S : f[x] \in Nat
  PROVE  SumFunctionOnSet(f, S) \in Nat
<1> DEFINE Wrong == {q \in SUBSET S : SumFunctionOnSet(f, q) \notin Nat}
<1> SUFFICES ASSUME Wrong # {} PROVE FALSE
  OBVIOUS
<1>1. \A q \in SUBSET S : IsFiniteSet(q) /\ Cardinality(q) \in Nat
  BY FS_Subset, FS_CardinalityType
<1>2. PICK q \in Wrong : \A p \in Wrong : Cardinality(q) <= Cardinality(p)
  BY <1>1, SmallestSet
<1>3. q # {}
  BY SumOfNone
<1> DEFINE r == q \ {Some(q)}
<1>4. /\ r \in SUBSET S /\ Some(q) \in S
      /\ Cardinality(r) = Cardinality(q) - 1 /\ Cardinality(q) \in Nat
  BY <1>1, <1>3, OneLess
<1>5. ~(Cardinality(q) <= Cardinality(r))
  BY <1>4
<1>6. SumFunctionOnSet(f, r) \in Nat
  BY <1>2, <1>4, <1>5
<1>7. SumFunctionOnSet(f, q) = f[Some(q)] + SumFunctionOnSet(f, r)
  BY <1>1, <1>3, SumOfSome
<1> QED BY <1>4, <1>6, <1>7

\* The order is of no importance: any new element adds what it stands for.
LEMMA SumAdds ==
  ASSUME NEW f, NEW S, IsFiniteSet(S), NEW x, x \notin S,
         \A y \in S \cup {x} : f[y] \in Nat
  PROVE  SumFunctionOnSet(f, S \cup {x}) = SumFunctionOnSet(f, S) + f[x]
<1> DEFINE T == S \cup {x}
           Sum(q) == SumFunctionOnSet(f, q)
           Wrong == {q \in SUBSET T : \E y \in T \ q : Sum(q \cup {y}) # Sum(q) + f[y]}
<1> SUFFICES ASSUME Wrong # {} PROVE FALSE
  OBVIOUS
<1>0. IsFiniteSet(T)
  BY FS_AddElement
<1>1. \A q \in SUBSET T : IsFiniteSet(q) /\ Cardinality(q) \in Nat
  BY <1>0, FS_Subset, FS_CardinalityType
<1>2. PICK q \in Wrong : \A p \in Wrong : Cardinality(q) <= Cardinality(p)
  BY <1>1, SmallestSet
<1>3. PICK y \in T \ q : Sum(q \cup {y}) # Sum(q) + f[y]
  BY <1>2
<1> DEFINE z == Some(q \cup {y})
<1>4. /\ q \in SUBSET T /\ q \cup {y} \in SUBSET T /\ q \cup {y} # {} /\ IsFiniteSet(q \cup {y})
  BY <1>1, <1>3
<1>5. z \in q \cup {y} /\ Sum(q \cup {y}) = f[z] + Sum((q \cup {y}) \ {z})
  BY <1>4, SumOfSome DEF Some
<1>6. \A p \in SUBSET T : Sum(p) \in Nat
  BY <1>1, SumIsNat
<1>7. \A v \in T : f[v] \in Nat
  OBVIOUS
<1> HIDE DEF Sum, z
<1>8. CASE z = y
  <2>1. (q \cup {y}) \ {z} = q
    BY <1>3, <1>8
  <2>2. f[y] \in Nat /\ Sum(q) \in Nat
    BY <1>4, <1>6, <1>7
  <2>3. Sum(q \cup {y}) = f[y] + Sum(q)
    BY <1>5, <1>8, <2>1, Zenon
  <2> QED BY <1>3, <2>2, <2>3
<1>9. CASE z # y
  <2> DEFINE p == q \ {z}
  <2>1. /\ z \in q /\ p \in SUBSET T /\ (q \cup {y}) \ {z} = p \cup {y} /\ p \cup {z} = q
        /\ y \in T \ p /\ z \in T \ p
    BY <1>3, <1>4, <1>5, <1>9
  <2>2. Cardinality(p) = Cardinality(q) - 1 /\ Cardinality(q) \in Nat
    BY <1>1, <1>4, <2>1, FS_RemoveElement
  <2>3. p \notin Wrong
    <3>1. ~(Cardinality(q) <= Cardinality(p))
      BY <2>2
    <3> QED BY <1>2, <3>1
  <2>4. Sum(p \cup {y}) = Sum(p) + f[y] /\ Sum(p \cup {z}) = Sum(p) + f[z]
    BY <2>1, <2>3
  <2>5. f[y] \in Nat /\ f[z] \in Nat /\ Sum(p) \in Nat
    BY <1>6, <1>7, <2>1
  <2>6. Sum(q \cup {y}) = f[z] + (Sum(p) + f[y]) /\ Sum(q) = Sum(p) + f[z]
    BY <1>5, <2>1, <2>4, Zenon
  <2> HIDE DEF p, Wrong, T
  <2> QED BY <1>3, <2>5, <2>6
<1> QED BY <1>8, <1>9

\* Functions that agree on a set have the same sum over it.
LEMMA SumSame ==
  ASSUME NEW f, NEW g, NEW S, IsFiniteSet(S), \A x \in S : f[x] = g[x]
  PROVE  SumFunctionOnSet(f, S) = SumFunctionOnSet(g, S)
<1> DEFINE Wrong == {q \in SUBSET S : SumFunctionOnSet(f, q) # SumFunctionOnSet(g, q)}
<1> SUFFICES ASSUME Wrong # {} PROVE FALSE
  OBVIOUS
<1>1. \A q \in SUBSET S : IsFiniteSet(q) /\ Cardinality(q) \in Nat
  BY FS_Subset, FS_CardinalityType
<1>2. PICK q \in Wrong : \A p \in Wrong : Cardinality(q) <= Cardinality(p)
  BY <1>1, SmallestSet
<1>3. q # {}
  BY SumOfNone
<1> DEFINE r == q \ {Some(q)}
<1>4. /\ r \in SUBSET S /\ Some(q) \in S
      /\ Cardinality(r) = Cardinality(q) - 1 /\ Cardinality(q) \in Nat
  BY <1>1, <1>3, OneLess
<1>5. ~(Cardinality(q) <= Cardinality(r))
  BY <1>4
<1>6. SumFunctionOnSet(f, r) = SumFunctionOnSet(g, r)
  BY <1>2, <1>4, <1>5
<1>7. /\ SumFunctionOnSet(f, q) = f[Some(q)] + SumFunctionOnSet(f, r)
      /\ SumFunctionOnSet(g, q) = g[Some(q)] + SumFunctionOnSet(g, r)
  BY <1>1, <1>3, SumOfSome
<1> QED BY <1>4, <1>6, <1>7

LEMMA SumOfEmpty == ASSUME NEW f, DOMAIN f = {} PROVE SumFunction(f) = 0
BY SumOfNone DEF SumFunction

\* One more element, and the same of the others.
LEMMA SumGrows ==
  ASSUME NEW f, NEW g, NEW x, IsFiniteSet(DOMAIN f), x \notin DOMAIN f,
         DOMAIN g = DOMAIN f \cup {x}, g[x] \in Nat,
         \A y \in DOMAIN f : g[y] = f[y] /\ f[y] \in Nat
  PROVE  SumFunction(g) = SumFunction(f) + g[x] /\ SumFunction(f) \in Nat
<1> DEFINE S == DOMAIN f
<1>1. SumFunctionOnSet(g, S \cup {x}) = SumFunctionOnSet(g, S) + g[x]
  BY SumAdds
<1>2. SumFunctionOnSet(f, S) = SumFunctionOnSet(g, S)
  BY SumSame
<1>3. SumFunctionOnSet(f, S) \in Nat
  BY SumIsNat
<1> QED BY <1>1, <1>2, <1>3 DEF SumFunction

LEMMA SumIsNatural ==
  ASSUME NEW f, IsFiniteSet(DOMAIN f), \A y \in DOMAIN f : f[y] \in Nat
  PROVE  SumFunction(f) \in Nat
BY SumIsNat DEF SumFunction

\* The same elements, and more of one of them.
LEMMA SumRises ==
  ASSUME NEW f, NEW g, NEW x \in DOMAIN f, IsFiniteSet(DOMAIN f), DOMAIN g = DOMAIN f,
         g[x] \in Nat, \A y \in DOMAIN f : f[y] \in Nat,
         \A y \in DOMAIN f \ {x} : g[y] = f[y]
  PROVE  SumFunction(g) + f[x] = SumFunction(f) + g[x]
<1> DEFINE S == DOMAIN f \ {x}
           Sum(q, s) == SumFunctionOnSet(q, s)
<1>1. IsFiniteSet(S) /\ S \cup {x} = DOMAIN f /\ x \notin S
  BY FS_RemoveElement
<1>2. Sum(f, S \cup {x}) = Sum(f, S) + f[x]
  BY <1>1, SumAdds
<1>3. Sum(g, S \cup {x}) = Sum(g, S) + g[x]
  BY <1>1, SumAdds
<1>4. Sum(f, S) = Sum(g, S)
  BY <1>1, SumSame
<1>5. Sum(f, S) \in Nat /\ f[x] \in Nat
  BY <1>1, SumIsNat
<1> HIDE DEF S, Sum
<1>6. Sum(g, S \cup {x}) + f[x] = Sum(f, S \cup {x}) + g[x]
  BY <1>2, <1>3, <1>4, <1>5
<1> QED BY <1>1, <1>6 DEF SumFunction, Sum

-----------------------------------------------------------------------------
(* Buffers                                                                 *)

LEMMA ByteIsByte ==
  ASSUME NEW b, IsBuffer(b), NEW o
  PROVE  Byte(b, o) \in 0 .. 255
BY DEF Byte, IsBuffer, Bytes

LEMMA WordIsNat ==
  ASSUME NEW b, IsBuffer(b), NEW o
  PROVE  U32(b, o) \in Nat
<1> DEFINE u == Byte(b, o)  v == Byte(b, o + 1)  w == Byte(b, o + 2)  x4 == Byte(b, o + 3)
<1>1. u \in 0 .. 255 /\ v \in 0 .. 255 /\ w \in 0 .. 255 /\ x4 \in 0 .. 255
  BY ByteIsByte
<1>2. U32(b, o) = u + 256 * (v + 256 * (w + 256 * x4))
  BY DEF U32
<1> HIDE DEF u, v, w, x4
<1> QED BY <1>1, <1>2, SMT

LEMMA SizesAreNat ==
  ASSUME NEW b, IsBuffer(b)
  PROVE  Packed(b) \in Nat /\ Unpacked(b) \in Nat /\ Method(b) \in Nat
BY WordIsNat, ByteIsByte DEF Packed, Unpacked, Method

LEMMA SliceIsBuffer ==
  ASSUME NEW b, IsBuffer(b), NEW o \in Nat, NEW n \in Nat
  PROVE  IsBuffer(Slice(b, o, n)) /\ Slice(b, o, n).len <= b.len
<1> DEFINE stop == Lesser(o + n, b.len)
           size == IF o < stop THEN stop - o ELSE 0
           kept == {d - o : d \in DOMAIN b.at \cap (o .. stop - 1)}
           at == [q \in kept |-> b.at[q + o]]
<1>1. stop \in Nat /\ stop <= b.len /\ b.len \in Nat
  BY DEF Lesser, IsBuffer
<1> HIDE DEF stop
<1>2. size \in Nat /\ size <= b.len
  BY <1>1
<1>3. ASSUME NEW q \in kept
      PROVE  q \in 0 .. size - 1 /\ b.at[q + o] \in Bytes
  <2>1. PICK d \in DOMAIN b.at \cap (o .. stop - 1) : q = d - o
    BY <1>3
  <2>2. d \in o .. stop - 1 /\ b.at[d] \in Bytes
    BY <2>1 DEF IsBuffer
  <2>3. q + o = d /\ q \in 0 .. stop - o - 1 /\ o < stop
    BY <1>1, <2>1, <2>2
  <2> QED BY <1>1, <2>2, <2>3
<1> HIDE DEF kept, size
<1>4. Slice(b, o, n) = [len |-> size, at |-> at]
  BY DEF Slice, stop, size, kept
<1>5. DOMAIN at = kept /\ \A q \in kept : at[q] = b.at[q + o]
  OBVIOUS
<1> QED BY <1>2, <1>3, <1>4, <1>5 DEF IsBuffer

LEMMA UnpackIsBuffer ==
  ASSUME NEW b, IsBuffer(b)
  PROVE  IsBuffer(Unpack(b))
<1>1. Unpacked(b) \in Nat
  BY SizesAreNat
<1>2. IsBuffer(Slice(b, 9, Unpacked(b))) /\ IsBuffer(Slice(b, 9, 0))
  BY <1>1, SliceIsBuffer
<1>3. IsBuffer(Streams[Byte(b, 9)])
  BY ByteIsByte, StreamAssumption DEF Bytes
<1> QED BY <1>2, <1>3 DEF Unpack

-----------------------------------------------------------------------------
(* What the tools take for a block, and for a buffer of parts              *)

\* The scan for orphans and the census by index speak of the same blocks: what
\* the scan takes for a header the census takes for a block wherever the index
\* points at it, so a block is an orphan because of the index alone.
THEOREM PlausibleIsBlock ==
  ASSUME NEW b, IsBuffer(b), Plausible(b)
  PROVE  IsBlock(b) /\ 16 <= b.len
<1>1. Method(b) \in {1, 3} /\ Packed(b) \in Nat /\ b.len \in Nat
  BY DEF Plausible, Known, IsBuffer
<1>2. First4(b) \notin {TIM2, MPEG, MSCF}
  BY <1>1 DEF First4, TIM2, MPEG, MSCF, Method
<1>3. \A q \in 16 .. MaxScanned : q \in 1 .. MaxUnpacked
  <2> SUFFICES ASSUME NEW q \in 16 .. MaxScanned PROVE q \in 1 .. MaxUnpacked
    OBVIOUS
  <2> DEFINE a == 256 * 256 * 256
  <2>1. a \in Nat
    OBVIOUS
  <2>2. MaxScanned = a - 1 /\ MaxUnpacked = a * 4 - 1
    BY Zenon DEF MaxScanned, MaxUnpacked
  <2> HIDE DEF a
  <2> QED BY <2>1, <2>2, SMT
<1> QED BY <1>1, <1>2, <1>3, SMT DEF Plausible, IsBlock, Known

Tiles(p, b) ==
  /\ p \in Seq([off : Nat, size : Nat])
  /\ p # <<>>
  /\ \A q \in 1 .. Len(p) - 1 : p[q].off + p[q].size = p[q + 1].off
  /\ p[Len(p)].off + p[Len(p)].size = b.len

LEMMA ArchiveTiles ==
  ASSUME NEW b, IsBuffer(b), IsArchive(b)
  PROVE  Tiles(ArchiveParts(b), b)
<1> DEFINE n == U32(b, 0)
<1>1. n \in Nat /\ n >= 1
  <2>1. n \in 1 .. MaxParts
    BY Zenon DEF IsArchive
  <2> HIDE DEF n
  <2> QED BY <2>1, SMT DEF MaxParts
<1>2. ArchiveParts(b) = [q \in 1 .. n |-> [off |-> U32(b, 8 * q - 4), size |-> U32(b, 8 * q)]]
  BY DEF ArchiveParts
<1>3. ArchiveParts(b) \in Seq([off : Nat, size : Nat]) /\ Len(ArchiveParts(b)) = n
  <2>1. \A q \in 1 .. n : [off |-> U32(b, 8 * q - 4), size |-> U32(b, 8 * q)] \in [off : Nat, size : Nat]
    BY WordIsNat
  <2> HIDE DEF n
  <2> QED BY <1>1, <1>2, <2>1
<1>4. /\ \A q \in 1 .. n - 1 :
           ArchiveParts(b)[q].off + ArchiveParts(b)[q].size = ArchiveParts(b)[q + 1].off
      /\ ArchiveParts(b)[n].off + ArchiveParts(b)[n].size = b.len
  BY Zenon DEF IsArchive
<1>5. ArchiveParts(b) # <<>>
  <2> HIDE DEF n
  <2> QED BY <1>1, <1>3
<1> QED BY <1>3, <1>4, <1>5, Zenon DEF Tiles

LEMMA BundleTiles ==
  ASSUME NEW b, IsBuffer(b), IsBundle(b)
  PROVE  Tiles(BundleParts(b), b)
<1> DEFINE n == U32(b, 0)
           start(q) == U32(b, 4 * q)
           end(q) == IF q < n THEN U32(b, 4 * q + 4) ELSE b.len
           p == BundleParts(b)
<1>1. n \in Nat /\ n >= 2 /\ b.len \in Nat
  <2>1. n \in 2 .. MaxParts /\ b.len \in Nat
    BY Zenon DEF IsBundle, IsBuffer
  <2> HIDE DEF n
  <2> QED BY <2>1, SMT DEF MaxParts
<1>2. \A q \in 1 .. n : start(q) \in Nat /\ end(q) \in Nat /\ start(q) < end(q)
  <2> SUFFICES ASSUME NEW q \in 1 .. n
               PROVE  start(q) \in Nat /\ end(q) \in Nat /\ start(q) < end(q)
    OBVIOUS
  <2>1. start(q) \in Nat /\ U32(b, 4 * q + 4) \in Nat
    BY WordIsNat
  <2>2. CASE q < n
    <3>1. q \in 1 .. n - 1
      BY <1>1, <2>2
    <3> QED BY <2>1, <2>2, <3>1, SMT DEF IsBundle
  <2>3. CASE q = n
    BY <1>1, <2>1, <2>3, SMT DEF IsBundle
  <2> QED BY <1>1, <2>2, <2>3
<1>3. p = [q \in 1 .. n |-> [off |-> start(q), size |-> end(q) - start(q)]]
  BY DEF BundleParts
<1>4. \A q \in 1 .. n - 1 : end(q) = start(q + 1)
  BY <1>1
<1>5. end(n) = b.len
  BY <1>1
<1> HIDE DEF n, start, end, p
<1>6. p \in Seq([off : Nat, size : Nat]) /\ Len(p) = n
  <2>1. \A q \in 1 .. n : [off |-> start(q), size |-> end(q) - start(q)] \in [off : Nat, size : Nat]
    BY <1>2
  <2> QED BY <1>1, <1>3, <2>1
<1>7. \A q \in 1 .. n : p[q].off = start(q) /\ p[q].off + p[q].size = end(q)
  BY <1>2, <1>3
<1>8. p # <<>>
  BY <1>1, <1>6
<1>9. \A q \in 1 .. n - 1 : p[q].off + p[q].size = p[q + 1].off
  <2> SUFFICES ASSUME NEW q \in 1 .. n - 1 PROVE p[q].off + p[q].size = p[q + 1].off
    OBVIOUS
  <2>1. q \in 1 .. n /\ q + 1 \in 1 .. n
    BY <1>1
  <2> QED BY <1>4, <1>7, <2>1
<1>10. p[n].off + p[n].size = b.len
  BY <1>1, <1>5, <1>7
<1> QED BY <1>6, <1>8, <1>9, <1>10 DEF Tiles, p

-----------------------------------------------------------------------------
(* The tallies                                                             *)

Even(t) == t.methods[0] + t.methods[1] + t.methods[3] = t.ok + Len(t.bad)

LEMMA AddKeepsEven ==
  ASSUME NEW t \in Tallies, NEW b, IsBuffer(b), IsBlock(b), b.len >= 16,
         NEW where \in Places
  PROVE  Add(t, b, where) \in Tallies /\ (Even(t) => Even(Add(t, b, where)))
<1> DEFINE p == Packed(b)
           u == Unpacked(b)
           m == Method(b)
           good == Unpack(b).len = Unpacked(b)
           ms == [t.methods EXCEPT ![m] = @ + 1]
           oks == IF good THEN t.ok + 1 ELSE t.ok
           bads == IF good THEN t.bad ELSE Append(t.bad, where)
           most == IF p > t.largest[1] THEN <<p, where>> ELSE t.largest
           least == IF t.smallest = <<>> \/ p < t.smallest[1] THEN <<p, where>> ELSE t.smallest
           more == IF p >= u THEN t.expanded + 1 ELSE t.expanded
<1>1. p \in Nat /\ u \in Nat /\ m \in Known /\ ~Raises(b)
  <2>1. m \in Known
    BY DEF IsBlock
  <2>2. b.len \in Nat
    BY DEF IsBuffer
  <2> QED BY <2>1, <2>2, SizesAreNat DEF Raises
<1>2. Add(t, b, where) =
        [methods |-> ms, packed |-> t.packed + p, unpacked |-> t.unpacked + u, ok |-> oks,
         bad |-> bads, largest |-> most, smallest |-> least, expanded |-> more]
  BY <1>1, Zenon DEF Add
<1>3. /\ t.methods \in [Known -> Nat] /\ t.packed \in Nat /\ t.unpacked \in Nat
      /\ t.ok \in Nat /\ t.bad \in Seq(Places) /\ t.expanded \in Nat
      /\ t.largest \in Nat \X Places /\ t.smallest \in (Nat \X Places) \cup {<<>>}
  BY DEF Tallies
<1> HIDE DEF p, u, m, good
<1>4. ms \in [Known -> Nat] /\ t.packed + p \in Nat /\ t.unpacked + u \in Nat
        /\ oks \in Nat /\ more \in Nat
  <2>1. ms \in [Known -> Nat]
    <3>1. \A a \in Nat : a + 1 \in Nat
      OBVIOUS
    <3> QED BY <1>1, <1>3, <3>1
  <2>2. oks \in Nat
    BY <1>3
  <2>3. more \in Nat
    BY <1>3
  <2> QED BY <1>1, <1>3, <2>1, <2>2, <2>3
<1>5. bads \in Seq(Places)
  BY <1>3
<1>6. most \in Nat \X Places /\ least \in (Nat \X Places) \cup {<<>>}
  BY <1>1, <1>3
<1>7. oks + Len(bads) = t.ok + Len(t.bad) + 1
  <2>1. Len(Append(t.bad, where)) = Len(t.bad) + 1 /\ Len(t.bad) \in Nat
    BY <1>3
  <2>2. CASE good
    BY <1>3, <2>1, <2>2
  <2>3. CASE ~good
    BY <1>3, <2>1, <2>3
  <2> QED BY <2>2, <2>3
<1>8. ms[0] + ms[1] + ms[3] = t.methods[0] + t.methods[1] + t.methods[3] + 1
  BY <1>1, <1>3 DEF Known
<1>9. Add(t, b, where) \in Tallies
  <2> HIDE DEF ms, oks, bads, most, least, more
  <2> QED BY <1>2, <1>4, <1>5, <1>6 DEF Tallies
<1>10. ASSUME Even(t) PROVE Even(Add(t, b, where))
  <2>1. t.methods[0] + t.methods[1] + t.methods[3] = t.ok + Len(t.bad)
    BY <1>10 DEF Even
  <2>2. ms[0] + ms[1] + ms[3] = oks + Len(bads)
    BY <1>7, <1>8, <2>1
  <2> HIDE DEF ms, oks, bads, most, least, more
  <2> QED BY <1>2, <2>2 DEF Even
<1> QED BY <1>9, <1>10

-----------------------------------------------------------------------------
(* Types                                                                   *)

Given == container \in Containers

TypeInv == TypeOK /\ Given

LEMMA MembersAreBuffers ==
  ASSUME Given
  PROVE  container \in Seq(Buffers) /\ \A a \in 1 .. Len(container) : IsBuffer(container[a])
<1>1. container \in Seq(Buffers)
  BY ContainerAssumption DEF Given
<1> QED BY <1>1, ContainerAssumption

LEMMA KindIsKind ==
  ASSUME NEW b, NEW got \in Nat
  PROVE  /\ Kind(b, got) \in Kinds
         /\ Kind(b, got) \in {"block:stored", "block:1", "block:3"} => IsBlock(b)
<1>1. IsBlock(b) => BlockKind(Method(b)) \in {"block:stored", "block:1", "block:3"}
  <2>1. IsBlock(b) => Method(b) = 0 \/ Method(b) = 1 \/ Method(b) = 3
    BY DEF IsBlock, Known
  <2>2. BlockKind(0) = "block:stored" /\ BlockKind(1) = "block:1" /\ BlockKind(3) = "block:3"
    BY DEF BlockKind, BlockKinds
  <2> QED BY <2>1, <2>2
<1>2. got = 0 \/ got \in 1 .. 8 \/ got >= 9
  OBVIOUS
<1>3. TIM2 # MPEG /\ TIM2 # MSCF /\ MPEG # MSCF
  BY DEF TIM2, MPEG, MSCF
<1> DEFINE blk == BlockKind(Method(b))
<1> HIDE DEF blk
<1>4. IsBlock(b) => First4(b) # TIM2 /\ First4(b) # MPEG /\ First4(b) # MSCF
  BY DEF IsBlock
<1> QED BY <1>1, <1>2, <1>3, <1>4 DEF Kind, Kinds, blk

LEMMA TypeInit == BothInit => TypeInv
<1> SUFFICES ASSUME BothInit PROVE TypeInv
  OBVIOUS
<1>1. IsBuffer([len |-> 0, at |-> <<>>])
  BY DEF IsBuffer
<1>2. IsBuffer(body)
  BY <1>1, SliceIsBuffer DEF BothInit, Init
<1>3. Tally \in Tallies
  <2>1. [m \in Known |-> 0] \in [Known -> Nat] /\ <<>> \in Seq(Places) /\ <<>> \in Places
    BY DEF Places
  <2> QED BY <2>1 DEF Tally, Tallies
<1>4. Given /\ Len(container) \in Nat
  BY MembersAreBuffers DEF BothInit, Init, Given
<1>5. CensusTypeOK
  BY <1>2, <1>3, <1>4 DEF BothInit, Init, CensusTypeOK
<1>6. biggest \in Nat \X Places
  <2>1. <<>> \in Places /\ 0 \in Nat
    BY DEF Places
  <2> QED BY <2>1 DEF BothInit, BinInit
<1> QED BY <1>4, <1>5, <1>6 DEF BothInit, BinInit, TypeInv, TypeOK

\* What a part is cut to is a buffer, whatever the parts say.
LEMMA PartIsBuffer ==
  ASSUME CensusTypeOK, NEW q \in 1 .. Len(parts)
  PROVE  IsBuffer(Part(q))
<1>1. parts \in Seq([off : Nat, size : Nat]) /\ IsBuffer(body)
  BY DEF CensusTypeOK
<1>2. parts[q] \in [off : Nat, size : Nat]
  <2> DEFINE Sizes == [off : Nat, size : Nat]
  <2>1. parts \in Seq(Sizes)
    BY <1>1
  <2> HIDE DEF Sizes
  <2>2. parts[q] \in Sizes
    BY <2>1
  <2> QED BY <2>2 DEF Sizes
<1>3. parts[q].off \in Nat /\ parts[q].size \in Nat
  BY <1>2
<1> QED BY <1>1, <1>3, SliceIsBuffer DEF Part

LEMMA CensusTypeStep == TypeInv /\ CensusStep /\ UNCHANGED container => CensusTypeOK'
<1> SUFFICES ASSUME TypeInv, CensusStep, UNCHANGED container PROVE CensusTypeOK'
  OBVIOUS
<1>0. /\ CensusTypeOK /\ Len(container) \in Nat /\ Len(container)' = Len(container)
      /\ \A a \in 1 .. Len(container) : IsBuffer(container[a])
      /\ i \in Nat /\ j \in Nat /\ Len(parts) \in Nat
  <2>1. CensusTypeOK /\ container \in Seq(Buffers)
        /\ \A a \in 1 .. Len(container) : IsBuffer(container[a])
    BY MembersAreBuffers DEF TypeInv, TypeOK
  <2>2. Len(container) \in Nat
    BY <2>1
  <2>3. parts \in Seq([off : Nat, size : Nat]) /\ i \in 1 .. Len(container) + 1
        /\ j \in 1 .. Len(parts) + 1
    BY <2>1 DEF CensusTypeOK
  <2>4. Len(parts) \in Nat
    BY <2>3
  <2> QED BY <2>1, <2>2, <2>3, <2>4
<1>1. CASE SkipMember \/ PassRaw
  BY <1>0, <1>1 DEF SkipMember, PassRaw, CensusTypeOK
<1>2. CASE OpenBundle
  <2>1. /\ IsBuffer(container[i]) /\ IsBundle(container[i]) /\ i <= Len(container)
        /\ body' = container[i] /\ parts' = BundleParts(container[i])
    BY <1>0, <1>2 DEF OpenBundle, CensusTypeOK
  <2>2. parts' \in Seq([off : Nat, size : Nat]) /\ Len(parts') \in Nat
    BY <2>1, BundleTiles DEF Tiles
  <2>3. bundles' \in Nat /\ bundleMembers' \in Nat
    BY <1>0, <1>2, <2>2 DEF OpenBundle, CensusTypeOK
  <2>4. IsBuffer(body') /\ IsBuffer(body)' /\ j' = 1 /\ pc' = "parts"
    BY <1>2, <2>1 DEF OpenBundle, IsBuffer
  <2> QED BY <1>0, <1>2, <2>1, <2>2, <2>3, <2>4 DEF OpenBundle, CensusTypeOK
<1>3. CASE CountBlock \/ CountArchive
  <2>1. /\ IsBuffer(container[i]) /\ i <= Len(container) /\ top \in Tallies
        /\ IsBlock(container[i]) /\ container[i].len >= 16
        /\ top' = Add(top, container[i], <<i>>) /\ <<i>> \in Places
    BY <1>0, <1>3 DEF CountBlock, CountArchive, CensusTypeOK, Places
  <2>2. top' \in Tallies
    BY <2>1, AddKeepsEven
  <2>3. CASE CountBlock
    BY <1>0, <2>2, <2>3 DEF CountBlock, CensusTypeOK
  <2>4. CASE CountArchive
    <3>1. /\ IsBuffer(Unpack(container[i])) /\ IsArchive(Unpack(container[i]))
          /\ body' = Unpack(container[i]) /\ parts' = ArchiveParts(body')
      BY <2>1, <2>4, UnpackIsBuffer DEF CountArchive, Opens
    <3>2. parts' \in Seq([off : Nat, size : Nat]) /\ Len(parts') \in Nat
      BY <3>1, ArchiveTiles DEF Tiles
    <3>3. archives' \in Nat /\ archiveMembers' \in Nat
      BY <1>0, <2>4, <3>2 DEF CountArchive, CensusTypeOK
    <3>4. IsBuffer(body)' /\ j' = 1 /\ pc' = "parts"
      BY <2>4, <3>1 DEF CountArchive, IsBuffer
    <3> QED BY <1>0, <2>1, <2>2, <2>4, <3>2, <3>3, <3>4 DEF CountArchive, CensusTypeOK
  <2> QED BY <1>3, <2>3, <2>4
<1>4. CASE SkipPart
  BY <1>0, <1>4 DEF SkipPart, CensusTypeOK
<1>5. CASE CountPart
  <2>1. /\ IsBuffer(Part(j)) /\ IsBlock(Part(j)) /\ Part(j).len >= 16 /\ inner \in Tallies
        /\ inner' = Add(inner, Part(j), <<i, j>>) /\ <<i, j>> \in Places
    BY <1>0, <1>5, PartIsBuffer DEF CountPart, IsBlockPart, CensusTypeOK, Places
  <2>2. inner' \in Tallies
    BY <2>1, AddKeepsEven
  <2> QED BY <1>0, <1>5, <2>2 DEF CountPart, CensusTypeOK
<1>6. CASE PartsDone \/ CensusDone
  BY <1>0, <1>6 DEF PartsDone, CensusDone, CensusTypeOK
<1> QED BY <1>1, <1>2, <1>3, <1>4, <1>5, <1>6 DEF CensusStep

LEMMA TypeStep == TypeInv /\ [Next]_vars => TypeInv'
<1> SUFFICES ASSUME TypeInv, [Next]_vars PROVE TypeInv'
  OBVIOUS
<1>0. /\ container' = container /\ CensusTypeOK /\ Given' /\ TypeOK
      /\ Len(container) \in Nat
      /\ \A a \in 1 .. Len(container) : IsBuffer(container[a])
  <2>1. container' = container
    BY DEF Next, Codec, BinStep, BinOther, BinBlock, CountKind, Done, vars
  <2> QED BY <2>1, MembersAreBuffers DEF TypeInv, TypeOK, Given
<1>1. CASE Codec
  <2>1. CensusTypeOK'
    BY <1>1, CensusTypeStep DEF Codec
  <2>2. UNCHANGED binVars
    BY <1>1 DEF Codec
  <2> QED BY <1>0, <2>1, <2>2 DEF TypeInv, TypeOK, binVars
<1>2. CASE BinStep
  <2>1. k <= Len(container) /\ k \in 1 .. Len(container) /\ CountKind(container[k])
    BY <1>0, <1>2 DEF BinStep, BinOther, BinBlock, TypeOK
  <2>2. CensusTypeOK'
    BY <1>0, <2>1 DEF CountKind, censusVars, CensusTypeOK, IsBuffer
  <2>3. IsBuffer(container[k]) /\ Read(container[k]) \in Nat /\ container[k].len \in Nat
    BY <1>0, <2>1 DEF Read, Lesser, IsBuffer
  <2>4. KindOf(container[k]) \in Kinds
    BY <2>3, KindIsKind DEF KindOf
  <2>5. counts' \in [Kinds -> Nat] /\ room' \in [Kinds -> Nat] /\ k' \in 1 .. Len(container) + 1
    <3>1. counts \in [Kinds -> Nat] /\ room \in [Kinds -> Nat]
      BY <1>0 DEF TypeOK
    <3> HIDE DEF Kinds
    <3>2. counts' = [counts EXCEPT ![KindOf(container[k])] = @ + 1]
            /\ room' = [room EXCEPT ![KindOf(container[k])] = @ + container[k].len]
            /\ k' = k + 1
      BY <2>1 DEF CountKind
    <3>3. counts[KindOf(container[k])] + 1 \in Nat
            /\ room[KindOf(container[k])] + container[k].len \in Nat
      BY <2>3, <2>4, <3>1
    <3> DEFINE kd == KindOf(container[k])
               n  == container[k].len
    <3>4. kd \in Kinds /\ counts[kd] + 1 \in Nat /\ room[kd] + n \in Nat
      BY <2>4, <3>3
    <3>5. counts' = [counts EXCEPT ![kd] = @ + 1] /\ room' = [room EXCEPT ![kd] = @ + n]
      BY <3>2
    <3> HIDE DEF kd, n
    <3>6. counts' \in [Kinds -> Nat]
      BY <3>1, <3>4, <3>5
    <3>7. room' \in [Kinds -> Nat]
      BY <3>1, <3>4, <3>5
    <3>8. k' \in 1 .. Len(container) + 1
      BY <1>0, <2>1, <3>2
    <3> QED BY <3>6, <3>7, <3>8
  <2>6. packedTotal' \in Nat /\ unpackedTotal' \in Nat /\ biggest' \in Nat \X Places
    <3>1. Packed(container[k]) \in Nat /\ Unpacked(container[k]) \in Nat /\ <<k>> \in Places
      BY <2>1, <2>3, SizesAreNat, <1>0 DEF Places
    <3>2. packedTotal \in Nat /\ unpackedTotal \in Nat /\ biggest \in Nat \X Places
      BY <1>0 DEF TypeOK
    <3>3. CASE BinOther
      BY <3>2, <3>3 DEF BinOther
    <3>4. CASE BinBlock
      <4>1. /\ packedTotal' = packedTotal + Packed(container[k])
            /\ unpackedTotal' = unpackedTotal + Unpacked(container[k])
            /\ biggest' = <<Packed(container[k]), <<k>>>> \/ biggest' = biggest
        BY <3>4 DEF BinBlock
      <4>2. <<Packed(container[k]), <<k>>>> \in Nat \X Places
        BY <3>1
      <4>3. biggest' \in Nat \X Places
        BY <3>2, <4>1, <4>2
      <4> QED BY <3>1, <3>2, <4>1, <4>3
    <3> QED BY <1>2, <3>3, <3>4 DEF BinStep
  <2> QED BY <1>0, <2>2, <2>5, <2>6 DEF TypeInv, TypeOK
<1>3. CASE UNCHANGED vars
  <2>1. UNCHANGED <<container, i, body, parts, j, top, inner, archives, archiveMembers,
                    bundles, bundleMembers, pc>>
    BY <1>3 DEF vars, censusVars
  <2>2. CensusTypeOK'
    BY <1>0, <2>1 DEF CensusTypeOK, IsBuffer
  <2> QED BY <1>0, <1>3, <2>2 DEF TypeInv, TypeOK, vars, binVars
<1> QED BY <1>1, <1>2, <1>3 DEF Next, Done

\* Whatever the members hold and the streams decode to, no part is read outside
\* the parts there are and every tally counts in natural numbers.
THEOREM TypeCorrect == Spec => []TypeOK
<1>1. TypeInv => TypeOK
  BY DEF TypeInv
<1> QED BY <1>1, TypeInit, TypeStep, PTL DEF Spec

-----------------------------------------------------------------------------
(* Parts and counts                                                        *)

PartsInv == pc = "parts" => Tiles(parts, body)

LEMMA PartsStep == TypeInv /\ PartsInv /\ [Next]_vars => PartsInv'
<1> SUFFICES ASSUME TypeInv, PartsInv, [Next]_vars, pc' = "parts" PROVE Tiles(parts, body)'
  BY DEF PartsInv
<1>0. CensusTypeOK /\ \A a \in 1 .. Len(container) : IsBuffer(container[a])
  BY MembersAreBuffers DEF TypeInv, TypeOK
<1>1. CASE OpenBundle
  <2>1. /\ IsBuffer(container[i]) /\ IsBundle(container[i])
        /\ body' = container[i] /\ parts' = BundleParts(container[i])
    BY <1>0, <1>1 DEF OpenBundle, CensusTypeOK
  <2>2. Tiles(parts', body')
    BY <2>1, BundleTiles
  <2> QED BY <2>2 DEF Tiles
<1>2. CASE CountArchive
  <2>1. IsBuffer(container[i])
    BY <1>0, <1>2 DEF CountArchive, CensusTypeOK
  <2>2. /\ IsBuffer(Unpack(container[i])) /\ IsArchive(Unpack(container[i]))
        /\ body' = Unpack(container[i]) /\ parts' = ArchiveParts(body')
    BY <1>2, <2>1, UnpackIsBuffer DEF CountArchive, Opens
  <2>3. Tiles(parts', body')
    BY <2>2, ArchiveTiles
  <2> QED BY <2>3 DEF Tiles
<1>3. CASE UNCHANGED <<parts, body>> /\ pc = "parts"
  BY <1>3 DEF PartsInv, Tiles
<1>4. OpenBundle \/ CountArchive \/ (UNCHANGED <<parts, body>> /\ pc = "parts")
  BY DEF Next, Codec, CensusStep, SkipMember, PassRaw, CountBlock, SkipPart, CountPart,
         PartsDone, CensusDone, BinStep, BinOther, BinBlock, CountKind, Done, vars, censusVars
<1> QED BY <1>1, <1>2, <1>3, <1>4

\* The parts of every bundle and archive the census opens tile their buffer.
THEOREM PartsAlwaysTile == Spec => []PartsTile
<1>1. BothInit => PartsInv
  BY DEF BothInit, Init, PartsInv
<1>2. PartsInv => PartsTile
  BY DEF PartsInv, PartsTile, Tiles
<1> QED BY <1>1, <1>2, TypeInit, TypeStep, PartsStep, PTL DEF Spec

LEMMA EvenStep ==
  TypeInv /\ Even(top) /\ Even(inner) /\ [Next]_vars => Even(top)' /\ Even(inner)'
<1> SUFFICES ASSUME TypeInv, Even(top), Even(inner), [Next]_vars
             PROVE  Even(top)' /\ Even(inner)'
  OBVIOUS
<1>0. /\ CensusTypeOK /\ \A a \in 1 .. Len(container) : IsBuffer(container[a])
      /\ i \in Nat /\ j \in Nat /\ Len(container) \in Nat /\ Len(parts) \in Nat
  <2>1. CensusTypeOK /\ container \in Seq(Buffers)
        /\ \A a \in 1 .. Len(container) : IsBuffer(container[a])
    BY MembersAreBuffers DEF TypeInv, TypeOK
  <2>2. Len(container) \in Nat
    BY <2>1
  <2>3. parts \in Seq([off : Nat, size : Nat]) /\ i \in 1 .. Len(container) + 1
        /\ j \in 1 .. Len(parts) + 1
    BY <2>1 DEF CensusTypeOK
  <2>4. Len(parts) \in Nat
    BY <2>3
  <2> QED BY <2>1, <2>2, <2>3, <2>4
<1>1. CASE CountBlock \/ CountArchive
  <2>1. /\ IsBuffer(container[i]) /\ top \in Tallies
        /\ IsBlock(container[i]) /\ container[i].len >= 16
        /\ top' = Add(top, container[i], <<i>>) /\ <<i>> \in Places /\ inner' = inner
    BY <1>0, <1>1 DEF CountBlock, CountArchive, CensusTypeOK, Places
  <2>2. Even(top')
    BY <2>1, AddKeepsEven
  <2> QED BY <2>1, <2>2 DEF Even
<1>2. CASE CountPart
  <2>1. /\ IsBuffer(Part(j)) /\ IsBlock(Part(j)) /\ Part(j).len >= 16 /\ inner \in Tallies
        /\ inner' = Add(inner, Part(j), <<i, j>>) /\ <<i, j>> \in Places /\ top' = top
    BY <1>0, <1>2, PartIsBuffer DEF CountPart, IsBlockPart, CensusTypeOK, Places
  <2>2. Even(inner')
    BY <2>1, AddKeepsEven
  <2> QED BY <2>1, <2>2 DEF Even
<1>3. CASE UNCHANGED <<top, inner>>
  BY <1>3 DEF Even
<1>4. CountBlock \/ CountArchive \/ CountPart \/ UNCHANGED <<top, inner>>
  BY DEF Next, Codec, CensusStep, SkipMember, PassRaw, OpenBundle, SkipPart, PartsDone,
         CensusDone, BinStep, BinOther, BinBlock, CountKind, Done, vars, censusVars
<1> QED BY <1>1, <1>2, <1>3, <1>4

\* The branches that note a block without counting it are never taken, so what
\* the report calls "N of N" is all there is, on every disc.
THEOREM NoneIsUncounted == Spec => []NoneUncounted
<1>1. BothInit => Even(top) /\ Even(inner)
  <2>1. Even(Tally)
    BY DEF Even, Tally, Known
  <2> QED BY <2>1 DEF BothInit, Init
<1>2. Even(top) /\ Even(inner) => NoneUncounted
  BY DEF Even, NoneUncounted
<1> QED BY <1>1, <1>2, TypeInit, TypeStep, EvenStep, PTL DEF Spec

-----------------------------------------------------------------------------
(* The third census                                                        *)


\* The magic is enough to keep the three populations apart, for every buffer: a
\* member that scpk.py parses is neither a block to is_block nor a bundle to
\* parse_bundle.
THEOREM ScpkIsNoOther ==
  ASSUME NEW b, IsBuffer(b), IsScpk(b)
  PROVE  ~IsBlock(b) /\ ~IsBundle(b)
<1>1. Byte(b, 0) = 83 /\ Byte(b, 1) = 67 /\ Byte(b, 2) = 80 /\ Byte(b, 3) = 75
  BY DEF IsScpk, First4, SCPK
<1>2. ~IsBlock(b)
  BY <1>1 DEF IsBlock, Method, Known
<1>3. U32(b, 0) = 83 + 256 * (67 + 256 * (80 + 256 * 75))
  BY <1>1 DEF U32
<1>4. ~(U32(b, 0) \in 2 .. MaxParts)
  BY <1>3, SMT DEF MaxParts
<1> QED BY <1>2, <1>4 DEF IsBundle

-----------------------------------------------------------------------------
(* The other two censuses, beside the third                                *)

LEMMA DiscIsSpec == DiscSpec => Spec
<1>1. DiscInit => BothInit
  BY DEF DiscInit
<1>2. [DiscNext]_allVars => [Next]_vars
  BY DEF DiscNext, DiscDone, allVars, Next
<1> QED BY <1>1, <1>2, PTL DEF DiscSpec, Spec

\* Whatever order the three tools run in, no block the codec census meets is
\* left out of its "N of N", and what it reads as parts tile what they are of.
THEOREM CensusHolds == DiscSpec => [](NoneUncounted /\ PartsTile)
BY DiscIsSpec, NoneIsUncounted, PartsAlwaysTile, PTL

-----------------------------------------------------------------------------
(* The verdicts                                                            *)

Verdicts ==
  /\ comp \in Nat /\ exact \in Nat /\ mismatch \in Nat
  /\ comp = exact + mismatch

LEMMA VerdictsStep == Verdicts /\ [DiscNext]_allVars => Verdicts'
<1> SUFFICES ASSUME Verdicts, [DiscNext]_allVars PROVE Verdicts'
  OBVIOUS
<1>1. CASE BlockMember
  <2>1. /\ comp' = comp + 1
        /\ \/ exact' = exact + 1 /\ mismatch' = mismatch
           \/ exact' = exact /\ mismatch' = mismatch + 1
    BY <1>1 DEF BlockMember
  <2> QED BY <2>1 DEF Verdicts
<1>2. CASE UNCHANGED <<comp, exact, mismatch>>
  BY <1>2 DEF Verdicts
<1>3. BlockMember \/ UNCHANGED <<comp, exact, mismatch>>
  BY DEF DiscNext, DiscDone, allVars, scpkVars, ScpkStep, PassMember, OpenScpk, EmptyMember,
         RawMember, MembersDone, ScpkDone
<1> QED BY <1>1, <1>2, <1>3

\* At every step each compressed member has had exactly one verdict: the report
\* of scpk.py, like that of codec_census.py, cannot lose a failure.
THEOREM VerdictsAddUp == DiscSpec => [](comp = exact + mismatch)
<1>1. DiscInit => Verdicts
  BY DEF DiscInit, ScpkInit, Verdicts
<1>2. Verdicts => comp = exact + mismatch
  BY DEF Verdicts
<1> QED BY <1>1, <1>2, VerdictsStep, PTL DEF DiscSpec

-----------------------------------------------------------------------------
(* After the censuses                                                      *)

\* Looking for copies and for movies and listing what bundles and archives hold
\* leaves the censuses as they were: what is proved of them holds of a disc that
\* is asked for all the reports.
THEOREM ReportsLeaveCensuses == ReportsSpec => DiscSpec
<1>1. ReportsInit => DiscInit
  BY DEF ReportsInit
<1>2. [ReportsNext]_<<allVars, reportVars>> => [DiscNext]_allVars
  BY DEF ReportsNext, ReportsDone, DiscNext, allVars
<1> QED BY <1>1, <1>2, PTL DEF ReportsSpec, DiscSpec

-----------------------------------------------------------------------------
(* The places of blocks, and what the invariants say of those passed so far  *)

\* The values a function takes on a finite set.
LEMMA ImageIsFinite ==
  ASSUME NEW f, IsFiniteSet(DOMAIN f)
  PROVE  /\ IsFiniteSet({f[x] : x \in DOMAIN f})
         /\ (\A x, y \in DOMAIN f : f[x] = f[y] => x = y) =>
              Cardinality({f[x] : x \in DOMAIN f}) = Cardinality(DOMAIN f)
<1> DEFINE S == DOMAIN f
           T == {f[x] : x \in S}
           g == [x \in S |-> f[x]]
<1>1. g \in Surjection(S, T)
  BY DEF Surjection
<1>2. IsFiniteSet(T)
  BY <1>1, FS_Surjection
<1>3. ASSUME \A x, y \in S : f[x] = f[y] => x = y
      PROVE  Cardinality(T) = Cardinality(S)
  <2>1. g \in Injection(S, T)
    BY <1>3 DEF Injection, IsInjective
  <2> QED BY <1>1, <2>1, FS_Surjection
<1> QED BY <1>2, <1>3

\* The blocks that have been passed, on their own level, by one tool and the other.
TopSeen == {p \in TopBlocks : p[1] < i \/ (p[1] = i /\ pc = "parts")}

InnerSeen ==
  {p \in InnerBlocks : p[1] < i \/ (p[1] = i /\ pc = "parts" /\ p[2] < j)}

BinSeen == {p \in TopBlocks : p[1] < k}

\* What is open is the member the census is at.
OpenInv ==
  /\ pc = "parts" => parts = PartsOf(i) /\ body = Whole(i)
  /\ pc = "reported" => i > Len(container)

\* l is the first of the largest of the blocks.
LargestOf(l, blocks) ==
  IF \E p \in blocks : Packed(At(p)) > 0
  THEN /\ l[2] \in blocks
       /\ l[1] = Packed(At(l[2]))
       /\ \A p \in blocks : Packed(At(p)) < l[1] \/ (Packed(At(p)) = l[1] /\ l[2][1] <= p[1])
  ELSE l = <<0, <<>>>>

\* The tallies are of the blocks passed so far, and so are the counts by kind.
TalliesInv == Tallied(top, TopSeen) /\ Tallied(inner, InnerSeen)

TopInv ==
  /\ top.unpacked = SumFunction([p \in TopSeen |-> Unpacked(At(p))])
  /\ LargestOf(top.largest, TopSeen)

BinInv ==
  /\ \A m \in Known :
       counts[BlockKind(m)] = Cardinality({p \in BinSeen : Method(At(p)) = m})
  /\ packedTotal = SumFunction([p \in BinSeen |-> Packed(At(p))])
  /\ unpackedTotal = SumFunction([p \in BinSeen |-> Unpacked(At(p))])
  /\ LargestOf(biggest, BinSeen)

LEMMA LensAreNat ==
  ASSUME Given
  PROVE  Len(container) \in Nat /\ \A a \in 1 .. Len(container) : IsBuffer(container[a])
<1>1. container \in Seq(Buffers)
  BY MembersAreBuffers
<1> QED BY <1>1, MembersAreBuffers

LEMMA WholeIsBuffer ==
  ASSUME Given, NEW a \in 1 .. Len(container)
  PROVE  IsBuffer(Whole(a))
<1>1. IsBuffer(container[a])
  BY LensAreNat
<1> QED BY <1>1, UnpackIsBuffer DEF Whole

LEMMA PartsOfAre ==
  ASSUME Given, NEW a \in 1 .. Len(container)
  PROVE  PartsOf(a) \in Seq([off : Nat, size : Nat]) /\ Len(PartsOf(a)) \in Nat
<1>1. IsBuffer(container[a]) /\ IsBuffer(Whole(a))
  BY LensAreNat, WholeIsBuffer
<1>2. PartsOf(a) = <<>> \/ (PartsOf(a) = ArchiveParts(Whole(a)) /\ IsArchive(Whole(a)))
      \/ (PartsOf(a) = BundleParts(container[a]) /\ IsBundle(container[a]))
  BY Zenon DEF PartsOf
<1>3. PartsOf(a) \in Seq([off : Nat, size : Nat])
  <2>1. <<>> \in Seq([off : Nat, size : Nat])
    OBVIOUS
  <2>2. CASE PartsOf(a) = ArchiveParts(Whole(a)) /\ IsArchive(Whole(a))
    BY <1>1, <2>2, ArchiveTiles, Zenon DEF Tiles
  <2>3. CASE PartsOf(a) = BundleParts(container[a]) /\ IsBundle(container[a])
    BY <1>1, <2>3, BundleTiles, Zenon DEF Tiles
  <2> QED BY <1>2, <2>1, <2>2, <2>3
<1> DEFINE R == [off : Nat, size : Nat]
<1>4. PartsOf(a) \in Seq(R)
  BY <1>3
<1> HIDE DEF R
<1>5. Len(PartsOf(a)) \in Nat
  BY <1>4
<1> QED BY <1>3, <1>5

\* A place with one number is a member, with two a part of it.
LEMMA AtMember == ASSUME NEW a PROVE At(<<a>>) = container[a]
<1>1. Len(<<a>>) = 1 /\ <<a>>[1] = a
  OBVIOUS
<1> QED BY <1>1 DEF At

LEMMA AtPart ==
  ASSUME NEW a, NEW q
  PROVE  At(<<a, q>>) = Slice(Whole(a), PartsOf(a)[q].off, PartsOf(a)[q].size)
<1>1. Len(<<a, q>>) # 1 /\ <<a, q>>[1] = a /\ <<a, q>>[2] = q
  OBVIOUS
<1> QED BY <1>1, Zenon DEF At

LEMMA TopPlaces ==
  ASSUME Given
  PROVE  /\ IsFiniteSet(TopBlocks)
         /\ \A p : p \in TopBlocks <=>
              \E a \in 1 .. Len(container) : p = <<a>> /\ IsBlockPart(container[a])
         /\ \A p \in TopBlocks : IsBuffer(At(p)) /\ p[1] \in 1 .. Len(container) /\ p = <<p[1]>>
<1> DEFINE D == 1 .. Len(container)
           P == {<<a>> : a \in D}
<1>1. IsFiniteSet(D) /\ IsFiniteSet(P)
  <2>1. IsFiniteSet(D)
    BY LensAreNat, FS_Interval
  <2> DEFINE f == [a \in D |-> <<a>>]
  <2>2. DOMAIN f = D /\ P = {f[a] : a \in DOMAIN f}
    OBVIOUS
  <2> HIDE DEF D, P, f
  <2> QED BY <2>1, <2>2, ImageIsFinite
<1>2. TopBlocks \in SUBSET P
  BY DEF TopBlocks
<1>3. IsFiniteSet(TopBlocks)
  BY <1>1, <1>2, FS_Subset
<1>4. \A a \in D : At(<<a>>) = container[a] /\ <<a>>[1] = a
  BY AtMember
<1>5. \A p : p \in TopBlocks <=> \E a \in D : p = <<a>> /\ IsBlockPart(container[a])
  BY <1>4 DEF TopBlocks
<1>6. ASSUME NEW p \in TopBlocks PROVE IsBuffer(At(p)) /\ p[1] \in D /\ p = <<p[1]>>
  <2>1. PICK a \in D : p = <<a>>
    BY <1>5
  <2> QED BY <1>4, <2>1, LensAreNat
<1> QED BY <1>3, <1>5, <1>6

LEMMA InnerPlaces ==
  ASSUME Given
  PROVE  /\ IsFiniteSet(InnerBlocks)
         /\ \A p : p \in InnerBlocks <=>
              \E a \in 1 .. Len(container) : \E q \in 1 .. Len(PartsOf(a)) :
                p = <<a, q>> /\ IsBlockPart(At(p))
         /\ \A p \in InnerBlocks : /\ IsBuffer(At(p)) /\ p = <<p[1], p[2]>>
                                   /\ p[1] \in 1 .. Len(container)
                                   /\ p[2] \in 1 .. Len(PartsOf(p[1]))
<1> DEFINE D == 1 .. Len(container)
           Q(a) == {<<a, q>> : q \in 1 .. Len(PartsOf(a))}
           P == UNION {Q(a) : a \in D}
<1>1. IsFiniteSet(P)
  <2>1. IsFiniteSet(D)
    BY LensAreNat, FS_Interval
  <2>2. ASSUME NEW a \in D PROVE IsFiniteSet(Q(a))
    <3> DEFINE E == 1 .. Len(PartsOf(a))
    <3>1. IsFiniteSet(E)
      BY PartsOfAre, FS_Interval
    <3> DEFINE f == [q \in E |-> <<a, q>>]
    <3>2. DOMAIN f = E /\ Q(a) = {f[q] : q \in DOMAIN f}
      OBVIOUS
    <3> HIDE DEF E, Q, f
    <3> QED BY <3>1, <3>2, ImageIsFinite
  <2> DEFINE f == [a \in D |-> Q(a)]
  <2> HIDE DEF D, Q
  <2>3. DOMAIN f = D /\ {Q(a) : a \in D} = {f[a] : a \in DOMAIN f}
    OBVIOUS
  <2> HIDE DEF f
  <2>4. IsFiniteSet({Q(a) : a \in D})
    BY <2>1, <2>3, ImageIsFinite
  <2> QED BY <2>2, <2>4, FS_UNION
<1>2. InnerBlocks \in SUBSET P
  BY DEF InnerBlocks
<1>3. IsFiniteSet(InnerBlocks)
  BY <1>1, <1>2, FS_Subset
<1>4. \A p : p \in InnerBlocks <=>
        \E a \in D : \E q \in 1 .. Len(PartsOf(a)) : p = <<a, q>> /\ IsBlockPart(At(p))
  BY DEF InnerBlocks
<1>5. ASSUME NEW p \in InnerBlocks
      PROVE  /\ IsBuffer(At(p)) /\ p = <<p[1], p[2]>>
             /\ p[1] \in D /\ p[2] \in 1 .. Len(PartsOf(p[1]))
  <2>0. PICK a \in D : \E q \in 1 .. Len(PartsOf(a)) : p = <<a, q>>
    BY <1>4
  <2>1. PICK q \in 1 .. Len(PartsOf(a)) : p = <<a, q>>
    BY <2>0
  <2>2. p[1] = a /\ p[2] = q
    BY <2>1
  <2>3. PartsOf(a)[q].off \in Nat /\ PartsOf(a)[q].size \in Nat
    <3> DEFINE R == [off : Nat, size : Nat]
    <3>1. PartsOf(a) \in Seq(R)
      BY PartsOfAre
    <3> HIDE DEF R
    <3>2. PartsOf(a)[q] \in R
      BY <3>1
    <3> QED BY <3>2 DEF R
  <2>4. IsBuffer(At(p))
    BY <2>1, <2>3, AtPart, WholeIsBuffer, SliceIsBuffer
  <2> QED BY <2>1, <2>2, <2>4
<1> QED BY <1>3, <1>4, <1>5

-----------------------------------------------------------------------------
(* Every block is counted                                                  *)

\* Over more blocks, sums of what their headers say are larger by what the new one says.
LEMMA HeadersGrow ==
  ASSUME NEW B, IsFiniteSet(B), NEW w, w \notin B,
         \A p \in B \cup {w} : IsBuffer(At(p))
  PROVE  /\ SumFunction([p \in B \cup {w} |-> Packed(At(p))])
              = SumFunction([p \in B |-> Packed(At(p))]) + Packed(At(w))
         /\ SumFunction([p \in B \cup {w} |-> Unpacked(At(p))])
              = SumFunction([p \in B |-> Unpacked(At(p))]) + Unpacked(At(w))
<1>1. \A p \in B \cup {w} : Packed(At(p)) \in Nat /\ Unpacked(At(p)) \in Nat
  BY SizesAreNat
<1>2. SumFunction([p \in B \cup {w} |-> Packed(At(p))])
        = SumFunction([p \in B |-> Packed(At(p))]) + Packed(At(w))
  <2> DEFINE f == [p \in B |-> Packed(At(p))]
             g == [p \in B \cup {w} |-> Packed(At(p))]
  <2>1. /\ DOMAIN f = B /\ DOMAIN g = B \cup {w} /\ g[w] = Packed(At(w)) /\ g[w] \in Nat
        /\ \A y \in B : g[y] = f[y] /\ f[y] \in Nat
    BY <1>1
  <2> HIDE DEF f, g
  <2>2. SumFunction(g) = SumFunction(f) + g[w]
    BY <2>1, SumGrows
  <2> QED BY <2>1, <2>2 DEF f, g
<1>3. SumFunction([p \in B \cup {w} |-> Unpacked(At(p))])
        = SumFunction([p \in B |-> Unpacked(At(p))]) + Unpacked(At(w))
  <2> DEFINE f == [p \in B |-> Unpacked(At(p))]
             g == [p \in B \cup {w} |-> Unpacked(At(p))]
  <2>1. /\ DOMAIN f = B /\ DOMAIN g = B \cup {w} /\ g[w] = Unpacked(At(w)) /\ g[w] \in Nat
        /\ \A y \in B : g[y] = f[y] /\ f[y] \in Nat
    BY <1>1
  <2> HIDE DEF f, g
  <2>2. SumFunction(g) = SumFunction(f) + g[w]
    BY <2>1, SumGrows
  <2> QED BY <2>1, <2>2 DEF f, g
<1> QED BY <1>2, <1>3

\* Tally.add counts the block it is given, and that block once.
LEMMA TalliedAdd ==
  ASSUME NEW t \in Tallies, NEW B, IsFiniteSet(B), NEW w, w \notin B, w \in Places,
         \A p \in B \cup {w} : IsBuffer(At(p)), IsBlockPart(At(w)), Tallied(t, B)
  PROVE  Tallied(Add(t, At(w), w), B \cup {w})
<1> DEFINE b == At(w)
           C == B \cup {w}
           n == Add(t, b, w)
           good(p) == Unpack(At(p)).len = Unpacked(At(p))
<1>1. IsBuffer(b) /\ b.len \in Nat /\ IsBlock(b) /\ ~Raises(b) /\ Method(b) \in Known
  BY SMT DEF IsBlockPart, IsBlock, IsBuffer, Raises
<1>2. /\ n.methods = [t.methods EXCEPT ![Method(b)] = @ + 1]
      /\ n.packed = t.packed + Packed(b)
      /\ n.bad = IF good(w) THEN t.bad ELSE Append(t.bad, w)
  <2> HIDE DEF b
  <2> QED BY <1>1 DEF Add, b
<1>3. t.methods \in [Known -> Nat] /\ t.bad \in Seq(Places)
  BY DEF Tallies
<1>4. ASSUME NEW m \in Known
      PROVE  n.methods[m] = Cardinality({p \in C : Method(At(p)) = m})
  <2> DEFINE f == [p \in C |-> Method(At(p)) = m]
             S == {p \in B : Method(At(p)) = m}
             T == {p \in C : Method(At(p)) = m}
  <2>1. S = {p \in B : f[p]} /\ T = {p \in C : f[p]} /\ (f[w] <=> Method(b) = m)
    OBVIOUS
  <2>2. t.methods[m] = Cardinality(S) /\ t.methods[m] \in Nat
    BY <1>3 DEF Tallied
  <2> HIDE DEF f, S, T, n
  <2>3. CASE Method(b) = m
    <3>0. T = S \cup {w} /\ w \notin S /\ S \in SUBSET B
      BY <2>1, <2>3
    <3>1. Cardinality(T) = Cardinality(S) + 1
      <4>1. IsFiniteSet(S)
        BY <3>0, FS_Subset
      <4> QED BY <3>0, <4>1, FS_AddElement
    <3>2. n.methods[m] = t.methods[m] + 1
      BY <1>2, <1>3, <2>3
    <3> QED BY <2>2, <3>1, <3>2 DEF T
  <2>4. CASE Method(b) # m
    <3>1. T = S
      BY <2>1, <2>4
    <3>2. n.methods[m] = t.methods[m]
      BY <1>1, <1>2, <1>3, <2>4
    <3> QED BY <2>2, <3>1, <3>2 DEF T
  <2> QED BY <2>3, <2>4
<1>5. ToSet(n.bad) = {p \in C : ~good(p)} /\ Len(n.bad) = Cardinality(ToSet(n.bad))
  <2> DEFINE S == {p \in B : ~good(p)}
             T == {p \in C : ~good(p)}
  <2>1. ToSet(t.bad) = S /\ Len(t.bad) = Cardinality(S) /\ Len(t.bad) \in Nat
    BY <1>3 DEF Tallied
  <2>2. CASE good(w)
    <3>1. T = S /\ n.bad = t.bad
      BY <1>2, <2>2
    <3> QED BY <2>1, <3>1, Zenon
  <2>3. CASE ~good(w)
    <3>1. T = S \cup {w} /\ w \notin S
      BY <2>3
    <3>2. n.bad = Append(t.bad, w)
      BY <1>2, <2>3
    <3> HIDE DEF good, S, T, n
    <3>3. ToSet(n.bad) = ToSet(t.bad) \cup {w} /\ Len(n.bad) = Len(t.bad) + 1
      <4>1. /\ DOMAIN t.bad = 1 .. Len(t.bad) /\ Len(n.bad) = Len(t.bad) + 1
            /\ DOMAIN n.bad = 1 .. Len(t.bad) + 1 /\ n.bad[Len(t.bad) + 1] = w
            /\ \A q \in 1 .. Len(t.bad) : n.bad[q] = t.bad[q]
        BY <1>3, <3>2
      <4>2. DOMAIN n.bad = DOMAIN t.bad \cup {Len(t.bad) + 1}
        BY <2>1, <4>1
      <4> QED BY <4>1, <4>2 DEF ToSet
    <3>4. IsFiniteSet(S)
      BY FS_Subset DEF S
    <3>5. Cardinality(T) = Cardinality(S) + 1
      BY <3>1, <3>4, FS_AddElement
    <3>6. ToSet(n.bad) = T
      BY <2>1, <3>1, <3>3, Zenon
    <3> QED BY <2>1, <3>3, <3>5, <3>6 DEF T
  <2> QED BY <2>2, <2>3
<1>6. n.packed = SumFunction([p \in C |-> Packed(At(p))])
  <2>1. t.packed = SumFunction([p \in B |-> Packed(At(p))])
    BY Zenon DEF Tallied
  <2> DEFINE more == SumFunction([p \in C |-> Packed(At(p))])
             less == SumFunction([p \in B |-> Packed(At(p))])
  <2>2. more = less + Packed(b)
    BY HeadersGrow
  <2> HIDE DEF n, more, less
  <2>3. n.packed = more
    BY <1>2, <2>1, <2>2 DEF less
  <2> QED BY <2>3 DEF more
<1> HIDE DEF n, C, b
<1>7. Tallied(n, C)
  BY <1>4, <1>5, <1>6, Zenon DEF Tallied
<1> QED BY <1>7 DEF n, C, b

\* The first of the largest blocks stays the first of them, or is the new one.
LEMMA LargestAdd ==
  ASSUME NEW B, NEW l, LargestOf(l, B), NEW w, w[1] \in Nat, IsBuffer(At(w)),
         \A p \in B : IsBuffer(At(p)) /\ p[1] \in Nat /\ p[1] < w[1],
         NEW n, n = IF Packed(At(w)) > l[1] THEN <<Packed(At(w)), w>> ELSE l
  PROVE  LargestOf(n, B \cup {w})
<1> DEFINE v(p) == Packed(At(p))
           C == B \cup {w}
<1>1. \A p \in C : v(p) \in Nat
  BY SizesAreNat
<1>2. \A p \in B : p[1] \in Nat /\ p[1] < w[1]
  OBVIOUS
<1>3. n = IF v(w) > l[1] THEN <<v(w), w>> ELSE l
  OBVIOUS
<1>4. IF \E p \in B : v(p) > 0
      THEN /\ l[2] \in B
           /\ l[1] = v(l[2])
           /\ \A p \in B : v(p) < l[1] \/ (v(p) = l[1] /\ l[2][1] <= p[1])
      ELSE l = <<0, <<>>>>
  BY Zenon DEF LargestOf
<1>5. w \in C /\ B \subseteq C /\ \A p \in C : p \in B \/ p = w
  OBVIOUS
<1> HIDE DEF v, C
<1>6. CASE \E p \in B : v(p) > 0
  <2>1. /\ l[2] \in B /\ l[1] = v(l[2])
        /\ \A p \in B : v(p) < l[1] \/ (v(p) = l[1] /\ l[2][1] <= p[1])
    BY <1>4, <1>6, Zenon
  <2>2. \E p \in C : v(p) > 0
    BY <1>5, <1>6
  <2>3. l[1] \in Nat
    BY <1>1, <1>5, <2>1
  <2>4. n[2] \in C /\ n[1] = v(n[2])
    BY <1>3, <1>5, <2>1
  <2>5. ASSUME NEW p \in C PROVE v(p) < n[1] \/ (v(p) = n[1] /\ n[2][1] <= p[1])
    <3>1. v(p) \in Nat /\ v(w) \in Nat /\ w[1] \in Nat
      BY <1>1, <1>5
    <3>2. CASE v(w) > l[1]
      <4>1. n[1] = v(w) /\ n[2] = w
        BY <1>3, <3>2
      <4> QED BY <1>5, <2>1, <2>3, <3>1, <3>2, <4>1
    <3>3. CASE ~(v(w) > l[1])
      <4>1. n = l
        BY <1>3, <3>3
      <4>2. l[2][1] \in Nat /\ l[2][1] < w[1]
        BY <1>2, <2>1
      <4>3. CASE p \in B
        BY <2>1, <4>1, <4>3
      <4>4. CASE p = w
        <5>1. v(w) < l[1] \/ v(w) = l[1]
          BY <2>3, <3>1, <3>3
        <5>2. l[2][1] <= w[1]
          BY <3>1, <4>2
        <5> QED BY <4>1, <4>4, <5>1, <5>2
      <4> QED BY <1>5, <4>3, <4>4
    <3> QED BY <3>2, <3>3
  <2> QED BY <2>2, <2>4, <2>5 DEF LargestOf, v, C
<1>7. CASE ~ \E p \in B : v(p) > 0
  <2>1. l = <<0, <<>>>> /\ l[1] = 0
    BY <1>4, <1>7
  <2>2. \A p \in B : v(p) = 0
    BY <1>1, <1>5, <1>7
  <2>3. v(w) \in Nat /\ w[1] \in Nat
    BY <1>1, <1>5
  <2>4. CASE v(w) > 0
    <3>1. n[1] = v(w) /\ n[2] = w
      BY <1>3, <2>1, <2>4
    <3>2. \E p \in C : v(p) > 0
      BY <1>5, <2>4
    <3>3. \A p \in C : v(p) < n[1] \/ (v(p) = n[1] /\ n[2][1] <= p[1])
      BY <1>5, <2>2, <2>3, <2>4, <3>1
    <3> QED BY <1>5, <3>1, <3>2, <3>3 DEF LargestOf, v, C
  <2>5. CASE ~(v(w) > 0)
    <3>1. n = <<0, <<>>>> /\ ~ \E p \in C : v(p) > 0
      BY <1>3, <1>5, <1>7, <2>1, <2>5
    <3> QED BY <3>1 DEF LargestOf, v, C
  <2> QED BY <2>4, <2>5
<1> QED BY <1>6, <1>7

\* There is only one.
LEMMA LargestIsOne ==
  ASSUME NEW B, NEW l \in Nat \X Places, NEW n \in Nat \X Places,
         LargestOf(l, B), LargestOf(n, B),
         \A p \in B : IsBuffer(At(p)) /\ p[1] \in Nat /\ p = <<p[1]>>
  PROVE  l = n
<1> DEFINE v(p) == Packed(At(p))
<1>1. \A p \in B : v(p) \in Nat
  BY SizesAreNat
<1>2. CASE \E p \in B : v(p) > 0
  <2>1. /\ l[2] \in B /\ l[1] = v(l[2])
        /\ \A p \in B : v(p) < l[1] \/ (v(p) = l[1] /\ l[2][1] <= p[1])
        /\ n[2] \in B /\ n[1] = v(n[2])
        /\ \A p \in B : v(p) < n[1] \/ (v(p) = n[1] /\ n[2][1] <= p[1])
    BY <1>2, Zenon DEF LargestOf
  <2> HIDE DEF v
  <2>2. l[1] \in Nat /\ n[1] \in Nat /\ l[2][1] \in Nat /\ n[2][1] \in Nat
    BY <1>1, <2>1
  <2>3. l[1] = n[1] /\ l[2][1] = n[2][1]
    BY <2>1, <2>2
  <2>4. l[2] = <<l[2][1]>> /\ n[2] = <<n[2][1]>>
    BY <2>1
  <2>5. l[2] = n[2]
    BY <2>3, <2>4, Zenon
  <2> QED BY <2>3, <2>5
<1>3. CASE ~ \E p \in B : v(p) > 0
  BY <1>3, Zenon DEF LargestOf
<1> QED BY <1>2, <1>3

-----------------------------------------------------------------------------
(* What does not move                                                      *)

LEMMA PlacesStay ==
  ASSUME container' = container, nested' = nested
  PROVE  /\ \A x : At(x)' = At(x) /\ Whole(x)' = Whole(x) /\ PartsOf(x)' = PartsOf(x)
         /\ TopBlocks' = TopBlocks /\ InnerBlocks' = InnerBlocks
<1>1. \A x : Whole(x)' = Whole(x)
  BY DEF Whole, Unpack
<1>2. \A x : PartsOf(x)' = PartsOf(x)
  BY <1>1, Zenon DEF PartsOf
<1>3. \A x : At(x)' = At(x)
  BY <1>1, <1>2, Zenon DEF At
<1>4. TopBlocks' = TopBlocks
  BY <1>3, Zenon DEF TopBlocks
<1>5. InnerBlocks' = InnerBlocks
  <2> DEFINE D == 1 .. Len(container)
             Q(x) == {<<x, q>> : q \in 1 .. Len(PartsOf(x))}
  <2>1. \A x : Q(x)' = Q(x)
    BY <1>2
  <2>2. D' = D
    OBVIOUS
  <2>3. InnerBlocks = {p \in UNION {Q(x) : x \in D} : IsBlockPart(At(p))}
    BY DEF InnerBlocks
  <2>4. InnerBlocks' = {p \in UNION {Q(x)' : x \in D'} : IsBlockPart(At(p)')}
    BY DEF InnerBlocks
  <2> HIDE DEF Q, D
  <2>5. UNION {Q(x)' : x \in D'} = UNION {Q(x) : x \in D}
    BY <2>1, <2>2
  <2> QED BY <1>3, <2>3, <2>4, <2>5
<1> QED BY <1>1, <1>2, <1>3, <1>4, <1>5

LEMMA TallyStays ==
  ASSUME container' = container, nested' = nested, NEW t, NEW B
  PROVE  /\ Tallied(t, B) => Tallied(t, B)'
         /\ LargestOf(t, B) => LargestOf(t, B)'
         /\ SumFunction([p \in B |-> Packed(At(p))])' = SumFunction([p \in B |-> Packed(At(p))])
         /\ SumFunction([p \in B |-> Unpacked(At(p))])' = SumFunction([p \in B |-> Unpacked(At(p))])
<1>1. \A x : At(x)' = At(x)
  BY PlacesStay
<1>2. SumFunction([p \in B |-> Packed(At(p))])' = SumFunction([p \in B |-> Packed(At(p))])
  BY <1>1, Zenon
<1>3. SumFunction([p \in B |-> Unpacked(At(p))])' = SumFunction([p \in B |-> Unpacked(At(p))])
  BY <1>1, Zenon
<1>4. LargestOf(t, B) => LargestOf(t, B)'
  BY <1>1 DEF LargestOf
<1>5. Tallied(t, B) => Tallied(t, B)'
  BY <1>1, <1>2, Zenon DEF Tallied
<1> QED BY <1>2, <1>3, <1>4, <1>5

\* What has been added to a tally is what has been passed on its level.
Counts(t, S, next, T, P) ==
  \/ next = t /\ T = S
  \/ \E p \in P \ S : next = Add(t, At(p), p) /\ T = S \cup {p} /\ p \in Places
                      /\ \A s \in S : s[1] < p[1] \/ Len(p) = 2

LEMMA SeenStep ==
  ASSUME TypeInv, OpenInv, CensusStep, UNCHANGED <<container, nested>>
  PROVE  /\ OpenInv'
         /\ Counts(top, TopSeen, top', TopSeen', TopBlocks)
         /\ Counts(inner, InnerSeen, inner', InnerSeen', InnerBlocks)
<1> DEFINE N == Len(container)
<1>1. /\ N \in Nat /\ \A a \in 1 .. N : IsBuffer(container[a])
      /\ Given /\ CensusTypeOK
  BY LensAreNat DEF TypeInv, TypeOK
<1>2. /\ i \in 1 .. N + 1 /\ i \in Nat /\ j \in 1 .. Len(parts) + 1 /\ j \in Nat
      /\ Len(parts) \in Nat
  <2>1. i \in 1 .. N + 1 /\ j \in 1 .. Len(parts) + 1 /\ parts \in Seq([off : Nat, size : Nat])
    BY <1>1 DEF CensusTypeOK
  <2>2. Len(parts) \in Nat
    BY <2>1
  <2> QED BY <1>1, <2>1, <2>2
<1>3. \A p \in TopBlocks : p[1] \in 1 .. N /\ p = <<p[1]>>
  BY <1>1, TopPlaces
<1>4. \A p \in InnerBlocks : p[1] \in 1 .. N /\ p[2] \in 1 .. Len(PartsOf(p[1])) /\ p = <<p[1], p[2]>>
  BY <1>1, InnerPlaces
<1>5. TopSeen' = {p \in TopBlocks : p[1] < i' \/ (p[1] = i' /\ pc' = "parts")}
  BY PlacesStay DEF TopSeen
<1>6. InnerSeen' = {p \in InnerBlocks : p[1] < i' \/ (p[1] = i' /\ pc' = "parts" /\ p[2] < j')}
  BY PlacesStay DEF InnerSeen
<1>7. \A a \in 1 .. N : <<a>> \in TopBlocks <=> IsBlockPart(container[a])
  BY <1>1, TopPlaces
<1>8. \A a \in 1 .. N : IsBlockPart(container[a]) <=> container[a].len >= 16 /\ IsBlock(container[a])
  BY DEF IsBlockPart
<1>9. \A a : Whole(a)' = Whole(a) /\ PartsOf(a)' = PartsOf(a)
  BY PlacesStay
<1>10. OpenInv' <=> /\ pc' = "parts" => parts' = PartsOf(i') /\ body' = Whole(i')
                    /\ pc' = "reported" => i' > N
  <2>1. PartsOf(i)' = PartsOf(i') /\ Whole(i)' = Whole(i')
    BY DEF PartsOf, Whole
  <2> QED BY <2>1 DEF OpenInv
<1> HIDE DEF N
<1>11. CASE SkipMember \/ PassRaw
  <2>1. /\ i \in 1 .. N /\ i' = i + 1 /\ pc = "members" /\ pc' = pc /\ top' = top /\ inner' = inner
    BY <1>1, <1>2, <1>11 DEF SkipMember, PassRaw, N
  <2>2. ~IsBlockPart(container[i]) /\ PartsOf(i) = <<>>
    <3>1. container[i].len \in Nat
      BY <1>1, <2>1 DEF IsBuffer
    <3>2. CASE SkipMember
      <4>1. container[i].len < 16 /\ ~(container[i].len >= 16)
        BY <3>1, <3>2 DEF SkipMember
      <4> QED BY <4>1 DEF PartsOf, IsBlockPart
    <3>3. CASE PassRaw
      <4>1. ~IsBlock(container[i]) /\ (nested => ~IsBundle(container[i]))
        BY <3>3, Zenon DEF PassRaw
      <4> QED BY <4>1, Zenon DEF PartsOf, IsBlockPart
    <3> QED BY <1>11, <3>2, <3>3
  <2>3. TopSeen' = TopSeen
    <3>1. \A p \in TopBlocks : p[1] # i
      BY <1>3, <1>7, <2>1, <2>2
    <3> QED BY <1>2, <1>3, <1>5, <2>1, <3>1 DEF TopSeen
  <2>4. InnerSeen' = InnerSeen
    <3>1. Len(<<>>) = 0
      OBVIOUS
    <3>2. \A p \in InnerBlocks : p[1] # i
      BY <1>4, <2>2, <3>1
    <3> QED BY <1>2, <1>4, <1>6, <2>1, <3>2 DEF InnerSeen
  <2> QED BY <1>10, <2>1, <2>3, <2>4 DEF Counts
<1>12. CASE OpenBundle
  <2>1. /\ i \in 1 .. N /\ i' = i /\ pc = "members" /\ pc' = "parts" /\ top' = top /\ inner' = inner
        /\ j' = 1 /\ ~IsBlock(container[i]) /\ nested /\ IsBundle(container[i])
        /\ container[i].len >= 16 /\ body' = container[i] /\ parts' = BundleParts(container[i])
    BY <1>1, <1>2, <1>12 DEF OpenBundle, N
  <2>2. ~IsBlockPart(container[i]) /\ PartsOf(i) = parts' /\ Whole(i) = body'
    <3>1. ~(container[i].len < 16)
      BY <1>1, <2>1 DEF IsBuffer
    <3> QED BY <2>1, <3>1, Zenon DEF PartsOf, Whole, IsBlockPart
  <2>3. TopSeen' = TopSeen
    <3>1. \A p \in TopBlocks : p[1] # i
      BY <1>3, <1>7, <2>1, <2>2
    <3> QED BY <1>2, <1>3, <1>5, <2>1, <3>1 DEF TopSeen
  <2>4. InnerSeen' = InnerSeen
    <3>1. \A p \in InnerBlocks : ~(p[2] < 1)
      BY <1>4
    <3> QED BY <1>6, <2>1, <3>1 DEF InnerSeen
  <2> QED BY <1>10, <2>1, <2>2, <2>3, <2>4 DEF Counts
<1>13. CASE CountBlock \/ CountArchive
  <2>1. /\ i \in 1 .. N /\ pc = "members" /\ inner' = inner /\ container[i].len >= 16
        /\ IsBlock(container[i]) /\ top' = Add(top, container[i], <<i>>)
    BY <1>1, <1>2, <1>13 DEF CountBlock, CountArchive, N
  <2>2. <<i>> \in TopBlocks /\ At(<<i>>) = container[i] /\ <<i>>[1] = i
    BY <1>7, <1>8, <2>1, AtMember
  <2>3. <<i>> \notin TopSeen /\ \A s \in TopSeen : s[1] < i
    BY <1>2, <1>3, <2>1, <2>2 DEF TopSeen
  <2>4. ~Raises(container[i]) /\ ~(container[i].len < 16)
    <3>1. container[i].len \in Nat
      BY <1>1, <2>1 DEF IsBuffer
    <3> QED BY <2>1, <3>1 DEF Raises, IsBlock
  <2>5. CASE CountBlock
    <3>1. i' = i + 1 /\ pc' = "members" /\ (nested => ~IsArchive(Unpack(container[i])))
      BY <2>1, <2>4, <2>5 DEF CountBlock, Opens
    <3>2. PartsOf(i) = <<>> /\ Len(<<>>) = 0
      <4>1. PartsOf(i) = <<>>
        BY <2>1, <2>4, <3>1, Zenon DEF PartsOf, Whole
      <4> QED BY <4>1
    <3>3. TopSeen' = TopSeen \cup {<<i>>}
      <4>1. \A p \in TopBlocks : p[1] = i => p = <<i>>
        BY <1>3
      <4>2. \A p \in TopBlocks : p[1] < i + 1 <=> p[1] < i \/ p[1] = i
        BY <1>2, <1>3
      <4>3. TopSeen' = {p \in TopBlocks : p[1] < i + 1}
        BY <1>5, <3>1
      <4>4. TopSeen = {p \in TopBlocks : p[1] < i}
        BY <2>1 DEF TopSeen
      <4> QED BY <2>2, <4>1, <4>2, <4>3, <4>4
    <3>4. InnerSeen' = InnerSeen
      <4>1. \A p \in InnerBlocks : p[1] # i
        BY <1>4, <3>2
      <4> QED BY <1>2, <1>4, <1>6, <2>1, <3>1, <4>1 DEF InnerSeen
    <3>5. <<i>> \in Places
      BY <1>2 DEF Places
    <3> QED BY <1>10, <2>1, <2>2, <2>3, <3>1, <3>3, <3>4, <3>5 DEF Counts
  <2>6. CASE CountArchive
    <3>1. /\ i' = i /\ pc' = "parts" /\ j' = 1 /\ nested /\ IsArchive(Unpack(container[i]))
          /\ body' = Unpack(container[i]) /\ parts' = ArchiveParts(body')
      BY <2>6 DEF CountArchive, Opens
    <3>2. PartsOf(i) = parts' /\ Whole(i) = body'
      BY <2>1, <2>4, <3>1, Zenon DEF PartsOf, Whole
    <3>3. TopSeen' = TopSeen \cup {<<i>>}
      <4>1. \A p \in TopBlocks : p[1] = i => p = <<i>>
        BY <1>3
      <4>3. TopSeen' = {p \in TopBlocks : p[1] < i \/ p[1] = i}
        BY <1>5, <3>1
      <4>4. TopSeen = {p \in TopBlocks : p[1] < i}
        BY <2>1 DEF TopSeen
      <4> QED BY <2>2, <4>1, <4>3, <4>4
    <3>4. InnerSeen' = InnerSeen
      <4>1. \A p \in InnerBlocks : ~(p[2] < 1)
        BY <1>4
      <4> QED BY <1>6, <2>1, <3>1, <4>1 DEF InnerSeen
    <3>5. <<i>> \in Places
      BY <1>2 DEF Places
    <3> QED BY <1>10, <2>1, <2>2, <2>3, <3>1, <3>2, <3>3, <3>4, <3>5 DEF Counts
  <2> QED BY <1>13, <2>5, <2>6
<1>14. CASE SkipPart \/ CountPart
  <2>1. /\ pc = "parts" /\ pc' = pc /\ i' = i /\ j <= Len(parts) /\ j' = j + 1 /\ top' = top
        /\ parts' = parts /\ body' = body
    BY <1>14 DEF SkipPart, CountPart
  <2>2. parts = PartsOf(i) /\ body = Whole(i) /\ i \in 1 .. N /\ j \in 1 .. Len(PartsOf(i))
    BY <1>1, <1>2, <2>1 DEF OpenInv, CensusTypeOK, N
  <2>3. At(<<i, j>>) = Part(j) /\ <<i, j>>[1] = i /\ <<i, j>>[2] = j /\ Len(<<i, j>>) = 2
    BY <2>2, AtPart DEF Part
  <2>4. TopSeen' = TopSeen
    BY <1>5, <2>1 DEF TopSeen
  <2>5. <<i, j>> \in InnerBlocks <=> IsBlockPart(Part(j))
    <3>1. \A p : p \in InnerBlocks <=>
            \E a \in 1 .. N : \E q \in 1 .. Len(PartsOf(a)) : p = <<a, q>> /\ IsBlockPart(At(p))
      BY <1>1, InnerPlaces DEF N
    <3> QED BY <2>2, <2>3, <3>1
  <2>6. \A p \in InnerBlocks : p[1] = i /\ p[2] = j => p = <<i, j>>
    BY <1>4
  <2>7. \A p \in InnerBlocks : p[2] \in Nat
    BY <1>4
  <2>8. InnerSeen' = {p \in InnerBlocks : p[1] < i \/ (p[1] = i /\ p[2] < j + 1)}
    BY <1>6, <2>1
  <2>9. InnerSeen = {p \in InnerBlocks : p[1] < i \/ (p[1] = i /\ p[2] < j)}
    BY <2>1 DEF InnerSeen
  <2>10. \A p \in InnerBlocks : p[2] < j + 1 <=> p[2] < j \/ p[2] = j
    BY <1>2, <2>7
  <2>11. OpenInv'
    BY <1>10, <2>1, <2>2
  <2>12. CASE SkipPart
    <3>1. <<i, j>> \notin InnerBlocks /\ inner' = inner
      BY <2>5, <2>12 DEF SkipPart
    <3>2. InnerSeen' = InnerSeen
      BY <2>6, <2>8, <2>9, <2>10, <3>1
    <3> QED BY <2>1, <2>4, <2>11, <3>1, <3>2 DEF Counts
  <2>13. CASE CountPart
    <3>1. <<i, j>> \in InnerBlocks /\ inner' = Add(inner, At(<<i, j>>), <<i, j>>)
      BY <2>3, <2>5, <2>13 DEF CountPart
    <3>2. InnerSeen' = InnerSeen \cup {<<i, j>>}
      BY <2>3, <2>6, <2>8, <2>9, <2>10, <3>1
    <3>3. <<i, j>> \notin InnerSeen
      BY <1>2, <2>3, <2>9
    <3>4. <<i, j>> \in Places
      BY <1>2 DEF Places
    <3> QED BY <2>1, <2>3, <2>4, <2>11, <3>1, <3>2, <3>3, <3>4 DEF Counts
  <2> QED BY <1>14, <2>12, <2>13
<1>15. CASE PartsDone
  <2>1. /\ pc = "parts" /\ pc' = "members" /\ i' = i + 1 /\ j > Len(parts) /\ top' = top
        /\ inner' = inner
    BY <1>15 DEF PartsDone
  <2>2. parts = PartsOf(i)
    BY <2>1 DEF OpenInv
  <2>3. TopSeen' = TopSeen
    BY <1>2, <1>3, <1>5, <2>1 DEF TopSeen
  <2>4. \A p \in InnerBlocks : p[1] = i => p[2] < j
    BY <1>2, <1>4, <2>1, <2>2
  <2>5. InnerSeen' = InnerSeen
    BY <1>2, <1>4, <1>6, <2>1, <2>4 DEF InnerSeen
  <2> QED BY <1>10, <2>1, <2>3, <2>5 DEF Counts
<1>16. CASE CensusDone
  <2>1. /\ pc = "members" /\ pc' = "reported" /\ i' = i /\ i > N /\ top' = top /\ inner' = inner
    BY <1>16 DEF CensusDone, N
  <2>2. TopSeen' = TopSeen /\ InnerSeen' = InnerSeen
    BY <1>5, <1>6, <2>1 DEF TopSeen, InnerSeen
  <2> QED BY <1>10, <2>1, <2>2 DEF Counts
<1> QED BY <1>11, <1>12, <1>13, <1>14, <1>15, <1>16 DEF CensusStep

CensusInv == OpenInv /\ TalliesInv /\ TopInv

LEMMA CensusInvInit == BothInit => CensusInv
<1> SUFFICES ASSUME BothInit PROVE CensusInv
  OBVIOUS
<1>1. i = 1 /\ j = 1 /\ pc = "members" /\ top = Tally /\ inner = Tally /\ Given
  BY DEF BothInit, Init, Given
<1>2. TopSeen = {} /\ InnerSeen = {}
  <2>1. \A p \in TopBlocks : ~(p[1] < 1)
    BY <1>1, TopPlaces
  <2>2. \A p \in InnerBlocks : ~(p[1] < 1)
    BY <1>1, InnerPlaces
  <2> QED BY <1>1, <2>1, <2>2 DEF TopSeen, InnerSeen
<1>3. SumFunction([p \in {} |-> Packed(At(p))]) = 0
      /\ SumFunction([p \in {} |-> Unpacked(At(p))]) = 0
  BY SumOfEmpty
<1>4. Tallied(Tally, {})
  <2>1. /\ Tally.methods = [m \in Known |-> 0] /\ Tally.bad = <<>> /\ Tally.packed = 0
    BY DEF Tally
  <2>2. \A m \in Known : Tally.methods[m] = Cardinality({p \in {} : Method(At(p)) = m})
    BY <2>1, FS_EmptySet
  <2>3. ToSet(Tally.bad) = {} /\ Len(Tally.bad) = 0
    BY <2>1 DEF ToSet
  <2>4. {p \in {} : Unpack(At(p)).len # Unpacked(At(p))} = {}
    OBVIOUS
  <2> QED BY <1>3, <2>1, <2>2, <2>3, <2>4, FS_EmptySet, Zenon DEF Tallied
<1>5. TalliesInv
  BY <1>1, <1>2, <1>4 DEF TalliesInv
<1>6. TopInv
  <2>1. Tally.unpacked = 0 /\ Tally.largest = <<0, <<>>>>
    BY DEF Tally
  <2>2. LargestOf(<<0, <<>>>>, {})
    BY Zenon DEF LargestOf
  <2> QED BY <1>1, <1>2, <1>3, <2>1, <2>2, Zenon DEF TopInv
<1>7. OpenInv
  BY <1>1 DEF OpenInv
<1> QED BY <1>5, <1>6, <1>7 DEF CensusInv

LEMMA CensusInvStep ==
  TypeInv /\ CensusInv /\ CensusStep /\ UNCHANGED <<container, nested>> => CensusInv'
<1> SUFFICES ASSUME TypeInv, CensusInv, CensusStep, UNCHANGED <<container, nested>>
             PROVE  CensusInv'
  OBVIOUS
<1>1. /\ OpenInv' /\ Given /\ top \in Tallies /\ inner \in Tallies
      /\ Counts(top, TopSeen, top', TopSeen', TopBlocks)
      /\ Counts(inner, InnerSeen, inner', InnerSeen', InnerBlocks)
  BY SeenStep DEF CensusInv, TypeInv, TypeOK, CensusTypeOK
<1>2. /\ IsFiniteSet(TopSeen) /\ IsFiniteSet(InnerSeen)
      /\ TopSeen \subseteq TopBlocks /\ InnerSeen \subseteq InnerBlocks
  <2>1. IsFiniteSet(TopBlocks) /\ IsFiniteSet(InnerBlocks)
    BY <1>1, TopPlaces, InnerPlaces
  <2>2. TopSeen \in SUBSET TopBlocks /\ InnerSeen \in SUBSET InnerBlocks
    BY DEF TopSeen, InnerSeen
  <2> QED BY <2>1, <2>2, FS_Subset
<1>3. /\ \A p \in TopBlocks : IsBuffer(At(p)) /\ IsBlockPart(At(p)) /\ p[1] \in Nat /\ Len(p) # 2
      /\ \A p \in InnerBlocks : IsBuffer(At(p)) /\ IsBlockPart(At(p))
  <2>1. ASSUME NEW p \in TopBlocks
        PROVE  IsBuffer(At(p)) /\ IsBlockPart(At(p)) /\ p[1] \in Nat /\ Len(p) # 2
    <3>1. IsBuffer(At(p)) /\ p[1] \in 1 .. Len(container) /\ p = <<p[1]>>
      BY <1>1, TopPlaces
    <3>2. IsBlockPart(At(p))
      BY DEF TopBlocks
    <3>3. \A a : Len(<<a>>) = 1
      OBVIOUS
    <3> QED BY <3>1, <3>2, <3>3
  <2>2. \A p \in InnerBlocks : IsBuffer(At(p)) /\ IsBlockPart(At(p))
    BY <1>1, InnerPlaces, Zenon DEF InnerBlocks
  <2> QED BY <2>1, <2>2
<1>4. Tallied(top, TopSeen) /\ Tallied(inner, InnerSeen)
  BY DEF CensusInv, TalliesInv
<1>5. Tallied(top', TopSeen')
  <2>1. CASE top' = top /\ TopSeen' = TopSeen
    BY <1>4, <2>1
  <2>2. CASE \E p \in TopBlocks \ TopSeen : /\ top' = Add(top, At(p), p)
                                            /\ TopSeen' = TopSeen \cup {p} /\ p \in Places
    <3>1. PICK p \in TopBlocks \ TopSeen : /\ top' = Add(top, At(p), p)
                                           /\ TopSeen' = TopSeen \cup {p} /\ p \in Places
      BY <2>2
    <3>2. \A s \in TopSeen \cup {p} : IsBuffer(At(s))
      BY <1>2, <1>3
    <3>3. Tallied(Add(top, At(p), p), TopSeen \cup {p})
      BY <1>1, <1>2, <1>3, <1>4, <3>1, <3>2, TalliedAdd
    <3> QED BY <3>1, <3>3
  <2> QED BY <1>1, <2>1, <2>2 DEF Counts
<1>6. Tallied(inner', InnerSeen')
  <2>1. CASE inner' = inner /\ InnerSeen' = InnerSeen
    BY <1>4, <2>1
  <2>2. CASE \E p \in InnerBlocks \ InnerSeen : /\ inner' = Add(inner, At(p), p)
                                                /\ InnerSeen' = InnerSeen \cup {p} /\ p \in Places
    <3>1. PICK p \in InnerBlocks \ InnerSeen : /\ inner' = Add(inner, At(p), p)
                                               /\ InnerSeen' = InnerSeen \cup {p} /\ p \in Places
      BY <2>2
    <3>2. \A s \in InnerSeen \cup {p} : IsBuffer(At(s))
      BY <1>2, <1>3
    <3>3. Tallied(Add(inner, At(p), p), InnerSeen \cup {p})
      BY <1>1, <1>2, <1>3, <1>4, <3>1, <3>2, TalliedAdd
    <3> QED BY <3>1, <3>3
  <2> QED BY <1>1, <2>1, <2>2 DEF Counts
<1>7. /\ top'.unpacked = SumFunction([p \in TopSeen' |-> Unpacked(At(p))])
      /\ LargestOf(top'.largest, TopSeen')
  <2>1. /\ top.unpacked = SumFunction([p \in TopSeen |-> Unpacked(At(p))])
        /\ LargestOf(top.largest, TopSeen)
    BY DEF CensusInv, TopInv
  <2>2. CASE top' = top /\ TopSeen' = TopSeen
    BY <2>1, <2>2, Zenon
  <2>3. ASSUME NEW p \in TopBlocks \ TopSeen, top' = Add(top, At(p), p),
               TopSeen' = TopSeen \cup {p}, \A s \in TopSeen : s[1] < p[1]
        PROVE  /\ top'.unpacked = SumFunction([s \in TopSeen' |-> Unpacked(At(s))])
               /\ LargestOf(top'.largest, TopSeen')
    <3>1. ~Raises(At(p))
      BY <1>3, SMT DEF IsBlockPart, IsBlock, IsBuffer, Raises
    <3>2. /\ top'.unpacked = top.unpacked + Unpacked(At(p))
          /\ top'.largest = IF Packed(At(p)) > top.largest[1] THEN <<Packed(At(p)), p>>
                            ELSE top.largest
      BY <2>3, <3>1 DEF Add
    <3>3. \A s \in TopSeen \cup {p} : IsBuffer(At(s)) /\ s[1] \in Nat
      BY <1>2, <1>3
    <3>4. SumFunction([s \in TopSeen \cup {p} |-> Unpacked(At(s))])
            = SumFunction([s \in TopSeen |-> Unpacked(At(s))]) + Unpacked(At(p))
      BY <1>2, <3>3, HeadersGrow
    <3>5. LargestOf(top'.largest, TopSeen \cup {p})
      BY <2>1, <2>3, <3>2, <3>3, LargestAdd
    <3>6. top'.unpacked = SumFunction([s \in TopSeen \cup {p} |-> Unpacked(At(s))])
      BY <2>1, <3>2, <3>4, Zenon
    <3> QED BY <2>3, <3>5, <3>6, Zenon
  <2> QED BY <1>1, <1>3, <2>2, <2>3 DEF Counts
<1>8. TalliesInv'
  BY <1>5, <1>6, TallyStays DEF TalliesInv
<1>9. TopInv'
  <2>1. LargestOf(top.largest, TopSeen)'
    BY <1>7, TallyStays
  <2>2. \A B : SumFunction([p \in B |-> Unpacked(At(p))])' = SumFunction([p \in B |-> Unpacked(At(p))])
    BY TallyStays
  <2>3. SumFunction([p \in TopSeen |-> Unpacked(At(p))])' = SumFunction([p \in TopSeen' |-> Unpacked(At(p))])
    BY <2>2
  <2> QED BY <1>7, <2>1, <2>3 DEF TopInv
<1> QED BY <1>1, <1>8, <1>9 DEF CensusInv

LEMMA CensusInvAlways == Spec => []CensusInv
<1>1. TypeInv /\ CensusInv /\ [Next]_vars => CensusInv'
  <2> SUFFICES ASSUME TypeInv, CensusInv, [Next]_vars PROVE CensusInv'
    OBVIOUS
  <2>1. CASE Codec
    BY <2>1, CensusInvStep DEF Codec
  <2>2. CASE UNCHANGED <<container, nested, censusVars>>
    <3>1. /\ container' = container /\ nested' = nested /\ top' = top /\ inner' = inner /\ pc' = pc
          /\ i' = i /\ j' = j /\ parts' = parts /\ body' = body
      BY <2>2 DEF censusVars
    <3>2. TopSeen' = TopSeen /\ InnerSeen' = InnerSeen
      BY <3>1, PlacesStay DEF TopSeen, InnerSeen
    <3>3. TalliesInv'
      BY <3>1, <3>2, TallyStays DEF CensusInv, TalliesInv
    <3>4. TopInv'
      <4>1. LargestOf(top.largest, TopSeen)'
        BY <3>1, <3>2, TallyStays DEF CensusInv, TopInv
      <4>2. \A B : SumFunction([p \in B |-> Unpacked(At(p))])'
                     = SumFunction([p \in B |-> Unpacked(At(p))])
        BY <3>1, TallyStays
      <4>3. SumFunction([p \in TopSeen |-> Unpacked(At(p))])'
              = SumFunction([p \in TopSeen |-> Unpacked(At(p))])
        BY <3>2, <4>2
      <4> QED BY <3>1, <4>1, <4>3 DEF CensusInv, TopInv
    <3>5. OpenInv'
      <4>1. PartsOf(i)' = PartsOf(i') /\ Whole(i)' = Whole(i')
        BY <3>1 DEF PartsOf, Whole
      <4>2. PartsOf(i)' = PartsOf(i) /\ Whole(i)' = Whole(i) /\ Len(container)' = Len(container)
        BY <3>1, <4>1
      <4> QED BY <3>1, <4>2 DEF CensusInv, OpenInv
    <3> QED BY <3>3, <3>4, <3>5 DEF CensusInv
  <2> QED BY <2>1, <2>2 DEF Next, BinStep, BinOther, BinBlock, CountKind, Done, vars
<1> QED BY <1>1, CensusInvInit, TypeInit, TypeStep, PTL DEF Spec

\* For every container: when the census reports, each block of its level is in
\* the tally of that level exactly once, none is missing and none twice, and what
\* is noted as bad are the blocks that do not decode to their length.
THEOREM EveryBlockIsCounted == Spec => []EveryBlockCounted
<1>1. TypeInv /\ CensusInv => EveryBlockCounted
  <2> SUFFICES ASSUME TypeInv, CensusInv, pc = "reported"
               PROVE  Tallied(top, TopBlocks) /\ Tallied(inner, InnerBlocks)
    BY DEF EveryBlockCounted
  <2>1. /\ Given /\ i > Len(container) /\ i \in Nat /\ Len(container) \in Nat
    <3>1. Given /\ i \in 1 .. Len(container) + 1
      BY DEF TypeInv, TypeOK, CensusTypeOK
    <3> QED BY <3>1, LensAreNat DEF CensusInv, OpenInv
  <2>2. TopSeen = TopBlocks
    <3>1. \A p \in TopBlocks : p[1] < i
      BY <2>1, TopPlaces
    <3> QED BY <3>1 DEF TopSeen
  <2>3. InnerSeen = InnerBlocks
    <3>1. \A p \in InnerBlocks : p[1] < i
      BY <2>1, InnerPlaces
    <3> QED BY <3>1 DEF InnerSeen
  <2> QED BY <2>2, <2>3, Zenon DEF CensusInv, TalliesInv
<1> QED BY <1>1, CensusInvAlways, TypeInit, TypeStep, PTL DEF Spec

-----------------------------------------------------------------------------
(* The census by kind counts the same blocks                               *)

LEMMA BlockKindsAre ==
  /\ BlockKind(0) = "block:stored" /\ BlockKind(1) = "block:1" /\ BlockKind(3) = "block:3"
  /\ \A m \in Known : /\ BlockKind(m) \in {"block:stored", "block:1", "block:3"}
                      /\ BlockKind(m) \in Kinds
                      /\ \A q \in Known : BlockKind(q) = BlockKind(m) => q = m
<1>1. BlockKind(0) = "block:stored" /\ BlockKind(1) = "block:1" /\ BlockKind(3) = "block:3"
  BY DEF BlockKind, BlockKinds
<1> QED BY <1>1 DEF Known, Kinds

\* Sixteen bytes are enough for both to tell.
LEMMA KindSaysBlock ==
  ASSUME NEW b, IsBuffer(b)
  PROVE  /\ KindOf(b) \in Kinds
         /\ IsBlockPart(b) => Method(b) \in Known /\ KindOf(b) = BlockKind(Method(b))
         /\ ~IsBlockPart(b) => KindOf(b) \notin {"block:stored", "block:1", "block:3"}
<1> DEFINE got == Read(b)
<1>1. got \in Nat /\ b.len \in Nat /\ KindOf(b) = Kind(b, got)
  BY DEF Read, Lesser, IsBuffer, KindOf
<1>2. KindOf(b) \in Kinds /\ (KindOf(b) \in {"block:stored", "block:1", "block:3"} => IsBlock(b))
  BY <1>1, KindIsKind
<1>3. b.len >= 16 => got >= 9 /\ got # 0 /\ got \notin 1 .. 8
  BY <1>1 DEF Read, Lesser
<1>4. ~(b.len >= 16) => got = 0
  BY <1>1 DEF Read
<1>5. ASSUME IsBlockPart(b) PROVE Method(b) \in Known /\ KindOf(b) = BlockKind(Method(b))
  <2>1. b.len >= 16 /\ IsBlock(b)
    BY <1>5 DEF IsBlockPart
  <2>2. Method(b) \in Known /\ First4(b) # TIM2 /\ First4(b) # MPEG /\ First4(b) # MSCF
    BY <2>1 DEF IsBlock
  <2> HIDE DEF got
  <2>3. Kind(b, got) = BlockKind(Method(b))
    BY <1>3, <2>1, <2>2, Zenon DEF Kind
  <2> QED BY <1>1, <2>2, <2>3
<1>6. ASSUME ~IsBlockPart(b) PROVE KindOf(b) \notin {"block:stored", "block:1", "block:3"}
  <2>1. CASE b.len >= 16
    BY <1>2, <1>6, <2>1 DEF IsBlockPart
  <2>2. CASE ~(b.len >= 16)
    <3>1. Kind(b, 0) = "empty"
      BY DEF Kind
    <3> QED BY <1>1, <1>4, <2>2, <3>1
  <2> QED BY <2>1, <2>2
<1> QED BY <1>2, <1>5, <1>6

LEMMA BinInvInit == BothInit => BinInv
<1> SUFFICES ASSUME BothInit PROVE BinInv
  OBVIOUS
<1>1. /\ k = 1 /\ Given /\ counts = [q \in Kinds |-> 0] /\ packedTotal = 0 /\ unpackedTotal = 0
      /\ biggest = <<0, <<>>>>
  BY DEF BothInit, Init, BinInit, Given
<1>2. BinSeen = {}
  <2>1. \A p \in TopBlocks : ~(p[1] < 1)
    BY <1>1, TopPlaces
  <2> QED BY <1>1, <2>1 DEF BinSeen
<1>3. SumFunction([p \in {} |-> Packed(At(p))]) = 0
      /\ SumFunction([p \in {} |-> Unpacked(At(p))]) = 0
  BY SumOfEmpty
<1>4. LargestOf(<<0, <<>>>>, {})
  BY Zenon DEF LargestOf
<1>5. \A m \in Known : counts[BlockKind(m)] = Cardinality({p \in {} : Method(At(p)) = m})
  BY <1>1, BlockKindsAre, FS_EmptySet
<1> QED BY <1>1, <1>2, <1>3, <1>4, <1>5, Zenon DEF BinInv

LEMMA BinInvStep ==
  ASSUME TypeInv, BinInv, BinStep
  PROVE  BinInv'
<1>1. /\ Given /\ k \in 1 .. Len(container) /\ k' = k + 1
      /\ counts' = [counts EXCEPT ![KindOf(container[k])] = @ + 1]
      /\ counts \in [Kinds -> Nat] /\ container' = container /\ nested' = nested
      /\ IsBuffer(container[k])
  <2>1. Given /\ k \in 1 .. Len(container) + 1 /\ counts \in [Kinds -> Nat] /\ k <= Len(container)
    BY DEF TypeInv, TypeOK, BinStep, BinOther, BinBlock
  <2>2. CountKind(container[k])
    BY DEF BinStep, BinOther, BinBlock
  <2>3. k \in 1 .. Len(container)
    BY <2>1, LensAreNat
  <2> QED BY <2>1, <2>2, <2>3, LensAreNat DEF CountKind
<1> DEFINE w == <<k>>
           b == container[k]
           S == BinSeen
           T == BinSeen'
<1>2. At(w) = b /\ w[1] = k /\ (w \in TopBlocks <=> IsBlockPart(b))
  BY <1>1, AtMember, TopPlaces
<1>3. \A p \in TopBlocks : IsBuffer(At(p)) /\ p[1] \in Nat /\ p = <<p[1]>>
  BY <1>1, TopPlaces
<1>4. T = {p \in TopBlocks : p[1] < k + 1}
  BY <1>1, PlacesStay DEF BinSeen
<1>5. /\ IsFiniteSet(S) /\ S \subseteq TopBlocks /\ w \notin S
      /\ \A p \in S : p[1] < k
  <2>1. S \in SUBSET TopBlocks
    BY DEF BinSeen
  <2>2. w \notin S
    BY <1>1, <1>2 DEF BinSeen
  <2> QED BY <1>1, <2>1, <2>2, TopPlaces, FS_Subset DEF BinSeen
<1>6. \A p \in TopBlocks : p[1] < k + 1 <=> p \in S \/ p = w
  <2>1. \A p \in TopBlocks : p[1] < k + 1 <=> p[1] < k \/ p[1] = k
    BY <1>1, <1>3
  <2> QED BY <1>2, <1>3, <2>1 DEF BinSeen
<1>7. /\ \A m \in Known : counts[BlockKind(m)] = Cardinality({p \in S : Method(At(p)) = m})
      /\ packedTotal = SumFunction([p \in S |-> Packed(At(p))])
      /\ unpackedTotal = SumFunction([p \in S |-> Unpacked(At(p))])
      /\ LargestOf(biggest, S)
  BY Zenon DEF BinInv
<1>8. \A m \in Known : BlockKind(m) \in Kinds /\ \A q \in Known : BlockKind(q) = BlockKind(m) => q = m
  BY BlockKindsAre
<1>9. KindOf(b) \in Kinds
  BY <1>1, KindSaysBlock
<1> HIDE DEF w, b, S, T
<1>10. /\ \A m \in Known : counts'[BlockKind(m)] = Cardinality({p \in T : Method(At(p)) = m})
       /\ packedTotal' = SumFunction([p \in T |-> Packed(At(p))])
       /\ unpackedTotal' = SumFunction([p \in T |-> Unpacked(At(p))])
       /\ LargestOf(biggest', T)
  <2>1. CASE ~IsBlockPart(b)
    <3>1. T = S
      BY <1>2, <1>4, <1>5, <1>6, <2>1
    <3>2. KindOf(b) \notin {"block:stored", "block:1", "block:3"}
      BY <1>1, <2>1, KindSaysBlock DEF b
    <3>3. packedTotal' = packedTotal /\ unpackedTotal' = unpackedTotal /\ biggest' = biggest
      BY <3>2 DEF BinStep, BinOther, BinBlock, b
    <3>4. \A m \in Known : counts'[BlockKind(m)] = counts[BlockKind(m)]
      BY <1>1, <1>8, <3>2, BlockKindsAre DEF b
    <3> QED BY <1>7, <3>1, <3>3, <3>4, Zenon
  <2>2. CASE IsBlockPart(b)
    <3>1. T = S \cup {w}
      BY <1>2, <1>4, <1>5, <1>6, <2>2
    <3>2. Method(b) \in Known /\ KindOf(b) = BlockKind(Method(b))
          /\ KindOf(b) \in {"block:stored", "block:1", "block:3"}
      BY <1>1, <2>2, KindSaysBlock, BlockKindsAre DEF b
    <3>3. /\ packedTotal' = packedTotal + Packed(b) /\ unpackedTotal' = unpackedTotal + Unpacked(b)
          /\ biggest' = IF Packed(b) > biggest[1] THEN <<Packed(b), w>> ELSE biggest
      BY <3>2 DEF BinStep, BinOther, BinBlock, b, w
    <3>4. IsBuffer(b) /\ \A p \in S \cup {w} : IsBuffer(At(p)) /\ p[1] \in Nat
      BY <1>1, <1>2, <1>3, <1>5 DEF b
    <3>5. /\ SumFunction([p \in S \cup {w} |-> Packed(At(p))])
              = SumFunction([p \in S |-> Packed(At(p))]) + Packed(At(w))
          /\ SumFunction([p \in S \cup {w} |-> Unpacked(At(p))])
              = SumFunction([p \in S |-> Unpacked(At(p))]) + Unpacked(At(w))
      BY <1>5, <3>4, HeadersGrow
    <3>6. packedTotal' = SumFunction([p \in T |-> Packed(At(p))])
      BY <1>2, <1>7, <3>1, <3>3, <3>5, Zenon
    <3>7. unpackedTotal' = SumFunction([p \in T |-> Unpacked(At(p))])
      BY <1>2, <1>7, <3>1, <3>3, <3>5, Zenon
    <3>8. LargestOf(biggest', S \cup {w})
      BY <1>1, <1>2, <1>5, <1>7, <3>3, <3>4, LargestAdd
    <3>9. ASSUME NEW m \in Known
          PROVE  counts'[BlockKind(m)] = Cardinality({p \in T : Method(At(p)) = m})
      <4> DEFINE f == [p \in T |-> Method(At(p)) = m]
                 A == {p \in S : Method(At(p)) = m}
                 C == {p \in T : Method(At(p)) = m}
      <4>1. A = {p \in S : f[p]} /\ C = {p \in S \cup {w} : f[p]} /\ (f[w] <=> Method(b) = m)
        BY <1>2, <3>1
      <4>2. counts[BlockKind(m)] = Cardinality(A) /\ counts[BlockKind(m)] \in Nat
        BY <1>1, <1>7, <1>8
      <4> HIDE DEF f, A, C
      <4>3. CASE Method(b) = m
        <5>0. C = A \cup {w} /\ w \notin A /\ A \in SUBSET S
          BY <1>5, <3>1, <4>1, <4>3
        <5>1. Cardinality(C) = Cardinality(A) + 1
          <6>1. IsFiniteSet(A)
            BY <1>5, <5>0, FS_Subset
          <6> QED BY <5>0, <6>1, FS_AddElement
        <5>2. counts'[BlockKind(m)] = counts[BlockKind(m)] + 1
          BY <1>1, <1>8, <3>2, <4>3 DEF b
        <5> QED BY <4>2, <5>1, <5>2 DEF C
      <4>4. CASE Method(b) # m
        <5>1. C = A
          BY <1>5, <4>1, <4>4
        <5>2. counts'[BlockKind(m)] = counts[BlockKind(m)]
          BY <1>1, <1>8, <3>2, <4>4 DEF b
        <5> QED BY <4>2, <5>1, <5>2 DEF C
      <4> QED BY <4>3, <4>4
    <3> QED BY <3>1, <3>6, <3>7, <3>8, <3>9, Zenon
  <2> QED BY <2>1, <2>2
<1>11. LargestOf(biggest, BinSeen)'
  BY <1>1, <1>10, TallyStays DEF T
<1>12. /\ SumFunction([p \in BinSeen |-> Packed(At(p))])' = SumFunction([p \in T |-> Packed(At(p))])
       /\ SumFunction([p \in BinSeen |-> Unpacked(At(p))])' = SumFunction([p \in T |-> Unpacked(At(p))])
  BY <1>1, TallyStays DEF T
<1>13. \A m : {p \in BinSeen : Method(At(p)) = m}' = {p \in T : Method(At(p)) = m}
  BY <1>1, PlacesStay DEF T
<1> QED BY <1>10, <1>11, <1>12, <1>13 DEF BinInv

LEMMA BinInvAlways == Spec => []BinInv
<1>1. TypeInv /\ BinInv /\ [Next]_vars => BinInv'
  <2> SUFFICES ASSUME TypeInv, BinInv, [Next]_vars PROVE BinInv'
    OBVIOUS
  <2>1. CASE BinStep
    BY <2>1, BinInvStep
  <2>2. CASE UNCHANGED <<container, nested, binVars>>
    <3>1. /\ container' = container /\ nested' = nested /\ counts' = counts /\ k' = k
          /\ packedTotal' = packedTotal /\ unpackedTotal' = unpackedTotal /\ biggest' = biggest
      BY <2>2 DEF binVars
    <3>2. BinSeen' = BinSeen
      BY <3>1, PlacesStay DEF BinSeen
    <3>3. LargestOf(biggest, BinSeen)'
      BY <3>1, <3>2, TallyStays DEF BinInv
    <3>4. /\ SumFunction([p \in BinSeen |-> Packed(At(p))])'
               = SumFunction([p \in BinSeen |-> Packed(At(p))])
          /\ SumFunction([p \in BinSeen |-> Unpacked(At(p))])'
               = SumFunction([p \in BinSeen |-> Unpacked(At(p))])
      <4>1. \A B : /\ SumFunction([p \in B |-> Packed(At(p))])'
                        = SumFunction([p \in B |-> Packed(At(p))])
                   /\ SumFunction([p \in B |-> Unpacked(At(p))])'
                        = SumFunction([p \in B |-> Unpacked(At(p))])
        BY <3>1, TallyStays
      <4> QED BY <3>2, <4>1
    <3>5. \A m : {p \in BinSeen : Method(At(p)) = m}' = {p \in BinSeen : Method(At(p)) = m}
      BY <3>1, <3>2, PlacesStay
    <3> QED BY <3>1, <3>3, <3>4, <3>5 DEF BinInv
  <2> QED BY <2>1, <2>2 DEF Next, Codec, Done, vars
<1> QED BY <1>1, BinInvInit, TypeInit, TypeStep, PTL DEF Spec

\* The two reports agree on every container, whatever the streams decode to: on
\* how many blocks of each method there are, on their sizes, and on the largest.
THEOREM CensusesAlwaysAgree == Spec => []CensusesAgree
<1>1. TypeInv /\ CensusInv /\ BinInv => CensusesAgree
  <2> SUFFICES ASSUME TypeInv, CensusInv, BinInv, pc = "reported", k > Len(container)
               PROVE  /\ \A m \in Known : counts[BlockKind(m)] = top.methods[m]
                      /\ packedTotal = top.packed
                      /\ unpackedTotal = top.unpacked
                      /\ biggest = top.largest
    BY DEF CensusesAgree
  <2>1. /\ Given /\ i > Len(container) /\ i \in Nat /\ k \in Nat /\ Len(container) \in Nat
        /\ biggest \in Nat \X Places /\ top.largest \in Nat \X Places
    <3>1. /\ Given /\ i \in 1 .. Len(container) + 1 /\ k \in 1 .. Len(container) + 1
          /\ biggest \in Nat \X Places /\ top \in Tallies
      BY DEF TypeInv, TypeOK, CensusTypeOK
    <3> QED BY <3>1, LensAreNat DEF CensusInv, OpenInv, Tallies
  <2>2. TopSeen = TopBlocks /\ BinSeen = TopBlocks
    <3>1. \A p \in TopBlocks : p[1] < i /\ p[1] < k
      BY <2>1, TopPlaces
    <3> QED BY <3>1 DEF TopSeen, BinSeen
  <2>3. /\ \A m \in Known : top.methods[m] = Cardinality({p \in TopBlocks : Method(At(p)) = m})
        /\ top.packed = SumFunction([p \in TopBlocks |-> Packed(At(p))])
    BY <2>2, Zenon DEF CensusInv, TalliesInv, Tallied
  <2>4. /\ top.unpacked = SumFunction([p \in TopBlocks |-> Unpacked(At(p))])
        /\ LargestOf(top.largest, TopBlocks)
    BY <2>2, Zenon DEF CensusInv, TopInv
  <2>5. /\ \A m \in Known :
             counts[BlockKind(m)] = Cardinality({p \in TopBlocks : Method(At(p)) = m})
        /\ packedTotal = SumFunction([p \in TopBlocks |-> Packed(At(p))])
        /\ unpackedTotal = SumFunction([p \in TopBlocks |-> Unpacked(At(p))])
        /\ LargestOf(biggest, TopBlocks)
    BY <2>2, Zenon DEF BinInv
  <2>6. biggest = top.largest
    <3>1. \A p \in TopBlocks : IsBuffer(At(p)) /\ p[1] \in Nat /\ p = <<p[1]>>
      BY <2>1, TopPlaces
    <3> QED BY <2>1, <2>4, <2>5, <3>1, LargestIsOne
  <2> QED BY <2>3, <2>4, <2>5, <2>6, Zenon
<1> QED BY <1>1, CensusInvAlways, BinInvAlways, TypeInit, TypeStep, PTL DEF Spec

-----------------------------------------------------------------------------
(* Blocks inside SCPK bundles                                              *)

\* The members opened as bundles.
BundleMembers ==
  {a \in 1 .. Len(container) : nested /\ IsBundle(container[a]) /\ ~IsBlock(container[a])}

OpenedSeen == {a \in BundleMembers : a < i \/ (a = i /\ pc = "parts")}

\* The SCPK bundles passed, their members that are not empty, and those with a head.
ScpkSeen == {a \in Scpks : a < mem \/ (a = mem /\ scpkPc = "members")}

FilledSeen ==
  {p \in Filled : p[1] < mem \/ (p[1] = mem /\ scpkPc = "members" /\ p[2] < ent)}

HeadedSeen ==
  {p \in Headed : p[1] < mem \/ (p[1] = mem /\ scpkPc = "members" /\ p[2] < ent)}

DecodesWhole(p) == Unpack(Rest(p)).len = Unpacked(Rest(p))

\* What is open is the bundle the census is at.
ScpkTypeOK ==
  /\ mem \in 1 .. Len(container) + 1
  /\ ent \in Nat \ {0}
  /\ scpkPc \in {"bundles", "members", "reported"}
  /\ scpkPc = "members" =>
       /\ mem \in Scpks /\ bundle = container[mem] /\ ent <= Count(bundle) + 1
  /\ scpkPc = "reported" => mem > Len(container)

\* The figures are of what has been passed so far.
ScpkInv ==
  /\ nb = Cardinality(ScpkSeen)
  /\ totalMembers = SumFunction([a \in ScpkSeen |-> Count(container[a])])
  /\ comp = Cardinality(HeadedSeen)
  /\ exact = Cardinality({p \in HeadedSeen : DecodesWhole(p)})
  /\ packed = SumFunction([p \in HeadedSeen |-> Packed(Rest(p))])

MagicInv ==
  /\ IsFiniteSet(DOMAIN innerMagic)
  /\ \A v \in DOMAIN innerMagic : innerMagic[v] \in Nat
  /\ SumFunction(innerMagic) = Cardinality(FilledSeen)

OpenedInv == bundles = Cardinality(OpenedSeen)

LEMMA SliceBytes ==
  ASSUME NEW b, IsBuffer(b), NEW o \in Nat, NEW n \in Nat
  PROVE  /\ Slice(b, o, n).len = IF o < Lesser(o + n, b.len) THEN Lesser(o + n, b.len) - o ELSE 0
         /\ \A d \in Nat : d < Slice(b, o, n).len => Byte(Slice(b, o, n), d) = Byte(b, o + d)
<1> DEFINE stop == Lesser(o + n, b.len)
           size == IF o < stop THEN stop - o ELSE 0
           kept == {d - o : d \in DOMAIN b.at \cap (o .. stop - 1)}
           at == [q \in kept |-> b.at[q + o]]
<1>1. Slice(b, o, n) = [len |-> size, at |-> at]
  BY DEF Slice
<1>2. stop \in Nat /\ b.len \in Nat /\ DOMAIN b.at \subseteq 0 .. b.len - 1
  BY DEF Lesser, IsBuffer
<1>3. ASSUME NEW d \in Nat, d < size PROVE Byte(Slice(b, o, n), d) = Byte(b, o + d)
  <2>1. o + d \in o .. stop - 1
    BY <1>2, <1>3
  <2>2. d \in kept <=> o + d \in DOMAIN b.at
    <3>1. ASSUME d \in kept PROVE o + d \in DOMAIN b.at
      <4>1. PICK x \in DOMAIN b.at \cap (o .. stop - 1) : d = x - o
        BY <3>1
      <4>2. x \in Int /\ o + d = x
        BY <1>2, <4>1
      <4> QED BY <4>1, <4>2
    <3>2. ASSUME o + d \in DOMAIN b.at PROVE d \in kept
      <4>1. d = (o + d) - o
        OBVIOUS
      <4> QED BY <2>1, <3>2, <4>1
    <3> QED BY <3>1, <3>2
  <2>3. DOMAIN at = kept /\ (d \in kept => at[d] = b.at[d + o]) /\ d + o = o + d
    OBVIOUS
  <2> HIDE DEF kept, at, size
  <2> QED BY <1>1, <2>2, <2>3 DEF Byte
<1> QED BY <1>1, <1>3

LEMMA SliceWord ==
  ASSUME NEW b, IsBuffer(b), NEW o \in Nat, NEW n \in Nat, NEW d \in Nat,
         d + 3 < Slice(b, o, n).len
  PROVE  U32(Slice(b, o, n), d) = U32(b, o + d)
<1> DEFINE s == Slice(b, o, n)
<1>1. \A q \in Nat : q < s.len => Byte(s, q) = Byte(b, o + q)
  BY SliceBytes
<1>2. s.len \in Nat
  BY SliceIsBuffer DEF IsBuffer
<1>3. d + 3 < s.len
  OBVIOUS
<1> HIDE DEF s
<1>4. /\ d < s.len /\ d + 1 < s.len /\ d + 2 < s.len
      /\ o + (d + 1) = o + d + 1 /\ o + (d + 2) = o + d + 2 /\ o + (d + 3) = o + d + 3
  BY <1>2, <1>3
<1>5. /\ Byte(s, d) = Byte(b, o + d) /\ Byte(s, d + 1) = Byte(b, o + d + 1)
      /\ Byte(s, d + 2) = Byte(b, o + d + 2) /\ Byte(s, d + 3) = Byte(b, o + d + 3)
  BY <1>1, <1>3, <1>4
<1> QED BY <1>5, Zenon DEF U32, s

\* A block is decoded from its own bytes as it is from the bundle as it stands:
\* what follows it is of no importance.
LEMMA HeadIsEnough ==
  ASSUME NEW b, IsBuffer(b), NEW o \in Nat, IsHead(b, o)
  PROVE  LET h == HeadBlock(b, o)
             r == Slice(b, o, b.len - o)
         IN  /\ IsBuffer(h) /\ IsBuffer(r) /\ ~Raises(h)
             /\ Packed(h) = U32(b, o + 1) /\ Packed(r) = Packed(h)
             /\ Unpacked(h) = U32(b, o + 5) /\ Unpacked(r) = Unpacked(h)
             /\ Unpack(r).len = Unpack(h).len
<1> DEFINE p == U32(b, o + 1)
           u == U32(b, o + 5)
           h == HeadBlock(b, o)
           r == Slice(b, o, b.len - o)
<1>1. /\ p \in Nat /\ u \in Nat /\ b.len \in Nat /\ p # 0 /\ o + 9 + p <= b.len
      /\ Byte(b, o) \in Known /\ (Byte(b, o) = 0 => p = u)
  BY WordIsNat DEF IsHead, IsBuffer
<1>2. h = Slice(b, o, 9 + p)
  BY DEF HeadBlock
<1> HIDE DEF p
<1>3. 9 + p \in Nat /\ b.len - o \in Nat
  BY <1>1
<1>4. IsBuffer(h) /\ IsBuffer(r)
  BY <1>2, <1>3, SliceIsBuffer
<1>5. h.len = 9 + p
  <2>1. Lesser(o + (9 + p), b.len) = o + (9 + p)
    BY <1>1 DEF Lesser
  <2>2. Slice(b, o, 9 + p).len = (o + (9 + p)) - o
    <3>1. o < o + (9 + p)
      BY <1>1
    <3> QED BY <1>3, <2>1, <3>1, SliceBytes
  <2> QED BY <1>1, <1>2, <2>2
<1>6. r.len = b.len - o /\ 9 + p <= r.len
  <2>1. Lesser(o + (b.len - o), b.len) = b.len
    BY <1>1 DEF Lesser
  <2>2. Slice(b, o, b.len - o).len = b.len - o
    <3>1. o < b.len
      BY <1>1
    <3> QED BY <1>3, <2>1, <3>1, SliceBytes
  <2> QED BY <1>1, <2>2
<1>7. \A d \in Nat : d < 9 + p => Byte(h, d) = Byte(b, o + d) /\ Byte(r, d) = Byte(b, o + d)
  <2> SUFFICES ASSUME NEW d \in Nat, d < 9 + p
               PROVE  Byte(h, d) = Byte(b, o + d) /\ Byte(r, d) = Byte(b, o + d)
    OBVIOUS
  <2>1. d < h.len /\ d < r.len
    BY <1>1, <1>5, <1>6
  <2>2. \A q \in Nat : q < h.len => Byte(h, q) = Byte(b, o + q)
    <3> HIDE DEF h
    <3>1. \A q \in Nat : q < Slice(b, o, 9 + p).len => Byte(Slice(b, o, 9 + p), q) = Byte(b, o + q)
      BY <1>3, SliceBytes
    <3> QED BY <1>2, <3>1
  <2>3. \A q \in Nat : q < r.len => Byte(r, q) = Byte(b, o + q)
    BY <1>3, SliceBytes
  <2> HIDE DEF h, r
  <2> QED BY <2>1, <2>2, <2>3
<1>8. U32(h, 1) = p /\ U32(r, 1) = p
  <2>1. 1 + 3 < h.len /\ 1 + 3 < r.len
    BY <1>1, <1>5, <1>6
  <2> QED BY <1>2, <1>3, <2>1, SliceWord DEF p
<1>9. U32(h, 5) = u /\ U32(r, 5) = u
  <2>1. 5 + 3 < h.len /\ 5 + 3 < r.len
    BY <1>1, <1>5, <1>6
  <2> QED BY <1>2, <1>3, <2>1, SliceWord
<1>10. Byte(h, 0) = Byte(b, o) /\ Byte(r, 0) = Byte(b, o) /\ Byte(h, 9) = Byte(r, 9)
  <2>1. 0 < 9 + p /\ 9 < 9 + p /\ o + 0 = o
    BY <1>1
  <2>2. Byte(h, 0) = Byte(b, o + 0) /\ Byte(r, 0) = Byte(b, o + 0)
        /\ Byte(h, 9) = Byte(b, o + 9) /\ Byte(r, 9) = Byte(b, o + 9)
    BY <1>7, <2>1
  <2> QED BY <2>1, <2>2
<1> HIDE DEF h, r, u
<1>11. ~Raises(h)
  BY <1>1, <1>5, <1>10 DEF Raises, Method
<1>12. Unpack(r).len = Unpack(h).len
  <2>1. CASE Byte(b, o) # 0
    BY <1>1, <1>8, <1>10, <2>1 DEF Unpack, Method, Packed
  <2>2. CASE Byte(b, o) = 0
    <3>1. Unpack(h) = Slice(h, 9, u) /\ Unpack(r) = Slice(r, 9, u)
      BY <1>9, <1>10, <2>2 DEF Unpack, Method, Unpacked
    <3>2. u = p
      BY <1>1, <2>2
    <3>3. Slice(h, 9, p).len = p
      <4>1. Lesser(9 + p, h.len) = 9 + p /\ 9 < 9 + p /\ (9 + p) - 9 = p /\ 9 \in Nat
        BY <1>1, <1>5 DEF Lesser
      <4>2. Slice(h, 9, p).len = IF 9 < Lesser(9 + p, h.len) THEN Lesser(9 + p, h.len) - 9 ELSE 0
        BY <1>1, <1>4, <4>1, SliceBytes
      <4> QED BY <4>1, <4>2
    <3>4. Slice(r, 9, p).len = p
      <4>1. Lesser(9 + p, r.len) = 9 + p /\ 9 < 9 + p /\ (9 + p) - 9 = p /\ 9 \in Nat
        <5>1. r.len \in Nat
          BY <1>4 DEF IsBuffer
        <5> QED BY <1>1, <1>6, <5>1 DEF Lesser
      <4>2. Slice(r, 9, p).len = IF 9 < Lesser(9 + p, r.len) THEN Lesser(9 + p, r.len) - 9 ELSE 0
        BY <1>1, <1>4, <4>1, SliceBytes
      <4> QED BY <4>1, <4>2
    <3> QED BY <3>1, <3>2, <3>3, <3>4
  <2> QED BY <2>1, <2>2
<1>13. Packed(h) = p /\ Packed(r) = Packed(h) /\ Unpacked(h) = u /\ Unpacked(r) = Unpacked(h)
  BY <1>8, <1>9 DEF Packed, Unpacked
<1> QED BY <1>4, <1>11, <1>12, <1>13 DEF h, r, p, u

LEMMA OffsetIsNat ==
  ASSUME NEW b, IsBuffer(b), NEW q \in Int
  PROVE  Offset(b, q) \in Nat /\ Size(b, q) \in Nat /\ Count(b) \in Nat
<1> DEFINE f == [r \in 1 .. q - 1 |-> Size(b, r)]
<1>1. \A r : Size(b, r) \in Nat
  BY WordIsNat DEF Size
<1>2. Count(b) \in Nat
  BY WordIsNat DEF Count
<1>3. DOMAIN f = 1 .. q - 1 /\ (\A y \in DOMAIN f : f[y] \in Nat)
  BY <1>1
<1>4. IsFiniteSet(1 .. q - 1)
  <2>1. q - 1 \in Int
    OBVIOUS
  <2> QED BY <2>1, FS_Interval
<1>5. Offset(b, q) = 16 + 4 * Count(b) + SumFunction(f)
  BY DEF Offset
<1> HIDE DEF f
<1>6. SumFunction(f) \in Nat
  BY <1>3, <1>4, SumIsNatural
<1> QED BY <1>1, <1>2, <1>5, <1>6

LEMMA ScpkPlaces ==
  ASSUME Given
  PROVE  /\ IsFiniteSet(Scpks) /\ Scpks \subseteq 1 .. Len(container)
         /\ IsFiniteSet(Filled) /\ IsFiniteSet(Headed) /\ Headed \subseteq Filled
         /\ \A p : p \in Filled <=>
              \E a \in Scpks : \E q \in 1 .. Count(container[a]) :
                p = <<a, q>> /\ Size(container[a], q) # 0
         /\ \A p \in Filled : /\ p[1] \in Scpks /\ p[2] \in 1 .. Count(container[p[1]])
                              /\ p = <<p[1], p[2]>>
         /\ \A a \in Scpks : IsBuffer(container[a]) /\ Count(container[a]) \in Nat
<1> DEFINE Q(a) == {<<a, q>> : q \in {q \in 1 .. Count(container[a]) : Size(container[a], q) # 0}}
<1>1. IsFiniteSet(1 .. Len(container))
  BY LensAreNat, FS_Interval
<1>2. Scpks \in SUBSET (1 .. Len(container))
  BY DEF Scpks
<1>3. IsFiniteSet(Scpks)
  BY <1>1, <1>2, FS_Subset
<1>4. \A a \in Scpks : IsBuffer(container[a]) /\ Count(container[a]) \in Nat
  BY <1>2, LensAreNat, OffsetIsNat
<1>5. ASSUME NEW a \in Scpks PROVE IsFiniteSet(Q(a))
  <2> DEFINE E == {q \in 1 .. Count(container[a]) : Size(container[a], q) # 0}
             f == [q \in E |-> <<a, q>>]
  <2>1. IsFiniteSet(1 .. Count(container[a])) /\ E \in SUBSET (1 .. Count(container[a]))
    BY <1>4, FS_Interval
  <2>2. IsFiniteSet(E)
    BY <2>1, FS_Subset
  <2>3. DOMAIN f = E /\ Q(a) = {f[q] : q \in DOMAIN f}
    OBVIOUS
  <2> HIDE DEF E, Q, f
  <2> QED BY <2>2, <2>3, ImageIsFinite
<1>6. IsFiniteSet(Filled)
  <2> DEFINE f == [a \in Scpks |-> Q(a)]
  <2>1. Filled = UNION {Q(a) : a \in Scpks}
    BY DEF Filled
  <2> HIDE DEF Q
  <2>2. DOMAIN f = Scpks /\ {Q(a) : a \in Scpks} = {f[a] : a \in DOMAIN f}
    OBVIOUS
  <2> HIDE DEF f
  <2>3. IsFiniteSet({Q(a) : a \in Scpks})
    BY <1>3, <2>2, ImageIsFinite
  <2> QED BY <1>5, <2>1, <2>3, FS_UNION
<1>7. Headed \in SUBSET Filled
  BY DEF Headed
<1>8. IsFiniteSet(Headed)
  BY <1>6, <1>7, FS_Subset
<1>9. \A p : p \in Filled <=>
        \E a \in Scpks : \E q \in 1 .. Count(container[a]) :
          p = <<a, q>> /\ Size(container[a], q) # 0
  BY DEF Filled
<1>10. ASSUME NEW p \in Filled
       PROVE  p[1] \in Scpks /\ p[2] \in 1 .. Count(container[p[1]]) /\ p = <<p[1], p[2]>>
  <2>1. PICK a \in Scpks : \E q \in 1 .. Count(container[a]) : p = <<a, q>>
    BY <1>9
  <2>2. PICK q \in 1 .. Count(container[a]) : p = <<a, q>>
    BY <2>1
  <2>3. p[1] = a /\ p[2] = q
    BY <2>2
  <2> QED BY <2>2, <2>3
<1> QED BY <1>2, <1>3, <1>4, <1>6, <1>7, <1>8, <1>9, <1>10

\* What the census decodes of a member is a block, as it is in the bundle.
LEMMA HeadedPlaces ==
  ASSUME Given, NEW p \in Headed
  PROVE  LET b == container[p[1]]
             o == Offset(b, p[2])
             h == HeadBlock(b, o)
         IN  /\ IsBuffer(Rest(p)) /\ Packed(Rest(p)) \in Nat
             /\ ~Raises(h) /\ Packed(h) = Packed(Rest(p))
             /\ Unpack(h).len = Unpack(Rest(p)).len /\ Unpacked(h) = Unpacked(Rest(p))
<1> DEFINE b == container[p[1]]
           o == Offset(b, p[2])
<1>1. p[1] \in Scpks /\ p[2] \in 1 .. Count(b) /\ IsBuffer(b) /\ Count(b) \in Nat
  <2>1. p \in Filled
    BY ScpkPlaces
  <2> QED BY <2>1, ScpkPlaces
<1>2. p[2] \in Int
  BY <1>1
<1>3. o \in Nat /\ IsHead(b, o)
  <2>1. o \in Nat
    BY <1>1, <1>2, OffsetIsNat
  <2> QED BY <2>1 DEF Headed
<1>4. Rest(p) = Slice(b, o, b.len - o)
  BY DEF Rest
<1> HIDE DEF b, o
<1>5. /\ IsBuffer(Rest(p)) /\ ~Raises(HeadBlock(b, o)) /\ Packed(HeadBlock(b, o)) = Packed(Rest(p))
      /\ Unpack(HeadBlock(b, o)).len = Unpack(Rest(p)).len
      /\ Unpacked(HeadBlock(b, o)) = Unpacked(Rest(p))
  BY <1>1, <1>3, <1>4, HeadIsEnough
<1>6. Packed(Rest(p)) \in Nat
  BY <1>5, SizesAreNat
<1> QED BY <1>5, <1>6 DEF b, o

LEMMA ScpkStay ==
  ASSUME container' = container
  PROVE  /\ Scpks' = Scpks /\ Filled' = Filled /\ Headed' = Headed
         /\ \A x : Rest(x)' = Rest(x) /\ DecodesWhole(x)' = DecodesWhole(x)
<1>1. Scpks' = Scpks
  BY DEF Scpks
<1>2. \A x : Rest(x)' = Rest(x)
  BY DEF Rest
<1>3. \A x : DecodesWhole(x)' = DecodesWhole(x)
  BY <1>2 DEF DecodesWhole
<1>4. Filled' = Filled
  <2> DEFINE Q(a) == {<<a, q>> : q \in {q \in 1 .. Count(container[a]) : Size(container[a], q) # 0}}
  <2>1. \A a : Q(a)' = Q(a)
    OBVIOUS
  <2>2. Filled = UNION {Q(a) : a \in Scpks} /\ Filled' = UNION {Q(a)' : a \in Scpks'}
    BY DEF Filled
  <2> HIDE DEF Q
  <2>3. UNION {Q(a)' : a \in Scpks'} = UNION {Q(a) : a \in Scpks}
    BY <1>1, <2>1
  <2> QED BY <2>2, <2>3
<1>5. Headed' = Headed
  BY <1>4 DEF Headed
<1> QED BY <1>1, <1>2, <1>3, <1>4, <1>5

LEMMA BagGrows ==
  ASSUME NEW B, IsFiniteSet(DOMAIN B), \A e \in DOMAIN B : B[e] \in Nat, NEW v
  PROVE  LET C == B (+) SetToBag({v})
         IN  /\ IsFiniteSet(DOMAIN C)
             /\ \A e \in DOMAIN C : C[e] \in Nat
             /\ SumFunction(C) = SumFunction(B) + 1
             /\ SumFunction(B) \in Nat
             /\ DOMAIN C = DOMAIN B \cup {v}
             /\ C[v] = (IF v \in DOMAIN B THEN B[v] ELSE 0) + 1
             /\ \A e \in DOMAIN B \ {v} : C[e] = B[e]
<1> DEFINE C == B (+) SetToBag({v})
<1>1. /\ DOMAIN C = DOMAIN B \cup {v}
      /\ \A e \in DOMAIN C :
           C[e] = (IF e \in DOMAIN B THEN B[e] ELSE 0) + (IF e \in {v} THEN 1 ELSE 0)
  <2> DEFINE g == [e \in DOMAIN B \cup {v} |->
                     (IF e \in DOMAIN B THEN B[e] ELSE 0) + (IF e \in {v} THEN 1 ELSE 0)]
  <2>1. DOMAIN SetToBag({v}) = {v} /\ \A e \in {v} : SetToBag({v})[e] = 1
    BY DEF SetToBag
  <2>2. C = g
    BY <2>1, Zenon DEF (+)
  <2> HIDE DEF C
  <2> QED BY <2>2
<1>2. SumFunction(B) \in Nat
  BY SumIsNatural
<1>3. v \in DOMAIN C /\ C[v] = (IF v \in DOMAIN B THEN B[v] ELSE 0) + 1
  BY <1>1
<1>4. \A e \in DOMAIN B : e # v => C[e] = B[e]
  BY <1>1
<1> HIDE DEF C
<1>5. IsFiniteSet(DOMAIN C)
  BY <1>1, FS_AddElement
<1>6. \A e \in DOMAIN C : C[e] \in Nat
  BY <1>1
<1>7. SumFunction(C) = SumFunction(B) + 1
  <2>1. CASE v \in DOMAIN B
    <3>1. C[v] = B[v] + 1 /\ B[v] \in Nat /\ C[v] \in Nat
      BY <1>3, <1>6, <2>1
    <3>2. DOMAIN C = DOMAIN B
      BY <1>1, <2>1
    <3>3. SumFunction(C) + B[v] = SumFunction(B) + C[v]
      BY <1>4, <2>1, <3>1, <3>2, SumRises
    <3>4. SumFunction(C) \in Nat
      BY <1>5, <1>6, SumIsNatural
    <3> QED BY <1>2, <3>1, <3>3, <3>4
  <2>2. CASE v \notin DOMAIN B
    <3>1. C[v] = 1
      BY <1>3, <2>2
    <3>2. SumFunction(C) = SumFunction(B) + C[v]
      BY <1>1, <1>4, <2>2, <3>1, SumGrows
    <3> QED BY <3>1, <3>2
  <2> QED BY <2>1, <2>2
<1> QED BY <1>1, <1>2, <1>3, <1>4, <1>5, <1>6, <1>7 DEF C

\* What a step of the SCPK census has passed.
LEMMA ScpkSeenStep ==
  ASSUME Given, ScpkTypeOK, ScpkStep, container' = container
  PROVE  /\ ScpkTypeOK'
         /\ PassMember \/ MembersDone \/ ScpkDone \/ EmptyMember =>
              ScpkSeen' = ScpkSeen /\ FilledSeen' = FilledSeen /\ HeadedSeen' = HeadedSeen
         /\ OpenScpk => /\ mem \in Scpks \ ScpkSeen /\ ScpkSeen' = ScpkSeen \cup {mem}
                        /\ FilledSeen' = FilledSeen /\ HeadedSeen' = HeadedSeen
         /\ RawMember \/ BlockMember =>
              /\ <<mem, ent>> \in Filled \ FilledSeen /\ ScpkSeen' = ScpkSeen
              /\ FilledSeen' = FilledSeen \cup {<<mem, ent>>} /\ bundle = container[mem]
         /\ RawMember => HeadedSeen' = HeadedSeen
         /\ BlockMember => /\ <<mem, ent>> \in Headed \ HeadedSeen
                           /\ HeadedSeen' = HeadedSeen \cup {<<mem, ent>>}
<1> DEFINE N == Len(container)
<1>1. /\ N \in Nat /\ mem \in 1 .. N + 1 /\ mem \in Nat /\ ent \in Nat /\ ent >= 1
  BY LensAreNat DEF ScpkTypeOK
<1>2. Scpks \subseteq 1 .. N /\ \A a \in Scpks : Count(container[a]) \in Nat
  BY ScpkPlaces
<1>3. \A p \in Filled : /\ p[1] \in 1 .. N /\ p[1] \in Scpks /\ p = <<p[1], p[2]>>
                        /\ p[2] \in 1 .. Count(container[p[1]]) /\ p[2] \in Nat
  BY <1>2, ScpkPlaces
<1>4. Headed \subseteq Filled
  BY ScpkPlaces
<1>5. ScpkSeen' = {a \in Scpks : a < mem' \/ (a = mem' /\ scpkPc' = "members")}
  BY ScpkStay DEF ScpkSeen
<1>6. FilledSeen' =
        {p \in Filled : p[1] < mem' \/ (p[1] = mem' /\ scpkPc' = "members" /\ p[2] < ent')}
  BY ScpkStay DEF FilledSeen
<1>7. HeadedSeen' =
        {p \in Headed : p[1] < mem' \/ (p[1] = mem' /\ scpkPc' = "members" /\ p[2] < ent')}
  BY ScpkStay DEF HeadedSeen
<1>8. ScpkTypeOK' <=>
        /\ mem' \in 1 .. N + 1
        /\ ent' \in Nat \ {0}
        /\ scpkPc' \in {"bundles", "members", "reported"}
        /\ scpkPc' = "members" =>
             /\ mem' \in Scpks /\ bundle' = container[mem'] /\ ent' <= Count(bundle') + 1
        /\ scpkPc' = "reported" => mem' > N
  <2>1. Count(bundle)' = Count(bundle')
    BY DEF Count, U32, Byte
  <2> QED BY <2>1, ScpkStay DEF ScpkTypeOK
<1> DEFINE Kept == ScpkSeen' = ScpkSeen /\ FilledSeen' = FilledSeen /\ HeadedSeen' = HeadedSeen
<1> HIDE DEF N
<1>9. ASSUME PassMember PROVE ScpkTypeOK' /\ Kept
  <2>1. /\ scpkPc = "bundles" /\ mem \in 1 .. N /\ mem \notin Scpks /\ mem' = mem + 1
        /\ scpkPc' = "bundles" /\ ent' = ent
    BY <1>1, <1>9 DEF PassMember, Scpks, N
  <2>2. \A p \in Filled : p[1] # mem
    BY <1>3, <2>1
  <2>3. \A a \in Scpks : a # mem
    BY <2>1
  <2>4. ScpkSeen' = ScpkSeen
    <3>1. \A a \in Scpks : a < mem + 1 <=> a < mem
      BY <1>1, <1>2, <2>3
    <3> QED BY <1>5, <2>1, <3>1 DEF ScpkSeen
  <2>5. FilledSeen' = FilledSeen
    BY <1>1, <1>3, <1>6, <2>1, <2>2 DEF FilledSeen
  <2>6. HeadedSeen' = HeadedSeen
    BY <1>1, <1>3, <1>4, <1>7, <2>1, <2>2 DEF HeadedSeen
  <2>7. ScpkTypeOK'
    BY <1>1, <1>8, <2>1
  <2> QED BY <2>4, <2>5, <2>6, <2>7
<1>10. ASSUME OpenScpk
       PROVE  /\ ScpkTypeOK' /\ mem \in Scpks \ ScpkSeen /\ ScpkSeen' = ScpkSeen \cup {mem}
              /\ FilledSeen' = FilledSeen /\ HeadedSeen' = HeadedSeen
  <2>1. /\ scpkPc = "bundles" /\ mem \in 1 .. N /\ mem \in Scpks /\ mem' = mem
        /\ scpkPc' = "members" /\ ent' = 1 /\ bundle' = container[mem]
    BY <1>1, <1>10 DEF OpenScpk, Scpks, N
  <2>2. \A p \in Filled : ~(p[2] < 1)
    BY <1>3
  <2>3. mem \notin ScpkSeen /\ ScpkSeen' = ScpkSeen \cup {mem}
    BY <1>1, <1>2, <1>5, <2>1 DEF ScpkSeen
  <2>4. FilledSeen' = FilledSeen
    BY <1>6, <2>1, <2>2 DEF FilledSeen
  <2>5. HeadedSeen' = HeadedSeen
    BY <1>4, <1>7, <2>1, <2>2 DEF HeadedSeen
  <2>6. 1 <= Count(container[mem]) + 1
    BY <1>2, <2>1
  <2>7. ScpkTypeOK'
    BY <1>1, <1>8, <2>1, <2>6
  <2> QED BY <2>1, <2>3, <2>4, <2>5, <2>7
<1>11. ASSUME EmptyMember \/ RawMember \/ BlockMember
       PROVE  /\ ScpkTypeOK' /\ ScpkSeen' = ScpkSeen /\ bundle = container[mem]
              /\ scpkPc = "members" /\ mem \in Scpks /\ ent \in 1 .. Count(container[mem])
              /\ (<<mem, ent>> \in Filled <=> Size(bundle, ent) # 0)
              /\ FilledSeen' = FilledSeen \cup ({<<mem, ent>>} \cap Filled)
              /\ HeadedSeen' = HeadedSeen \cup ({<<mem, ent>>} \cap Headed)
              /\ <<mem, ent>> \notin FilledSeen /\ <<mem, ent>> \notin HeadedSeen
  <2>1. /\ scpkPc = "members" /\ ent <= Count(bundle) /\ mem' = mem /\ bundle' = bundle
        /\ scpkPc' = scpkPc /\ ent' = ent + 1
    BY <1>11 DEF EmptyMember, RawMember, BlockMember
  <2>2. mem \in Scpks /\ bundle = container[mem] /\ ent \in 1 .. Count(container[mem])
    <3>1. mem \in Scpks /\ bundle = container[mem]
      BY <2>1 DEF ScpkTypeOK
    <3> QED BY <1>1, <1>2, <2>1, <3>1
  <2>3. <<mem, ent>> \in Filled <=> Size(bundle, ent) # 0
    BY <2>2, ScpkPlaces
  <2>4. <<mem, ent>>[1] = mem /\ <<mem, ent>>[2] = ent
    OBVIOUS
  <2>5. \A p \in Filled : p[2] < ent + 1 <=> p[2] < ent \/ p[2] = ent
    BY <1>1, <1>3
  <2>6. \A p \in Filled : p[1] = mem /\ p[2] = ent => p = <<mem, ent>>
    BY <1>3
  <2>7. FilledSeen = {p \in Filled : p[1] < mem \/ (p[1] = mem /\ p[2] < ent)}
        /\ HeadedSeen = {p \in Headed : p[1] < mem \/ (p[1] = mem /\ p[2] < ent)}
    BY <2>1 DEF FilledSeen, HeadedSeen
  <2>8. FilledSeen' = {p \in Filled : p[1] < mem \/ (p[1] = mem /\ p[2] < ent + 1)}
        /\ HeadedSeen' = {p \in Headed : p[1] < mem \/ (p[1] = mem /\ p[2] < ent + 1)}
    BY <1>6, <1>7, <2>1
  <2>9. <<mem, ent>> \notin FilledSeen /\ <<mem, ent>> \notin HeadedSeen
    BY <1>1, <2>4, <2>7
  <2>10. FilledSeen' = FilledSeen \cup ({<<mem, ent>>} \cap Filled)
    BY <2>4, <2>5, <2>6, <2>7, <2>8
  <2>11. HeadedSeen' = HeadedSeen \cup ({<<mem, ent>>} \cap Headed)
    BY <1>4, <2>4, <2>5, <2>6, <2>7, <2>8
  <2>12. ScpkSeen' = ScpkSeen
    BY <1>5, <2>1 DEF ScpkSeen
  <2>13. ScpkTypeOK'
    BY <1>1, <1>2, <1>8, <2>1, <2>2
  <2> QED BY <2>1, <2>2, <2>3, <2>9, <2>10, <2>11, <2>12, <2>13
<1>12. ASSUME MembersDone PROVE ScpkTypeOK' /\ Kept
  <2>1. /\ scpkPc = "members" /\ ent > Count(bundle) /\ mem' = mem + 1 /\ bundle' = bundle
        /\ scpkPc' = "bundles" /\ ent' = ent
    BY <1>12 DEF MembersDone
  <2>2. mem \in Scpks /\ bundle = container[mem]
    BY <2>1 DEF ScpkTypeOK
  <2>3. \A p \in Filled : p[1] = mem => p[2] < ent
    BY <1>1, <1>2, <1>3, <2>1, <2>2
  <2>4. ScpkSeen' = ScpkSeen
    <3>1. \A a \in Scpks : a < mem + 1 <=> a < mem \/ a = mem
      BY <1>1, <1>2
    <3> QED BY <1>5, <2>1, <3>1 DEF ScpkSeen
  <2>5. FilledSeen' = FilledSeen
    BY <1>1, <1>3, <1>6, <2>1, <2>3 DEF FilledSeen
  <2>6. HeadedSeen' = HeadedSeen
    BY <1>1, <1>3, <1>4, <1>7, <2>1, <2>3 DEF HeadedSeen
  <2>7. ScpkTypeOK'
    BY <1>1, <1>2, <1>8, <2>1, <2>2
  <2> QED BY <2>4, <2>5, <2>6, <2>7
<1>13. ASSUME ScpkDone PROVE ScpkTypeOK' /\ Kept
  <2>1. /\ scpkPc = "bundles" /\ mem > N /\ mem' = mem /\ bundle' = bundle
        /\ scpkPc' = "reported" /\ ent' = ent
    BY <1>13 DEF ScpkDone, N
  <2>2. ScpkSeen' = ScpkSeen /\ FilledSeen' = FilledSeen /\ HeadedSeen' = HeadedSeen
    BY <1>5, <1>6, <1>7, <2>1 DEF ScpkSeen, FilledSeen, HeadedSeen
  <2>3. ScpkTypeOK'
    BY <1>1, <1>8, <2>1
  <2> QED BY <2>2, <2>3
<1>14. EmptyMember => <<mem, ent>> \notin Filled
  BY <1>11 DEF EmptyMember
<1>15. RawMember \/ BlockMember => <<mem, ent>> \in Filled
  BY <1>11 DEF RawMember, BlockMember
<1>16. ASSUME RawMember \/ BlockMember
       PROVE  <<mem, ent>> \in Headed <=> IsHead(bundle, Offset(bundle, ent))
  <2>1. <<mem, ent>>[1] = mem /\ <<mem, ent>>[2] = ent
    OBVIOUS
  <2> QED BY <1>11, <1>15, <1>16, <2>1 DEF Headed
<1>17. RawMember => <<mem, ent>> \notin Headed
  BY <1>16 DEF RawMember
<1>18. BlockMember => <<mem, ent>> \in Headed
  BY <1>16 DEF BlockMember
<1>19. EmptyMember => <<mem, ent>> \notin Headed
  BY <1>4, <1>14
<1>20. PassMember \/ OpenScpk \/ EmptyMember \/ RawMember \/ BlockMember \/ MembersDone \/ ScpkDone
  BY DEF ScpkStep
<1>21. ScpkTypeOK'
  BY <1>9, <1>10, <1>11, <1>12, <1>13, <1>20, Zenon
<1>22. EmptyMember => Kept
  <2> SUFFICES ASSUME EmptyMember PROVE Kept
    OBVIOUS
  <2>1. {<<mem, ent>>} \cap Filled = {} /\ {<<mem, ent>>} \cap Headed = {}
    BY <1>14, <1>19
  <2> QED BY <1>11, <2>1
<1>23. RawMember \/ BlockMember =>
              /\ <<mem, ent>> \in Filled \ FilledSeen /\ ScpkSeen' = ScpkSeen
              /\ FilledSeen' = FilledSeen \cup {<<mem, ent>>} /\ bundle = container[mem]
  BY <1>11, <1>15
<1>24. RawMember => HeadedSeen' = HeadedSeen
  BY <1>11, <1>17
<1>25. BlockMember => /\ <<mem, ent>> \in Headed \ HeadedSeen
                      /\ HeadedSeen' = HeadedSeen \cup {<<mem, ent>>}
  BY <1>11, <1>18
<1>26. PassMember \/ MembersDone \/ ScpkDone => Kept
  BY <1>9, <1>12, <1>13
<1> QED BY <1>10, <1>21, <1>22, <1>23, <1>24, <1>25, <1>26

LEMMA ScpkInvInit == DiscInit => ScpkTypeOK /\ ScpkInv /\ MagicInv
<1> SUFFICES ASSUME DiscInit PROVE ScpkTypeOK /\ ScpkInv /\ MagicInv
  OBVIOUS
<1>1. /\ Given /\ mem = 1 /\ ent = 1 /\ scpkPc = "bundles" /\ nb = 0 /\ totalMembers = 0
      /\ innerMagic = EmptyBag /\ comp = 0 /\ exact = 0 /\ packed = 0
  BY DEF DiscInit, BothInit, Init, ScpkInit, Given
<1>2. ScpkSeen = {} /\ FilledSeen = {} /\ HeadedSeen = {}
  <2>1. \A a \in Scpks : a \in Nat /\ ~(a < 1)
    BY <1>1, ScpkPlaces, LensAreNat
  <2>2. \A p \in Filled : p[1] \in Scpks
    BY <1>1, ScpkPlaces
  <2>3. Headed \subseteq Filled
    BY <1>1, ScpkPlaces
  <2> QED BY <1>1, <2>1, <2>2, <2>3 DEF ScpkSeen, FilledSeen, HeadedSeen
<1>3. ScpkTypeOK
  BY <1>1, LensAreNat DEF ScpkTypeOK
<1>4. /\ SumFunction([a \in {} |-> Count(container[a])]) = 0
      /\ SumFunction([p \in {} |-> Packed(Rest(p))]) = 0
  BY SumOfEmpty
<1>5. {p \in {} : DecodesWhole(p)} = {}
  OBVIOUS
<1>6. ScpkInv
  BY <1>1, <1>2, <1>4, <1>5, FS_EmptySet, Zenon DEF ScpkInv
<1>7. DOMAIN EmptyBag = {}
  BY DEF EmptyBag, SetToBag
<1>8. MagicInv
  BY <1>1, <1>2, <1>7, FS_EmptySet, SumOfEmpty DEF MagicInv
<1> QED BY <1>3, <1>6, <1>8

LEMMA SeenAreFinite ==
  ASSUME Given
  PROVE  /\ IsFiniteSet(ScpkSeen) /\ IsFiniteSet(FilledSeen) /\ IsFiniteSet(HeadedSeen)
         /\ ScpkSeen \subseteq Scpks /\ FilledSeen \subseteq Filled /\ HeadedSeen \subseteq Headed
<1>1. ScpkSeen \in SUBSET Scpks /\ FilledSeen \in SUBSET Filled /\ HeadedSeen \in SUBSET Headed
  BY DEF ScpkSeen, FilledSeen, HeadedSeen
<1> QED BY <1>1, ScpkPlaces, FS_Subset

LEMMA ScpkInvStep ==
  ASSUME Given, ScpkTypeOK, ScpkInv, MagicInv, ScpkStep, container' = container
  PROVE  ScpkInv' /\ MagicInv'
<1>1. /\ nb = Cardinality(ScpkSeen)
      /\ totalMembers = SumFunction([a \in ScpkSeen |-> Count(container[a])])
      /\ comp = Cardinality(HeadedSeen)
      /\ exact = Cardinality({p \in HeadedSeen : DecodesWhole(p)})
      /\ packed = SumFunction([p \in HeadedSeen |-> Packed(Rest(p))])
  BY Zenon DEF ScpkInv
<1>2. /\ IsFiniteSet(DOMAIN innerMagic)
      /\ \A v \in DOMAIN innerMagic : innerMagic[v] \in Nat
      /\ SumFunction(innerMagic) = Cardinality(FilledSeen)
  BY DEF MagicInv
<1>3. /\ IsFiniteSet(ScpkSeen) /\ IsFiniteSet(FilledSeen) /\ IsFiniteSet(HeadedSeen)
      /\ ScpkSeen \subseteq Scpks /\ HeadedSeen \subseteq Headed
  BY SeenAreFinite
<1>4. nb' = Cardinality(ScpkSeen') /\ totalMembers' = SumFunction([a \in ScpkSeen' |-> Count(container[a])])
  <2>1. CASE OpenScpk
    <3>1. mem \in Scpks \ ScpkSeen /\ ScpkSeen' = ScpkSeen \cup {mem}
      BY <2>1, ScpkSeenStep
    <3>2. nb' = nb + 1 /\ totalMembers' = totalMembers + Count(container[mem])
      BY <2>1 DEF OpenScpk
    <3>3. Cardinality(ScpkSeen \cup {mem}) = Cardinality(ScpkSeen) + 1
      BY <1>3, <3>1, FS_AddElement
    <3> DEFINE f == [a \in ScpkSeen |-> Count(container[a])]
               g == [a \in ScpkSeen \cup {mem} |-> Count(container[a])]
    <3>4. \A a \in Scpks : Count(container[a]) \in Nat
      BY ScpkPlaces
    <3>5. /\ DOMAIN f = ScpkSeen /\ DOMAIN g = ScpkSeen \cup {mem}
          /\ g[mem] = Count(container[mem]) /\ g[mem] \in Nat
          /\ \A a \in ScpkSeen : g[a] = f[a] /\ f[a] \in Nat
      BY <1>3, <3>1, <3>4
    <3> HIDE DEF f, g
    <3>6. SumFunction(g) = SumFunction(f) + g[mem]
      BY <1>3, <3>1, <3>5, SumGrows
    <3>7. totalMembers' = SumFunction(g)
      BY <1>1, <3>2, <3>5, <3>6, Zenon DEF f
    <3> QED BY <1>1, <3>1, <3>2, <3>3, <3>7 DEF g
  <2>2. CASE ~OpenScpk
    <3>1. ScpkSeen' = ScpkSeen
      BY <2>2, ScpkSeenStep, Zenon DEF ScpkStep
    <3>2. nb' = nb /\ totalMembers' = totalMembers
      BY <2>2 DEF ScpkStep, PassMember, EmptyMember, RawMember, BlockMember, MembersDone, ScpkDone
    <3> QED BY <1>1, <3>1, <3>2, Zenon
  <2> QED BY <2>1, <2>2
<1>5. /\ comp' = Cardinality(HeadedSeen')
      /\ exact' = Cardinality({p \in HeadedSeen' : DecodesWhole(p)})
      /\ packed' = SumFunction([p \in HeadedSeen' |-> Packed(Rest(p))])
  <2>1. CASE BlockMember
    <3> DEFINE w == <<mem, ent>>
               h == HeadBlock(bundle, Offset(bundle, ent))
    <3>1. /\ w \in Headed \ HeadedSeen /\ HeadedSeen' = HeadedSeen \cup {w}
          /\ bundle = container[mem]
      BY <2>1, ScpkSeenStep
    <3>2. w[1] = mem /\ w[2] = ent
      OBVIOUS
    <3>3. /\ ~Raises(h) /\ Packed(h) = Packed(Rest(w)) /\ Packed(Rest(w)) \in Nat
          /\ Unpack(h).len = Unpack(Rest(w)).len /\ Unpacked(h) = Unpacked(Rest(w))
      BY <3>1, <3>2, HeadedPlaces
    <3>4. /\ comp' = comp + 1 /\ packed' = packed + Packed(h)
          /\ exact' = IF Unpack(h).len = Unpacked(h) THEN exact + 1 ELSE exact
      <4>1. ~Raises(HeadBlock(bundle, Offset(bundle, ent)))
        BY <3>3
      <4> QED BY <2>1, <4>1, Zenon DEF BlockMember
    <3> HIDE DEF w, h
    <3>5. comp' = Cardinality(HeadedSeen')
      BY <1>1, <1>3, <3>1, <3>4, FS_AddElement
    <3>6. exact' = Cardinality({p \in HeadedSeen' : DecodesWhole(p)})
      <4> DEFINE f == [p \in HeadedSeen \cup {w} |-> DecodesWhole(p)]
                 A == {p \in HeadedSeen : DecodesWhole(p)}
                 C == {p \in HeadedSeen \cup {w} : DecodesWhole(p)}
      <4>1. A = {p \in HeadedSeen : f[p]} /\ C = {p \in HeadedSeen \cup {w} : f[p]}
            /\ (f[w] <=> Unpack(h).len = Unpacked(h))
        BY <3>3 DEF DecodesWhole
      <4>2. exact = Cardinality(A)
        BY <1>1
      <4> HIDE DEF f, A, C
      <4>3. CASE Unpack(h).len = Unpacked(h)
        <5>1. C = A \cup {w} /\ w \notin A /\ A \in SUBSET HeadedSeen
          BY <3>1, <4>1, <4>3
        <5>2. Cardinality(C) = Cardinality(A) + 1
          <6>1. IsFiniteSet(A)
            BY <1>3, <5>1, FS_Subset
          <6> QED BY <5>1, <6>1, FS_AddElement
        <5> QED BY <3>1, <3>4, <4>2, <4>3, <5>2 DEF C
      <4>4. CASE Unpack(h).len # Unpacked(h)
        <5>1. C = A
          BY <3>1, <4>1, <4>4
        <5> QED BY <3>1, <3>4, <4>2, <4>4, <5>1 DEF C
      <4> QED BY <4>3, <4>4
    <3>7. packed' = SumFunction([p \in HeadedSeen' |-> Packed(Rest(p))])
      <4> DEFINE f == [p \in HeadedSeen |-> Packed(Rest(p))]
                 g == [p \in HeadedSeen \cup {w} |-> Packed(Rest(p))]
      <4>1. \A p \in Headed : Packed(Rest(p)) \in Nat
        BY HeadedPlaces
      <4>2. /\ DOMAIN f = HeadedSeen /\ DOMAIN g = HeadedSeen \cup {w}
            /\ g[w] = Packed(Rest(w)) /\ g[w] \in Nat
            /\ \A p \in HeadedSeen : g[p] = f[p] /\ f[p] \in Nat
        BY <1>3, <3>1, <4>1
      <4> HIDE DEF f, g
      <4>3. SumFunction(g) = SumFunction(f) + g[w]
        BY <1>3, <3>1, <4>2, SumGrows
      <4>4. packed' = SumFunction(g)
        BY <1>1, <3>3, <3>4, <4>2, <4>3, Zenon DEF f
      <4> QED BY <3>1, <4>4 DEF g
    <3> QED BY <3>5, <3>6, <3>7
  <2>2. CASE ~BlockMember
    <3>1. HeadedSeen' = HeadedSeen
      BY <2>2, ScpkSeenStep, Zenon DEF ScpkStep
    <3>2. comp' = comp /\ exact' = exact /\ packed' = packed
      BY <2>2 DEF ScpkStep, PassMember, OpenScpk, EmptyMember, RawMember, MembersDone, ScpkDone
    <3> QED BY <1>1, <3>1, <3>2, Zenon
  <2> QED BY <2>1, <2>2
<1>6. /\ IsFiniteSet(DOMAIN innerMagic')
      /\ \A v \in DOMAIN innerMagic' : innerMagic'[v] \in Nat
      /\ SumFunction(innerMagic') = Cardinality(FilledSeen')
  <2>1. CASE RawMember \/ BlockMember
    <3>1. /\ <<mem, ent>> \in Filled \ FilledSeen
          /\ FilledSeen' = FilledSeen \cup {<<mem, ent>>}
      BY <2>1, ScpkSeenStep
    <3>2. \E v : innerMagic' = innerMagic (+) SetToBag({v})
      <4>1. CASE RawMember
        BY <4>1 DEF RawMember
      <4>2. CASE BlockMember
        <5>1. /\ <<mem, ent>> \in Headed /\ bundle = container[mem]
              /\ <<mem, ent>>[1] = mem /\ <<mem, ent>>[2] = ent
          BY <4>2, ScpkSeenStep
        <5>2. ~Raises(HeadBlock(bundle, Offset(bundle, ent)))
          BY <5>1, HeadedPlaces
        <5> QED BY <4>2, <5>2, Zenon DEF BlockMember
      <4> QED BY <2>1, <4>1, <4>2
    <3>3. PICK v : innerMagic' = innerMagic (+) SetToBag({v})
      BY <3>2
    <3> DEFINE C == innerMagic (+) SetToBag({v})
    <3>4. /\ IsFiniteSet(DOMAIN C) /\ \A e \in DOMAIN C : C[e] \in Nat
          /\ SumFunction(C) = SumFunction(innerMagic) + 1
      BY <1>2, BagGrows
    <3>5. Cardinality(FilledSeen') = Cardinality(FilledSeen) + 1
      BY <1>3, <3>1, FS_AddElement
    <3> HIDE DEF C
    <3>6. innerMagic' = C
      BY <3>3 DEF C
    <3> QED BY <1>2, <3>4, <3>5, <3>6
  <2>2. CASE ~(RawMember \/ BlockMember)
    <3>1. FilledSeen' = FilledSeen
      BY <2>2, ScpkSeenStep, Zenon DEF ScpkStep
    <3>2. innerMagic' = innerMagic
      BY <2>2 DEF ScpkStep, PassMember, OpenScpk, EmptyMember, MembersDone, ScpkDone
    <3> QED BY <1>2, <3>1, <3>2
  <2> QED BY <2>1, <2>2
<1>7. \A x : /\ Count(container[x])' = Count(container[x]) /\ Rest(x)' = Rest(x)
             /\ DecodesWhole(x)' = DecodesWhole(x)
  BY ScpkStay
<1>8. SumFunction([a \in ScpkSeen |-> Count(container[a])])'
        = SumFunction([a \in ScpkSeen' |-> Count(container[a])])
  BY Zenon
<1>9. SumFunction([p \in HeadedSeen |-> Packed(Rest(p))])'
        = SumFunction([p \in HeadedSeen' |-> Packed(Rest(p))])
  <2>1. \A x : Packed(Rest(x))' = Packed(Rest(x))
    BY <1>7, Zenon
  <2> QED BY <2>1, Zenon
<1>10. {p \in HeadedSeen : DecodesWhole(p)}' = {p \in HeadedSeen' : DecodesWhole(p)}
  BY <1>7
<1>11. ScpkInv'
  BY <1>4, <1>5, <1>8, <1>9, <1>10, Zenon DEF ScpkInv
<1>12. MagicInv'
  BY <1>6 DEF MagicInv
<1> QED BY <1>11, <1>12

ScpkAll == ScpkTypeOK /\ ScpkInv /\ MagicInv

LEMMA TypeAlways == DiscSpec => []TypeInv
BY DiscIsSpec, TypeInit, TypeStep, PTL DEF Spec

LEMMA ContainerStays == [DiscNext]_allVars => container' = container /\ nested' = nested
BY DEF DiscNext, DiscDone, allVars, vars, Codec, BinStep, BinOther, BinBlock, CountKind

LEMMA ScpkAlways == DiscSpec => []ScpkAll
<1>1. TypeInv /\ ScpkAll /\ [DiscNext]_allVars => ScpkAll'
  <2> SUFFICES ASSUME TypeInv, ScpkAll, [DiscNext]_allVars PROVE ScpkAll'
    OBVIOUS
  <2>1. Given /\ container' = container /\ nested' = nested
    BY ContainerStays DEF TypeInv
  <2>2. CASE ScpkStep
    BY <2>1, <2>2, ScpkSeenStep, ScpkInvStep DEF ScpkAll
  <2>3. CASE UNCHANGED scpkVars
    <3>1. /\ mem' = mem /\ bundle' = bundle /\ ent' = ent /\ nb' = nb /\ totalMembers' = totalMembers
          /\ innerMagic' = innerMagic /\ comp' = comp /\ exact' = exact /\ packed' = packed
          /\ scpkPc' = scpkPc
      BY <2>3 DEF scpkVars
    <3>2. ScpkSeen' = ScpkSeen /\ FilledSeen' = FilledSeen /\ HeadedSeen' = HeadedSeen
      BY <2>1, <3>1, ScpkStay DEF ScpkSeen, FilledSeen, HeadedSeen
    <3>3. ScpkTypeOK'
      BY <2>1, <3>1, ScpkStay DEF ScpkAll, ScpkTypeOK, Count, U32, Byte
    <3>4. \A x : /\ Count(container[x])' = Count(container[x]) /\ Rest(x)' = Rest(x)
                 /\ DecodesWhole(x)' = DecodesWhole(x) /\ Packed(Rest(x))' = Packed(Rest(x))
      BY <2>1, ScpkStay DEF Packed
    <3>5. SumFunction([a \in ScpkSeen |-> Count(container[a])])'
            = SumFunction([a \in ScpkSeen |-> Count(container[a])])
      BY <3>2, <3>4, Zenon
    <3>6. SumFunction([p \in HeadedSeen |-> Packed(Rest(p))])'
            = SumFunction([p \in HeadedSeen |-> Packed(Rest(p))])
      BY <3>2, <3>4, Zenon
    <3>7. {p \in HeadedSeen : DecodesWhole(p)}' = {p \in HeadedSeen : DecodesWhole(p)}
      BY <3>2, <3>4
    <3>8. ScpkInv'
      BY <3>1, <3>2, <3>5, <3>6, <3>7, Zenon DEF ScpkAll, ScpkInv
    <3>9. MagicInv'
      BY <3>1, <3>2 DEF ScpkAll, MagicInv
    <3> QED BY <3>3, <3>8, <3>9 DEF ScpkAll
  <2> QED BY <2>2, <2>3 DEF DiscNext, DiscDone, allVars
<1>2. DiscInit => ScpkAll
  BY ScpkInvInit DEF ScpkAll
<1> QED BY <1>1, <1>2, TypeAlways, PTL DEF DiscSpec

\* When the census reports, it has passed everything.
LEMMA AllSeen ==
  ASSUME Given, ScpkTypeOK, scpkPc = "reported"
  PROVE  ScpkSeen = Scpks /\ FilledSeen = Filled /\ HeadedSeen = Headed
<1>1. \A a \in Scpks : a < mem
  <2>1. mem \in Nat /\ Len(container) \in Nat /\ mem > Len(container)
    BY LensAreNat DEF ScpkTypeOK
  <2>2. \A a \in Scpks : a \in 1 .. Len(container)
    BY ScpkPlaces
  <2> QED BY <2>1, <2>2
<1>2. \A p \in Filled : p[1] < mem
  BY <1>1, ScpkPlaces
<1>3. Headed \subseteq Filled
  BY ScpkPlaces
<1> QED BY <1>1, <1>2, <1>3 DEF ScpkSeen, FilledSeen, HeadedSeen

\* For every container and whatever the streams decode to: the report on SCPK
\* bundles counts each of them, each block in them by what it decodes to when it
\* is read from the bundle as it stands, and each other member, exactly once.
THEOREM ScpkIsCounted == DiscSpec => []ScpkCounted
<1>1. TypeInv /\ ScpkAll /\ comp = exact + mismatch => ScpkCounted
  <2> SUFFICES ASSUME TypeInv, ScpkAll, comp = exact + mismatch, scpkPc = "reported"
               PROVE  /\ nb = Cardinality(Scpks)
                      /\ totalMembers = SumFunction([a \in Scpks |-> Count(container[a])])
                      /\ comp = Cardinality(Headed)
                      /\ exact = Cardinality({p \in Headed : Unpack(Rest(p)).len = Unpacked(Rest(p))})
                      /\ exact + mismatch = comp
                      /\ packed = SumFunction([p \in Headed |-> Packed(Rest(p))])
                      /\ SumFunction(innerMagic) = Cardinality(Filled)
    BY Zenon DEF ScpkCounted
  <2>1. ScpkSeen = Scpks /\ FilledSeen = Filled /\ HeadedSeen = Headed
    BY AllSeen DEF ScpkAll, TypeInv
  <2>2. {p \in Headed : DecodesWhole(p)} = {p \in Headed : Unpack(Rest(p)).len = Unpacked(Rest(p))}
    BY DEF DecodesWhole
  <2> QED BY <2>1, <2>2, Zenon DEF ScpkAll, ScpkInv, MagicInv
<1> QED BY <1>1, ScpkAlways, VerdictsAddUp, TypeAlways, PTL

-----------------------------------------------------------------------------
(* No member is in two of the sums                                         *)

LEMMA OpenedStep ==
  ASSUME TypeInv, OpenedInv, CensusStep, UNCHANGED <<container, nested>>
  PROVE  OpenedInv'
<1>1. /\ Given /\ i \in 1 .. Len(container) + 1 /\ i \in Nat /\ Len(container) \in Nat
      /\ pc \in {"members", "parts", "reported"} /\ bundles = Cardinality(OpenedSeen)
      /\ \A a \in 1 .. Len(container) : IsBuffer(container[a])
  <2>1. Given /\ CensusTypeOK
    BY DEF TypeInv, TypeOK
  <2> QED BY <2>1, LensAreNat DEF CensusTypeOK, OpenedInv
<1>2. BundleMembers \subseteq 1 .. Len(container) /\ BundleMembers' = BundleMembers
  BY DEF BundleMembers
<1>3. OpenedSeen' = {a \in BundleMembers : a < i' \/ (a = i' /\ pc' = "parts")}
  BY <1>2 DEF OpenedSeen
<1>4. IsFiniteSet(OpenedSeen)
  <2>1. IsFiniteSet(1 .. Len(container))
    BY <1>1, FS_Interval
  <2>2. OpenedSeen \in SUBSET (1 .. Len(container))
    BY <1>2 DEF OpenedSeen
  <2> QED BY <2>1, <2>2, FS_Subset
<1>5. \A a \in BundleMembers : a < i + 1 <=> a < i \/ a = i
  BY <1>1, <1>2
<1>6. CASE OpenBundle
  <2>1. /\ i \in BundleMembers /\ i' = i /\ pc = "members" /\ pc' = "parts"
        /\ bundles' = bundles + 1
    BY <1>1, <1>6 DEF OpenBundle, BundleMembers
  <2>2. i \notin OpenedSeen /\ OpenedSeen' = OpenedSeen \cup {i}
    BY <1>1, <1>3, <2>1 DEF OpenedSeen
  <2>3. Cardinality(OpenedSeen') = Cardinality(OpenedSeen) + 1
    BY <1>4, <2>2, FS_AddElement
  <2> QED BY <1>1, <2>1, <2>3 DEF OpenedInv
<1>7. CASE SkipMember \/ PassRaw \/ CountBlock \/ CountArchive
  <2>1. /\ i \in 1 .. Len(container) /\ pc = "members" /\ bundles' = bundles
        /\ (i' = i + 1 /\ pc' = "members") \/ (i' = i /\ pc' = "parts")
    BY <1>1, <1>7 DEF SkipMember, PassRaw, CountBlock, CountArchive
  <2>2. i \notin BundleMembers
    <3>1. CASE SkipMember
      <4>1. container[i].len \in Nat /\ container[i].len < 16
        BY <1>1, <2>1, <3>1 DEF SkipMember, IsBuffer
      <4>2. ~(container[i].len >= 264)
        BY <4>1
      <4> QED BY <4>2, Zenon DEF BundleMembers, IsBundle
    <3>2. CASE PassRaw
      BY <3>2, Zenon DEF BundleMembers, PassRaw
    <3>3. CASE CountBlock \/ CountArchive
      BY <3>3, Zenon DEF BundleMembers, CountBlock, CountArchive
    <3> QED BY <1>7, <3>1, <3>2, <3>3
  <2>3. OpenedSeen' = OpenedSeen
    <3>1. OpenedSeen = {a \in BundleMembers : a < i}
      BY <2>1 DEF OpenedSeen
    <3>2. OpenedSeen' = {a \in BundleMembers : a < i \/ a = i}
      BY <1>3, <1>5, <2>1
    <3> QED BY <2>2, <3>1, <3>2
  <2> QED BY <1>1, <2>1, <2>3 DEF OpenedInv
<1>8. CASE SkipPart \/ CountPart \/ CensusDone
  <2>1. /\ i' = i /\ bundles' = bundles /\ (pc' = "parts" <=> pc = "parts")
    BY <1>8 DEF SkipPart, CountPart, CensusDone
  <2>2. OpenedSeen' = OpenedSeen
    BY <1>3, <2>1 DEF OpenedSeen
  <2> QED BY <1>1, <2>1, <2>2 DEF OpenedInv
<1>9. CASE PartsDone
  <2>1. i' = i + 1 /\ pc = "parts" /\ pc' = "members" /\ bundles' = bundles
    BY <1>9 DEF PartsDone
  <2>2. OpenedSeen' = OpenedSeen
    BY <1>3, <1>5, <2>1 DEF OpenedSeen
  <2> QED BY <1>1, <2>1, <2>2 DEF OpenedInv
<1> QED BY <1>6, <1>7, <1>8, <1>9 DEF CensusStep

LEMMA OpenedAlways == DiscSpec => []OpenedInv
<1>1. DiscInit => OpenedInv
  <2> SUFFICES ASSUME DiscInit PROVE OpenedInv
    OBVIOUS
  <2>1. Given /\ i = 1 /\ pc = "members" /\ bundles = 0
    BY DEF DiscInit, BothInit, Init, Given
  <2>2. OpenedSeen = {}
    <3>1. \A a \in 1 .. Len(container) : ~(a < 1)
      BY <2>1, LensAreNat
    <3> QED BY <2>1, <3>1 DEF OpenedSeen, BundleMembers
  <2> QED BY <2>1, <2>2, FS_EmptySet DEF OpenedInv
<1>2. TypeInv /\ OpenedInv /\ [DiscNext]_allVars => OpenedInv'
  <2> SUFFICES ASSUME TypeInv, OpenedInv, [DiscNext]_allVars PROVE OpenedInv'
    OBVIOUS
  <2>1. container' = container /\ nested' = nested
    BY ContainerStays
  <2>2. CASE Codec
    BY <2>1, <2>2, OpenedStep DEF Codec
  <2>3. CASE UNCHANGED <<i, pc, bundles>>
    BY <2>1, <2>3 DEF OpenedInv, OpenedSeen, BundleMembers
  <2> QED BY <2>2, <2>3 DEF DiscNext, DiscDone, allVars, vars, censusVars, BinStep, BinOther,
                            BinBlock, CountKind
<1> QED BY <1>1, <1>2, TypeAlways, PTL DEF DiscSpec

LEMMA CensusAlways == DiscSpec => [](CensusInv /\ BinInv)
BY DiscIsSpec, CensusInvAlways, BinInvAlways, PTL

\* As many blocks as the tally has of the three methods together.
LEMMA MethodsAddUp ==
  ASSUME Given, NEW t \in Tallies, Tallied(t, TopBlocks)
  PROVE  /\ t.methods[0] + t.methods[1] + t.methods[3]
              = Cardinality({a \in 1 .. Len(container) : IsBlockPart(container[a])})
         /\ IsFiniteSet({a \in 1 .. Len(container) : IsBlockPart(container[a])})
<1> DEFINE M(m) == {p \in TopBlocks : Method(At(p)) = m}
           A == {a \in 1 .. Len(container) : IsBlockPart(container[a])}
<1>1. IsFiniteSet(TopBlocks)
  BY TopPlaces
<1>2. \A m : M(m) \in SUBSET TopBlocks
  OBVIOUS
<1>3. /\ IsFiniteSet(M(0)) /\ IsFiniteSet(M(1)) /\ IsFiniteSet(M(3))
      /\ Cardinality(M(0)) \in Nat /\ Cardinality(M(1)) \in Nat /\ Cardinality(M(3)) \in Nat
  BY <1>1, <1>2, FS_Subset, FS_CardinalityType
<1>4. TopBlocks = M(0) \cup M(1) \cup M(3)
  <2>1. \A p \in TopBlocks : Method(At(p)) \in {0, 1, 3}
    BY Zenon DEF TopBlocks, IsBlockPart, IsBlock, Known
  <2> QED BY <2>1
<1>5. M(0) \cap M(1) = {} /\ (M(0) \cup M(1)) \cap M(3) = {}
  OBVIOUS
<1>6. t.methods[0] = Cardinality(M(0)) /\ t.methods[1] = Cardinality(M(1))
      /\ t.methods[3] = Cardinality(M(3))
  BY Zenon DEF Tallied, Known
<1> HIDE DEF M
<1>7. IsFiniteSet(M(0) \cup M(1))
      /\ Cardinality(M(0) \cup M(1)) = Cardinality(M(0)) + Cardinality(M(1)) - Cardinality({})
  BY <1>3, <1>5, FS_Union
<1>8. Cardinality(M(0) \cup M(1) \cup M(3))
        = Cardinality(M(0) \cup M(1)) + Cardinality(M(3)) - Cardinality({})
  BY <1>3, <1>5, <1>7, FS_Union
<1>9. Cardinality(TopBlocks) = t.methods[0] + t.methods[1] + t.methods[3]
  BY <1>3, <1>4, <1>6, <1>7, <1>8, FS_EmptySet
<1>10. A \in SUBSET (1 .. Len(container)) /\ IsFiniteSet(1 .. Len(container))
  BY LensAreNat, FS_Interval
<1>11. IsFiniteSet(A)
  BY <1>10, FS_Subset
<1>12. Cardinality(TopBlocks) = Cardinality(A)
  <2> DEFINE f == [a \in A |-> <<a>>]
  <2>1. DOMAIN f = A /\ \A x, y \in DOMAIN f : f[x] = f[y] => x = y
    <3>1. \A x, y \in A : <<x>> = <<y>> => x = y
      OBVIOUS
    <3> QED BY <3>1
  <2>2. TopBlocks = {f[a] : a \in DOMAIN f}
    <3>1. \A p : p \in TopBlocks <=> \E a \in A : p = <<a>>
      BY TopPlaces
    <3> HIDE DEF A
    <3> QED BY <3>1
  <2> HIDE DEF f, A
  <2>3. Cardinality({f[a] : a \in DOMAIN f}) = Cardinality(DOMAIN f)
    BY <1>11, <2>1, ImageIsFinite
  <2> QED BY <2>1, <2>2, <2>3
<1> QED BY <1>9, <1>11, <1>12

\* For every container and every order of the three tools' steps, no member of it
\* is in two of the sums the docs add up, and none that any of the tools takes for
\* its own is in none.
THEOREM PopulationsAreDisjoint == DiscSpec => []PopulationsDisjoint
<1>1. TypeInv /\ CensusInv /\ OpenedInv /\ ScpkAll => PopulationsDisjoint
  <2> SUFFICES ASSUME TypeInv, CensusInv, OpenedInv, ScpkAll, pc = "reported",
                      scpkPc = "reported", nested
               PROVE  nb + bundles + top.methods[0] + top.methods[1] + top.methods[3] =
                        Cardinality(Scpks \cup {a \in 1 .. Len(container) :
                                                  \/ IsBlockPart(container[a])
                                                  \/ IsBundle(container[a])})
    BY DEF PopulationsDisjoint
  <2> DEFINE D == 1 .. Len(container)
             A == {a \in D : IsBlockPart(container[a])}
             B == BundleMembers
             U == {a \in D : IsBlockPart(container[a]) \/ IsBundle(container[a])}
  <2>1. /\ Given /\ i > Len(container) /\ i \in Nat /\ Len(container) \in Nat /\ top \in Tallies
        /\ \A a \in D : IsBuffer(container[a])
    <3>1. Given /\ i \in 1 .. Len(container) + 1 /\ top \in Tallies
      BY DEF TypeInv, TypeOK, CensusTypeOK
    <3> QED BY <3>1, LensAreNat DEF CensusInv, OpenInv
  <2>2. TopSeen = TopBlocks
    <3>1. \A p \in TopBlocks : p[1] < i
      BY <2>1, TopPlaces
    <3> QED BY <3>1 DEF TopSeen
  <2>3. /\ top.methods[0] + top.methods[1] + top.methods[3] = Cardinality(A)
        /\ IsFiniteSet(A) /\ Cardinality(A) \in Nat
    <3>1. Tallied(top, TopBlocks)
      BY <2>2 DEF CensusInv, TalliesInv
    <3> QED BY <2>1, <3>1, MethodsAddUp, FS_CardinalityType
  <2>4. bundles = Cardinality(B) /\ IsFiniteSet(B) /\ Cardinality(B) \in Nat
    <3>1. \A a \in B : a < i
      BY <2>1 DEF BundleMembers
    <3>2. OpenedSeen = B
      BY <3>1 DEF OpenedSeen
    <3>3. IsFiniteSet(D) /\ B \in SUBSET D
      BY <2>1, FS_Interval DEF BundleMembers
    <3> QED BY <3>2, <3>3, FS_Subset, FS_CardinalityType DEF OpenedInv
  <2>5. nb = Cardinality(Scpks) /\ IsFiniteSet(Scpks) /\ Cardinality(Scpks) \in Nat
    <3>1. ScpkSeen = Scpks
      BY <2>1, AllSeen DEF ScpkAll
    <3> QED BY <2>1, <3>1, ScpkPlaces, FS_CardinalityType DEF ScpkAll, ScpkInv
  <2>6. U = A \cup B /\ A \cap B = {}
    <3>1. \A a \in D : IsBundle(container[a]) /\ IsBlock(container[a]) => IsBlockPart(container[a])
      <4> SUFFICES ASSUME NEW a \in D, IsBundle(container[a]), IsBlock(container[a])
                   PROVE  IsBlockPart(container[a])
        OBVIOUS
      <4>1. container[a].len \in Nat /\ container[a].len >= 264
        BY <2>1, Zenon DEF IsBundle, IsBuffer
      <4>2. container[a].len >= 16
        BY <4>1
      <4> QED BY <4>2 DEF IsBlockPart
    <3>2. \A a \in D : a \in B <=> IsBundle(container[a]) /\ ~IsBlock(container[a])
      BY DEF BundleMembers
    <3>3. B \subseteq D
      BY DEF BundleMembers
    <3>4. \A a \in D : IsBlockPart(container[a]) => IsBlock(container[a])
      BY DEF IsBlockPart
    <3> HIDE DEF B, D
    <3> QED BY <3>1, <3>2, <3>3, <3>4
  <2>7. Scpks \cap (A \cup B) = {}
    <3>1. \A a \in Scpks : ~IsBlock(container[a]) /\ ~IsBundle(container[a])
      BY <2>1, ScpkPlaces, ScpkIsNoOther DEF Scpks
    <3>2. \A a \in A \cup B : IsBlock(container[a]) \/ IsBundle(container[a])
      BY DEF BundleMembers, IsBlockPart
    <3> HIDE DEF A, B
    <3> QED BY <3>1, <3>2
  <2> HIDE DEF A, B, U, D
  <2>8. /\ Cardinality(A \cup B) = Cardinality(A) + Cardinality(B) - Cardinality({})
        /\ IsFiniteSet(A \cup B)
    <3>1. /\ Cardinality(A \cup B) = Cardinality(A) + Cardinality(B) - Cardinality(A \cap B)
          /\ IsFiniteSet(A \cup B)
      BY <2>3, <2>4, FS_Union
    <3>2. A \cap B = {}
      BY <2>6
    <3> QED BY <3>1, <3>2, Zenon
  <2>9. Cardinality(Scpks \cup (A \cup B))
          = Cardinality(Scpks) + Cardinality(A \cup B) - Cardinality({})
    BY <2>5, <2>7, <2>8, FS_Union
  <2>10. Cardinality(Scpks \cup U) = nb + bundles + Cardinality(A)
    BY <2>3, <2>4, <2>5, <2>6, <2>8, <2>9, FS_EmptySet
  <2>11. /\ top.methods[0] \in Nat /\ top.methods[1] \in Nat /\ top.methods[3] \in Nat
         /\ nb \in Nat /\ bundles \in Nat
    BY <2>1, <2>4, <2>5 DEF Tallies, Known
  <2>12. nb + bundles + top.methods[0] + top.methods[1] + top.methods[3] = Cardinality(Scpks \cup U)
    BY <2>3, <2>10, <2>11
  <2> QED BY <2>12 DEF U, D
<1> QED BY <1>1, CensusAlways, OpenedAlways, ScpkAlways, TypeAlways, PTL

-----------------------------------------------------------------------------
(* Copies                                                                  *)

\* The members of bundles that have been looked at for copies.
DupesSeen == {p \in Filled : p[1] < dm \/ (p[1] = dm /\ p[2] < de)}

DupesTypeOK ==
  /\ dm \in 1 .. Len(container) + 1
  /\ de \in Nat \ {0}
  /\ dm \notin Scpks => de = 1

\* The bytes of each content taken once.
Contents == SumFunction([c \in DOMAIN seen |-> c.len])

\* Where the bundles hold what their tables declare, what is stored is what is
\* copied and each content once.
CopiesInv ==
  (\A p \in Filled : Within(p)) =>
    /\ DOMAIN bytesByHash = DOMAIN seen
    /\ \A c \in DOMAIN seen : c.len \in Nat /\ bytesByHash[c] = c.len
    /\ stored = CopiedBytes + Contents

DupesInv ==
  /\ IsFiniteSet(DOMAIN seen)
  /\ \A c \in DOMAIN seen : seen[c] \in Nat \ {0}
  /\ SumFunction(seen) = Cardinality(DupesSeen)
  /\ CopiesInv

LEMMA DupesStay ==
  ASSUME container' = container
  PROVE  /\ DupesSeen' = {p \in Filled : p[1] < dm' \/ (p[1] = dm' /\ p[2] < de')}
         /\ ((\A p \in Filled : Within(p))' <=> \A p \in Filled : Within(p))
<1>1. \A p : Within(p)' = Within(p)
  BY DEF Within
<1>2. Filled' = Filled
  BY ScpkStay
<1> QED BY <1>1, <1>2 DEF DupesSeen

\* What a step of the search for copies has passed.
LEMMA DupesSeenStep ==
  ASSUME Given, DupesTypeOK, DupesStep, container' = container
  PROVE  /\ DupesTypeOK'
         /\ ~DupesMember => DupesSeen' = DupesSeen
         /\ DupesMember => /\ <<dm, de>> \in Filled \ DupesSeen
                           /\ DupesSeen' = DupesSeen \cup {<<dm, de>>}
<1> DEFINE N == Len(container)
<1>1. N \in Nat /\ dm \in 1 .. N + 1 /\ dm \in Nat /\ de \in Nat /\ de >= 1
  BY LensAreNat DEF DupesTypeOK
<1>2. Scpks \subseteq 1 .. N /\ \A a \in Scpks : Count(container[a]) \in Nat
  BY ScpkPlaces
<1>3. \A p \in Filled : /\ p[1] \in 1 .. N /\ p[1] \in Scpks /\ p = <<p[1], p[2]>>
                        /\ p[2] \in 1 .. Count(container[p[1]]) /\ p[2] \in Nat
  BY <1>2, ScpkPlaces
<1>4. DupesSeen' = {p \in Filled : p[1] < dm' \/ (p[1] = dm' /\ p[2] < de')}
  BY DupesStay
<1>5. DupesTypeOK' <=>
        dm' \in 1 .. N + 1 /\ de' \in Nat \ {0} /\ (dm' \notin Scpks => de' = 1)
  BY ScpkStay DEF DupesTypeOK
<1>6. InBundle <=> dm \in Scpks
  BY <1>1, <1>2 DEF InBundle, Scpks
<1> HIDE DEF N
<1>7. ASSUME DupesPass PROVE DupesTypeOK' /\ DupesSeen' = DupesSeen
  <2>1. dm \in 1 .. N /\ dm \notin Scpks /\ dm' = dm + 1 /\ de' = de
    BY <1>1, <1>6, <1>7 DEF DupesPass, N
  <2>2. de = 1
    BY <2>1 DEF DupesTypeOK
  <2>3. \A p \in Filled : p[1] # dm /\ ~(p[2] < de)
    BY <1>3, <2>1, <2>2
  <2>4. DupesSeen' = DupesSeen
    BY <1>1, <1>3, <1>4, <2>1, <2>3 DEF DupesSeen
  <2> QED BY <1>1, <1>5, <2>1, <2>2, <2>4
<1>8. ASSUME DupesEmpty \/ DupesMember
      PROVE  /\ DupesTypeOK' /\ dm \in Scpks /\ de \in 1 .. Count(container[dm])
             /\ (<<dm, de>> \in Filled <=> Size(container[dm], de) # 0)
             /\ DupesSeen' = DupesSeen \cup ({<<dm, de>>} \cap Filled)
             /\ <<dm, de>> \notin DupesSeen
  <2>1. dm \in Scpks /\ de <= Count(container[dm]) /\ dm' = dm /\ de' = de + 1
    BY <1>6, <1>8 DEF DupesEmpty, DupesMember
  <2>2. de \in 1 .. Count(container[dm])
    BY <1>1, <1>2, <2>1
  <2>3. <<dm, de>> \in Filled <=> Size(container[dm], de) # 0
    BY <2>1, <2>2, ScpkPlaces
  <2>4. <<dm, de>>[1] = dm /\ <<dm, de>>[2] = de
    OBVIOUS
  <2>5. \A p \in Filled : p[2] < de + 1 <=> p[2] < de \/ p[2] = de
    BY <1>1, <1>3
  <2>6. \A p \in Filled : p[1] = dm /\ p[2] = de => p = <<dm, de>>
    BY <1>3
  <2>7. <<dm, de>> \notin DupesSeen
    BY <1>1, <2>4 DEF DupesSeen
  <2>8. DupesSeen' = {p \in Filled : p[1] < dm \/ (p[1] = dm /\ p[2] < de + 1)}
    BY <1>4, <2>1
  <2>9. DupesSeen' = DupesSeen \cup ({<<dm, de>>} \cap Filled)
    BY <2>4, <2>5, <2>6, <2>8 DEF DupesSeen
  <2>10. DupesTypeOK'
    BY <1>1, <1>5, <2>1
  <2> QED BY <2>1, <2>2, <2>3, <2>7, <2>9, <2>10
<1>9. ASSUME DupesNext PROVE DupesTypeOK' /\ DupesSeen' = DupesSeen
  <2>1. dm \in Scpks /\ de > Count(container[dm]) /\ dm' = dm + 1 /\ de' = 1
    BY <1>6, <1>9 DEF DupesNext
  <2>2. \A p \in Filled : p[1] = dm => p[2] < de
    BY <1>1, <1>2, <1>3, <2>1
  <2>3. \A p \in Filled : ~(p[2] < 1)
    BY <1>3
  <2>4. DupesSeen' = DupesSeen
    BY <1>1, <1>3, <1>4, <2>1, <2>2, <2>3 DEF DupesSeen
  <2>5. dm \in 1 .. N
    BY <1>2, <2>1
  <2> QED BY <1>1, <1>5, <2>1, <2>4, <2>5
<1>10. DupesEmpty => <<dm, de>> \notin Filled
  BY <1>8 DEF DupesEmpty
<1>11. DupesMember => <<dm, de>> \in Filled
  BY <1>8 DEF DupesMember
<1>12. DupesEmpty => DupesSeen' = DupesSeen
  <2> SUFFICES ASSUME DupesEmpty PROVE DupesSeen' = DupesSeen
    OBVIOUS
  <2>1. {<<dm, de>>} \cap Filled = {}
    BY <1>10
  <2> QED BY <1>8, <2>1
<1>13. DupesMember => /\ <<dm, de>> \in Filled \ DupesSeen
                      /\ DupesSeen' = DupesSeen \cup {<<dm, de>>}
  BY <1>8, <1>11
<1> QED BY <1>7, <1>8, <1>9, <1>12, <1>13 DEF DupesStep

\* A member within its bundle has the content its size declares.
LEMMA ContentIsWhole ==
  ASSUME Given, NEW p \in Filled, Within(p)
  PROVE  /\ Size(container[p[1]], p[2]) \in Nat
         /\ Content(container[p[1]], p[2]).len = Size(container[p[1]], p[2])
<1> DEFINE b == container[p[1]]
           q == p[2]
<1>1. IsBuffer(b) /\ Count(b) \in Nat /\ q \in 1 .. Count(b)
  BY ScpkPlaces
<1>2. q \in Int
  BY <1>1
<1>3. Offset(b, q) \in Nat /\ Size(b, q) \in Nat
  BY <1>1, <1>2, OffsetIsNat
<1>4. Offset(b, q) + Size(b, q) <= b.len /\ b.len \in Nat
  BY <1>1 DEF Within, IsBuffer
<1>5. Content(b, q) = Slice(b, Offset(b, q), Size(b, q))
  BY DEF Content
<1> HIDE DEF b, q
<1>6. Lesser(Offset(b, q) + Size(b, q), b.len) = Offset(b, q) + Size(b, q)
  BY <1>3, <1>4 DEF Lesser
<1>7. Content(b, q).len =
        IF Offset(b, q) < Offset(b, q) + Size(b, q)
        THEN (Offset(b, q) + Size(b, q)) - Offset(b, q) ELSE 0
  <2> DEFINE o == Offset(b, q)
             n == Size(b, q)
  <2> HIDE DEF o, n
  <2>1. Slice(b, o, n).len = IF o < Lesser(o + n, b.len) THEN Lesser(o + n, b.len) - o ELSE 0
    BY <1>1, <1>3, SliceBytes DEF o, n
  <2> QED BY <1>5, <1>6, <2>1 DEF o, n
<1>8. Content(b, q).len = Size(b, q)
  BY <1>3, <1>7
<1> QED BY <1>3, <1>8 DEF b, q

LEMMA OnceMore ==
  ASSUME NEW s \in Nat, NEW n \in Nat \ {0}
  PROVE  s * (n - 1) \in Nat /\ s * ((n + 1) - 1) = s * (n - 1) + s
<1>1. n - 1 \in Nat /\ (n + 1) - 1 = (n - 1) + 1
  OBVIOUS
<1>2. ASSUME NEW m \in Nat PROVE s * m \in Nat /\ s * (m + 1) = s * m + s
  OBVIOUS
<1> QED BY <1>1, <1>2

CopiedOf(sizes, bag) == SumFunction([c \in DOMAIN bag |-> sizes[c] * (bag[c] - 1)])

OnceOf(bag) == SumFunction([c \in DOMAIN bag |-> c.len])

\* C and G are the bag B of contents and their sizes H with v counted once more.
Recounts(B, H, v, C, G) ==
  /\ IsFiniteSet(DOMAIN B)
  /\ \A c \in DOMAIN B : B[c] \in Nat \ {0}
  /\ DOMAIN H = DOMAIN B
  /\ \A c \in DOMAIN B : c.len \in Nat /\ H[c] = c.len
  /\ v.len \in Nat
  /\ C = B (+) SetToBag({v})
  /\ DOMAIN G = DOMAIN H \cup {v}
  /\ \A c \in DOMAIN G : G[c] = c.len

\* One more member of a size: its content is new, or a copy.
LEMMA CopyAdds ==
  ASSUME NEW B, NEW H, NEW v, NEW C, NEW G, Recounts(B, H, v, C, G)
  PROVE  /\ DOMAIN G = DOMAIN C
         /\ \A c \in DOMAIN C : c.len \in Nat /\ G[c] = c.len
         /\ CopiedOf(G, C) + OnceOf(C) = (CopiedOf(H, B) + OnceOf(B)) + v.len
<1> DEFINE x == [c \in DOMAIN B |-> H[c] * (B[c] - 1)]
           y == [c \in DOMAIN C |-> G[c] * (C[c] - 1)]
           d == [c \in DOMAIN B |-> c.len]
           e == [c \in DOMAIN C |-> c.len]
<1>0. /\ IsFiniteSet(DOMAIN B)
      /\ \A c \in DOMAIN B : B[c] \in Nat \ {0}
      /\ DOMAIN H = DOMAIN B
      /\ \A c \in DOMAIN B : c.len \in Nat /\ H[c] = c.len
      /\ v.len \in Nat
      /\ C = B (+) SetToBag({v})
      /\ DOMAIN G = DOMAIN H \cup {v}
      /\ \A c \in DOMAIN G : G[c] = c.len
  BY DEF Recounts
<1> USE <1>0
<1>1. /\ IsFiniteSet(DOMAIN C) /\ DOMAIN C = DOMAIN B \cup {v}
      /\ C[v] = (IF v \in DOMAIN B THEN B[v] ELSE 0) + 1
      /\ \A c \in DOMAIN B \ {v} : C[c] = B[c]
  <2> DEFINE K == B (+) SetToBag({v})
  <2>1. \A c \in DOMAIN B : B[c] \in Nat
    OBVIOUS
  <2>2. /\ IsFiniteSet(DOMAIN K) /\ DOMAIN K = DOMAIN B \cup {v}
        /\ K[v] = (IF v \in DOMAIN B THEN B[v] ELSE 0) + 1
        /\ \A c \in DOMAIN B \ {v} : K[c] = B[c]
    BY <2>1, BagGrows
  <2>3. C = K
    OBVIOUS
  <2> HIDE DEF K
  <2> QED BY <2>2, <2>3
<1>2. DOMAIN G = DOMAIN B \cup {v} /\ \A c \in DOMAIN G : G[c] = c.len
  OBVIOUS
<1>3. /\ CopiedOf(G, C) = SumFunction(y) /\ OnceOf(C) = SumFunction(e)
      /\ CopiedOf(H, B) = SumFunction(x) /\ OnceOf(B) = SumFunction(d)
  BY DEF CopiedOf, OnceOf
<1>4. /\ DOMAIN x = DOMAIN B /\ DOMAIN y = DOMAIN B \cup {v}
      /\ DOMAIN d = DOMAIN B /\ DOMAIN e = DOMAIN B \cup {v}
      /\ y[v] = v.len * (C[v] - 1) /\ e[v] = v.len
      /\ \A c \in DOMAIN B : x[c] = c.len * (B[c] - 1) /\ d[c] = c.len /\ e[c] = c.len
      /\ \A c \in DOMAIN B \ {v} : y[c] = x[c]
  BY <1>1, <1>2
<1>5. \A c \in DOMAIN B : x[c] \in Nat /\ d[c] \in Nat
  BY <1>4, OnceMore
<1> HIDE DEF x, y, d, e
<1>6. SumFunction(x) \in Nat /\ SumFunction(d) \in Nat
  BY <1>4, <1>5, SumIsNatural
<1>7. SumFunction(y) + SumFunction(e) = (SumFunction(x) + SumFunction(d)) + v.len
  <2>1. CASE v \in DOMAIN B
    <3>1. DOMAIN B \cup {v} = DOMAIN B
      BY <2>1
    <3>2. y[v] = x[v] + v.len /\ x[v] \in Nat /\ y[v] \in Nat
      <4>1. C[v] = B[v] + 1 /\ B[v] \in Nat \ {0} /\ v.len \in Nat
        BY <1>1, <2>1
      <4>2. v.len * ((B[v] + 1) - 1) = v.len * (B[v] - 1) + v.len /\ v.len * (B[v] - 1) \in Nat
        BY <4>1, OnceMore
      <4>3. x[v] = v.len * (B[v] - 1) /\ y[v] = v.len * ((B[v] + 1) - 1)
        BY <1>4, <2>1, <4>1
      <4> QED BY <4>1, <4>2, <4>3
    <3>3. SumFunction(y) + x[v] = SumFunction(x) + y[v]
      BY <1>4, <1>5, <2>1, <3>1, <3>2, SumRises
    <3>4. SumFunction(y) \in Nat
      <4>1. \A c \in DOMAIN y : y[c] \in Nat
        BY <1>4, <1>5, <3>1, <3>2
      <4>2. IsFiniteSet(DOMAIN y)
        BY <1>4, <3>1
      <4> QED BY <4>1, <4>2, SumIsNatural
    <3>5. SumFunction(e) = SumFunction(d)
      <4>1. DOMAIN e = DOMAIN d /\ IsFiniteSet(DOMAIN d) /\ \A c \in DOMAIN d : e[c] = d[c]
        BY <1>4, <3>1
      <4>2. SumFunctionOnSet(e, DOMAIN d) = SumFunctionOnSet(d, DOMAIN d)
        BY <4>1, SumSame
      <4> QED BY <4>1, <4>2, Zenon DEF SumFunction
    <3> QED BY <1>6, <3>2, <3>3, <3>4, <3>5
  <2>2. CASE v \notin DOMAIN B
    <3>1. y[v] = 0 /\ e[v] \in Nat
      <4>1. C[v] = 0 + 1
        BY <1>1, <2>2
      <4>2. v.len * 0 = 0
        OBVIOUS
      <4> QED BY <1>4, <4>1, <4>2
    <3>2. SumFunction(y) = SumFunction(x) + y[v]
      BY <1>4, <1>5, <2>2, <3>1, SumGrows
    <3>3. SumFunction(e) = SumFunction(d) + e[v]
      BY <1>4, <1>5, <2>2, <3>1, SumGrows
    <3> QED BY <1>4, <1>6, <3>1, <3>2, <3>3
  <2> QED BY <2>1, <2>2
<1>8. DOMAIN G = DOMAIN C /\ \A c \in DOMAIN C : c.len \in Nat /\ G[c] = c.len
  BY <1>1, <1>2
<1> QED BY <1>3, <1>7, <1>8, Zenon

LEMMA DupesInvInit == ReportsInit => DupesTypeOK /\ DupesInv
<1> SUFFICES ASSUME ReportsInit PROVE DupesTypeOK /\ DupesInv
  OBVIOUS
<1>1. /\ Given /\ dm = 1 /\ de = 1 /\ seen = EmptyBag /\ bytesByHash = <<>> /\ stored = 0
  BY DEF ReportsInit, DiscInit, BothInit, Init, DupesInit, Given
<1>2. DOMAIN seen = {} /\ DOMAIN bytesByHash = {}
  BY <1>1 DEF EmptyBag, SetToBag
<1>3. DupesTypeOK
  BY <1>1, LensAreNat DEF DupesTypeOK
<1>4. DupesSeen = {}
  <2>1. \A p \in Filled : p[1] \in Scpks /\ p[2] \in 1 .. Count(container[p[1]])
    BY <1>1, ScpkPlaces
  <2>2. \A a \in Scpks : a \in Nat /\ ~(a < 1) /\ Count(container[a]) \in Nat
    BY <1>1, ScpkPlaces, LensAreNat
  <2> QED BY <1>1, <2>1, <2>2 DEF DupesSeen
<1>5. SumFunction(seen) = 0 /\ Contents = 0 /\ CopiedBytes = 0
  BY <1>2, SumOfEmpty DEF Contents, CopiedBytes
<1>6. CopiesInv
  BY <1>1, <1>2, <1>5 DEF CopiesInv
<1>7. DupesInv
  BY <1>2, <1>4, <1>5, <1>6, FS_EmptySet DEF DupesInv
<1> QED BY <1>3, <1>7

LEMMA DupesInvStep ==
  ASSUME Given, DupesTypeOK, DupesInv, DupesStep, container' = container
  PROVE  DupesInv'
<1>1. /\ IsFiniteSet(DOMAIN seen)
      /\ \A c \in DOMAIN seen : seen[c] \in Nat \ {0}
      /\ SumFunction(seen) = Cardinality(DupesSeen)
      /\ CopiesInv
  BY DEF DupesInv
<1>2. IsFiniteSet(DupesSeen)
  <2>1. DupesSeen \in SUBSET Filled
    BY DEF DupesSeen
  <2> QED BY <2>1, ScpkPlaces, FS_Subset
<1>3. CASE DupesMember
  <2> DEFINE w == <<dm, de>>
             c == Content(container[dm], de)
             s == Size(container[dm], de)
  <2>1. w \in Filled \ DupesSeen /\ DupesSeen' = DupesSeen \cup {w}
    BY <1>3, DupesSeenStep
  <2>2. w[1] = dm /\ w[2] = de
    OBVIOUS
  <2>3. /\ seen' = seen (+) SetToBag({c})
        /\ bytesByHash' = [x \in DOMAIN bytesByHash \cup {c} |->
                             IF x = c THEN s ELSE bytesByHash[x]]
        /\ stored' = stored + s
    BY <1>3 DEF DupesMember
  <2>4. (\A p \in Filled : Within(p)) => c.len = s /\ s \in Nat
    <3>1. ASSUME Within(w) PROVE c.len = s /\ s \in Nat
      <4>1. w \in Filled /\ Within(w)
        BY <2>1, <3>1
      <4>2. /\ Size(container[w[1]], w[2]) \in Nat
            /\ Content(container[w[1]], w[2]).len = Size(container[w[1]], w[2])
        BY <4>1, ContentIsWhole
      <4> QED BY <2>2, <4>2
    <3> QED BY <2>1, <3>1
  <2> HIDE DEF w, c, s
  <2>5. /\ IsFiniteSet(DOMAIN seen') /\ SumFunction(seen') = SumFunction(seen) + 1
        /\ DOMAIN seen' = DOMAIN seen \cup {c}
        /\ seen'[c] = (IF c \in DOMAIN seen THEN seen[c] ELSE 0) + 1
        /\ \A e \in DOMAIN seen \ {c} : seen'[e] = seen[e]
    BY <1>1, <2>3, BagGrows
  <2>6. \A e \in DOMAIN seen' : seen'[e] \in Nat \ {0}
    BY <1>1, <2>5
  <2>7. Cardinality(DupesSeen') = Cardinality(DupesSeen) + 1
    BY <1>2, <2>1, FS_AddElement
  <2>8. CopiesInv'
    <3>1. CopiesInv' <=>
            ((\A p \in Filled : Within(p)) =>
              /\ DOMAIN bytesByHash' = DOMAIN seen'
              /\ \A e \in DOMAIN seen' : e.len \in Nat /\ bytesByHash'[e] = e.len
              /\ stored' = CopiedBytes' + Contents')
      BY DupesStay, Zenon DEF CopiesInv
    <3> SUFFICES ASSUME \A p \in Filled : Within(p)
                 PROVE  /\ DOMAIN bytesByHash' = DOMAIN seen'
                        /\ \A e \in DOMAIN seen' : e.len \in Nat /\ bytesByHash'[e] = e.len
                        /\ stored' = CopiedBytes' + Contents'
      BY <3>1
    <3>2. /\ DOMAIN bytesByHash = DOMAIN seen
          /\ \A e \in DOMAIN seen : e.len \in Nat /\ bytesByHash[e] = e.len
          /\ stored = CopiedBytes + Contents
      BY <1>1, Zenon DEF CopiesInv
    <3>3. c.len = s /\ c.len \in Nat
      BY <2>4
    <3>4. bytesByHash' = [x \in DOMAIN bytesByHash \cup {c} |->
                             IF x = c THEN c.len ELSE bytesByHash[x]]
      BY <2>3, <3>3
    <3>5. /\ DOMAIN bytesByHash' = DOMAIN seen'
          /\ \A e \in DOMAIN seen' : e.len \in Nat /\ bytesByHash'[e] = e.len
          /\ CopiedOf(bytesByHash', seen') + OnceOf(seen') =
               (CopiedOf(bytesByHash, seen) + OnceOf(seen)) + c.len
      <4>1. /\ IsFiniteSet(DOMAIN seen) /\ \A e \in DOMAIN seen : seen[e] \in Nat \ {0}
            /\ DOMAIN bytesByHash = DOMAIN seen
            /\ \A e \in DOMAIN seen : e.len \in Nat /\ bytesByHash[e] = e.len
            /\ c.len \in Nat /\ seen' = seen (+) SetToBag({c})
        BY <1>1, <2>3, <3>2, <3>3
      <4>2. DOMAIN bytesByHash' = DOMAIN bytesByHash \cup {c} /\ \A e \in DOMAIN bytesByHash' : bytesByHash'[e] = e.len
        BY <3>2, <3>4
      <4>3. Recounts(seen, bytesByHash, c, seen', bytesByHash')
        BY <4>1, <4>2 DEF Recounts
      <4> QED BY <4>3, CopyAdds
    <3>6. /\ CopiedBytes = CopiedOf(bytesByHash, seen) /\ Contents = OnceOf(seen)
          /\ CopiedBytes' = CopiedOf(bytesByHash', seen') /\ Contents' = OnceOf(seen')
      BY DEF CopiedBytes, Contents, CopiedOf, OnceOf
    <3>7. stored' = CopiedBytes' + Contents'
      BY <2>3, <3>2, <3>3, <3>5, <3>6, Zenon
    <3> QED BY <3>5, <3>7
  <2>9. SumFunction(seen') = Cardinality(DupesSeen')
    BY <1>1, <2>5, <2>7
  <2> QED BY <2>5, <2>6, <2>8, <2>9, Zenon DEF DupesInv
<1>4. CASE ~DupesMember
  <2>1. DupesSeen' = DupesSeen
    BY <1>4, DupesSeenStep
  <2>2. seen' = seen /\ bytesByHash' = bytesByHash /\ stored' = stored
    BY <1>4 DEF DupesStep, DupesPass, DupesEmpty, DupesNext
  <2>3. CopiedBytes' = CopiedBytes /\ Contents' = Contents
    BY <2>2 DEF CopiedBytes, Contents
  <2>4. CopiesInv' <=>
            ((\A p \in Filled : Within(p)) =>
              /\ DOMAIN bytesByHash' = DOMAIN seen'
              /\ \A e \in DOMAIN seen' : e.len \in Nat /\ bytesByHash'[e] = e.len
              /\ stored' = CopiedBytes' + Contents')
    BY DupesStay, Zenon DEF CopiesInv
  <2>5. CopiesInv'
    BY <1>1, <2>2, <2>3, <2>4, Zenon DEF CopiesInv
  <2> QED BY <1>1, <2>1, <2>2, <2>5, Zenon DEF DupesInv
<1> QED BY <1>3, <1>4

\* The reports are of the disc the censuses are of.
LEMMA ReportsKeep ==
  [ReportsNext]_<<allVars, reportVars>> => container' = container /\ nested' = nested
BY ContainerStays DEF ReportsNext, ReportsDone, DiscNext, allVars

LEMMA DupesAlways == ReportsSpec => [](Given /\ DupesTypeOK /\ DupesInv)
<1>1. ReportsInit => Given /\ DupesTypeOK /\ DupesInv
  BY DupesInvInit DEF ReportsInit, DiscInit, BothInit, Init, Given
<1>2. Given /\ DupesTypeOK /\ DupesInv /\ [ReportsNext]_<<allVars, reportVars>>
        => (Given /\ DupesTypeOK /\ DupesInv)'
  <2> SUFFICES ASSUME Given, DupesTypeOK, DupesInv, [ReportsNext]_<<allVars, reportVars>>
               PROVE  Given' /\ DupesTypeOK' /\ DupesInv'
    OBVIOUS
  <2>1. container' = container /\ Given'
    BY ReportsKeep DEF Given
  <2>2. CASE DupesStep
    BY <2>1, <2>2, DupesSeenStep, DupesInvStep
  <2>3. CASE UNCHANGED dupesVars
    <3>1. dm' = dm /\ de' = de /\ seen' = seen /\ bytesByHash' = bytesByHash /\ stored' = stored
      BY <2>3 DEF dupesVars
    <3>2. DupesSeen' = DupesSeen
      BY <2>1, <3>1, DupesStay DEF DupesSeen
    <3>3. DupesTypeOK'
      BY <2>1, <3>1, ScpkStay DEF DupesTypeOK
    <3>4. CopiedBytes' = CopiedBytes /\ Contents' = Contents
      BY <3>1 DEF CopiedBytes, Contents
    <3>5. CopiesInv' <=>
            ((\A p \in Filled : Within(p)) =>
              /\ DOMAIN bytesByHash' = DOMAIN seen'
              /\ \A e \in DOMAIN seen' : e.len \in Nat /\ bytesByHash'[e] = e.len
              /\ stored' = CopiedBytes' + Contents')
      BY <2>1, DupesStay, Zenon DEF CopiesInv
    <3>6. CopiesInv'
      BY <3>1, <3>4, <3>5, Zenon DEF DupesInv, CopiesInv
    <3> QED BY <2>1, <3>1, <3>2, <3>3, <3>6, Zenon DEF DupesInv
  <2>4. DupesStep \/ UNCHANGED dupesVars
    BY DEF ReportsNext, ReportsDone, Report, reportVars
  <2> QED BY <2>2, <2>3, <2>4
<1> QED BY <1>1, <1>2, PTL DEF ReportsSpec

\* scpk.py dupes is about the members its census is about, and what it says is
\* stored more than once is what is stored less each content once, if the bundles
\* hold what their tables declare: for every disc, whatever the bundles and the
\* members of them that are the same.
THEOREM CopiesAreAccounted == ReportsSpec => []DupesAccount
<1>1. Given /\ DupesTypeOK /\ DupesInv /\ ScpkAll => DupesAccount
  <2> SUFFICES ASSUME Given, DupesTypeOK, DupesInv, ScpkAll, DupesDone, scpkPc = "reported"
               PROVE  /\ SumFunction(seen) = SumFunction(innerMagic)
                      /\ (\A p \in Filled : Within(p)) => stored - CopiedBytes = Contents
    BY DEF DupesAccount, Contents
  <2>1. FilledSeen = Filled
    BY AllSeen DEF ScpkAll
  <2>2. DupesSeen = Filled
    <3>1. \A p \in Filled : p[1] \in 1 .. Len(container)
      BY ScpkPlaces
    <3>2. dm > Len(container) /\ dm \in Nat /\ Len(container) \in Nat
      BY LensAreNat DEF DupesDone, DupesTypeOK
    <3> QED BY <3>1, <3>2 DEF DupesSeen
  <2>3. SumFunction(seen) = SumFunction(innerMagic)
    BY <2>1, <2>2, Zenon DEF DupesInv, ScpkAll, MagicInv
  <2>4. ASSUME \A p \in Filled : Within(p) PROVE stored - CopiedBytes = Contents
    <3>1. /\ IsFiniteSet(DOMAIN seen) /\ \A c \in DOMAIN seen : seen[c] \in Nat \ {0}
          /\ \A c \in DOMAIN seen : c.len \in Nat /\ bytesByHash[c] = c.len
          /\ stored = CopiedBytes + Contents
      BY <2>4, Zenon DEF DupesInv, CopiesInv
    <3>2. Contents \in Nat
      <4> DEFINE f == [c \in DOMAIN seen |-> c.len]
      <4>1. DOMAIN f = DOMAIN seen /\ \A c \in DOMAIN f : f[c] \in Nat
        BY <3>1
      <4> HIDE DEF f
      <4>2. SumFunction(f) \in Nat
        BY <3>1, <4>1, SumIsNatural
      <4> QED BY <4>2 DEF f, Contents
    <3>3. CopiedBytes \in Nat
      <4> DEFINE f == [c \in DOMAIN seen |-> bytesByHash[c] * (seen[c] - 1)]
      <4>1. DOMAIN f = DOMAIN seen /\ \A c \in DOMAIN f : f[c] \in Nat
        BY <3>1, OnceMore
      <4> HIDE DEF f
      <4>2. SumFunction(f) \in Nat
        BY <3>1, <4>1, SumIsNatural
      <4> QED BY <4>2 DEF f, CopiedBytes
    <3> QED BY <3>1, <3>2, <3>3
  <2> QED BY <2>3, <2>4
<1> QED BY <1>1, DupesAlways, ReportsLeaveCensuses, ScpkAlways, PTL

-----------------------------------------------------------------------------
(* The list of bundles and what is shown of them                           *)

\* The bundles on the list that have been shown, and the members of all that are
\* not empty.
Passed == {a \in Scpks : \E x \in 1 .. asked - 1 : keys[x] = a}

ShownSeen ==
  {p \in Filled : \/ p[1] \in Passed
                  \/ asked <= Len(keys) /\ p[1] = keys[asked] /\ p[2] < se}

Printed == {"raw", "error", "exact", "mismatch"}

VerdictOf(p) ==
  Verdict(container[p[1]], Offset(container[p[1]], p[2]), Size(container[p[1]], p[2]))

\* The list is of the SCPK members passed, each of them once.
ListInv ==
  /\ lk \in 1 .. Len(container) + 1
  /\ keys \in Seq(1 .. Len(container))
  /\ \A x \in DOMAIN keys : keys[x] < lk /\ IsScpk(container[keys[x]])
  /\ \A x, y \in DOMAIN keys : keys[x] = keys[y] => x = y
  /\ \A a \in Scpks : a < lk => \E x \in DOMAIN keys : keys[x] = a

LimitInv ==
  /\ atMost \in Nat
  /\ Cardinality(Parsed) = Cardinality({a \in Scpks : a < lk})
  /\ spc \in {"idle", "list", "show"}
  /\ spc = "idle" => Cardinality(Parsed) = 0
  /\ spc = "list" => Cardinality(Parsed) < atMost
  /\ spc = "show" => Cardinality(Parsed) = atMost \/ (Cardinality(Parsed) < atMost /\ lk > Len(container))

\* What has been shown is what the bundles passed hold.
ShownInv ==
  /\ asked \in 1 .. Len(keys) + 1
  /\ se \in Nat \ {0}
  /\ shown \in Seq([size : Nat, verdict : Printed])
  /\ IF asked <= Len(keys) /\ keys[asked] \in Scpks THEN se <= Count(container[keys[asked]]) + 1 ELSE se = 1
  /\ spc # "show" => asked = 1 /\ se = 1 /\ shown = <<>>
  /\ Len(shown) = SumFunction([a \in Passed |-> Count(container[a])]) + (se - 1)
  /\ \A S \in SUBSET Printed :
       Showing(S) = Cardinality({p \in ShownSeen : VerdictOf(p) \in S})

LEMMA ListInvInit == ReportsInit => ListInv /\ LimitInv /\ ShownInv
<1> SUFFICES ASSUME ReportsInit PROVE ListInv /\ LimitInv /\ ShownInv
  OBVIOUS
<1>1. /\ Given /\ atMost = 0 /\ lk = 1 /\ keys = <<>> /\ asked = 1 /\ se = 1 /\ shown = <<>>
      /\ spc = "idle"
  BY DEF ReportsInit, DiscInit, BothInit, Init, ScpkListInit, Given
<1>2. Scpks \subseteq 1 .. Len(container) /\ Len(container) \in Nat
  BY <1>1, ScpkPlaces, LensAreNat
<1>3. ListInv
  BY <1>1, <1>2 DEF ListInv
<1>4. Parsed = {} /\ {a \in Scpks : a < lk} = {}
  <2>1. DOMAIN keys = {} /\ \A a \in Scpks : ~(a < 1)
    BY <1>1, <1>2
  <2> QED BY <1>1, <2>1 DEF Parsed
<1>5. LimitInv
  BY <1>1, <1>4, FS_EmptySet DEF LimitInv
<1>6. Passed = {} /\ ShownSeen = {}
  BY <1>1 DEF Passed, ShownSeen
<1>7. SumFunction([a \in Passed |-> Count(container[a])]) = 0
  BY <1>6, SumOfEmpty
<1>8. ASSUME NEW S PROVE Showing(S) = Cardinality({p \in ShownSeen : VerdictOf(p) \in S})
  <2>1. {x \in DOMAIN shown : shown[x].size # 0 /\ shown[x].verdict \in S} = {}
    BY <1>1
  <2>2. {p \in ShownSeen : VerdictOf(p) \in S} = {}
    BY <1>6
  <2> QED BY <2>1, <2>2, Zenon DEF Showing
<1>9. ShownInv
  <2>1. Len(shown) = 0 + (se - 1) /\ asked \in 1 .. Len(keys) + 1 /\ ~(asked <= Len(keys))
    BY <1>1
  <2> QED BY <1>1, <1>7, <1>8, <2>1 DEF ShownInv
<1> QED BY <1>3, <1>5, <1>9

LEMMA ScpksAre ==
  ASSUME NEW a \in 1 .. Len(container)
  PROVE  a \in Scpks <=> IsScpk(container[a]) /\ Parses(container[a])
BY DEF Scpks

\* What a step of the listing does to the list.
LEMMA ListInvStep ==
  ASSUME Given, ListInv, LimitInv, ScpkListStep, container' = container
  PROVE  ListInv' /\ LimitInv'
<1> DEFINE N == Len(container)
           Before(l) == {a \in Scpks : a < l}
<1>1. /\ N \in Nat /\ lk \in 1 .. N + 1 /\ lk \in Nat
      /\ keys \in Seq(1 .. N) /\ Len(keys) \in Nat
      /\ \A x \in DOMAIN keys : keys[x] < lk /\ IsScpk(container[keys[x]])
      /\ \A x, y \in DOMAIN keys : keys[x] = keys[y] => x = y
      /\ \A a \in Scpks : a < lk => \E x \in DOMAIN keys : keys[x] = a
  BY LensAreNat DEF ListInv
<1>2. Scpks \subseteq 1 .. N /\ IsFiniteSet(Scpks)
  BY ScpkPlaces
<1>3. /\ atMost \in Nat
      /\ Cardinality(Parsed) = Cardinality(Before(lk))
      /\ spc \in {"idle", "list", "show"}
      /\ spc = "idle" => Cardinality(Parsed) = 0
      /\ spc = "list" => Cardinality(Parsed) < atMost
      /\ spc = "show" => \/ Cardinality(Parsed) = atMost
                         \/ Cardinality(Parsed) < atMost /\ lk > N
  BY DEF LimitInv
<1>4. Parsed = {x \in 1 .. Len(keys) : Parses(container[keys[x]])} /\ IsFiniteSet(Parsed)
  <2>1. Parsed = {x \in 1 .. Len(keys) : Parses(container[keys[x]])}
    BY <1>1 DEF Parsed
  <2>2. Parsed \in SUBSET (1 .. Len(keys)) /\ IsFiniteSet(1 .. Len(keys))
    BY <1>1, <2>1, FS_Interval
  <2> QED BY <2>1, <2>2, FS_Subset
<1>5. /\ Scpks' = Scpks
      /\ Parsed' = {x \in DOMAIN keys' : Parses(container[keys'[x]])}
  BY ScpkStay DEF Parsed
<1>6. LimitInv' <=>
      /\ atMost' \in Nat
      /\ Cardinality(Parsed') = Cardinality(Before(lk'))
      /\ spc' \in {"idle", "list", "show"}
      /\ spc' = "idle" => Cardinality(Parsed') = 0
      /\ spc' = "list" => Cardinality(Parsed') < atMost'
      /\ spc' = "show" => \/ Cardinality(Parsed') = atMost'
                          \/ Cardinality(Parsed') < atMost' /\ lk' > N
  BY <1>5 DEF LimitInv
<1>7. ListInv' <=>
      /\ lk' \in 1 .. N + 1
      /\ keys' \in Seq(1 .. N)
      /\ \A x \in DOMAIN keys' : keys'[x] < lk' /\ IsScpk(container[keys'[x]])
      /\ \A x, y \in DOMAIN keys' : keys'[x] = keys'[y] => x = y
      /\ \A a \in Scpks : a < lk' => \E x \in DOMAIN keys' : keys'[x] = a
  BY <1>5 DEF ListInv
<1>8. Cardinality(Parsed) \in Nat
  BY <1>4, FS_CardinalityType
<1> HIDE DEF N
<1>9. CASE keys' = keys /\ lk' = lk
  <2>1. Parsed' = Parsed
    BY <1>5, <1>9 DEF Parsed
  <2>2. ListInv'
    BY <1>1, <1>7, <1>9
  <2>3. CASE AskList
    <3>1. spc = "idle" /\ atMost' \in ListLimits /\ spc' = "list"
      BY <2>3 DEF AskList
    <3>2. atMost' \in Nat /\ 0 < atMost'
      BY <3>1, ListLimitAssumption
    <3> HIDE DEF Before
    <3> QED BY <1>3, <1>6, <1>9, <2>1, <2>2, <3>1, <3>2
  <2>4. CASE ListEnds
    <3>1. spc = "list" /\ lk > N /\ spc' = "show" /\ atMost' = atMost
      BY <2>4 DEF ListEnds, N
    <3> HIDE DEF Before
    <3> QED BY <1>3, <1>6, <1>9, <2>1, <2>2, <3>1
  <2>5. CASE spc' = spc /\ atMost' = atMost
    <3> HIDE DEF Before
    <3> QED BY <1>3, <1>6, <1>9, <2>1, <2>2, <2>5
  <2>6. AskList \/ ListEnds \/ (spc' = spc /\ atMost' = atMost)
    <3>1. ~PassOther /\ ~ListBundle
      BY <1>1, <1>9 DEF PassOther, ListBundle
    <3> QED BY <3>1 DEF ScpkListStep, NotParsed, ShowMember, ShowNext
  <2> QED BY <2>3, <2>4, <2>5, <2>6
<1>10. CASE PassOther
  <2>1. /\ spc = "list" /\ lk \in 1 .. N /\ ~IsScpk(container[lk]) /\ lk' = lk + 1 /\ keys' = keys
        /\ atMost' = atMost /\ spc' = spc
    BY <1>1, <1>10 DEF PassOther, N
  <2>2. lk \notin Scpks
    BY <2>1, ScpksAre DEF N
  <2>3. \A a \in Scpks : a < lk + 1 <=> a < lk
    BY <1>1, <1>2, <2>2
  <2>4. Parsed' = Parsed /\ Before(lk') = Before(lk)
    BY <1>5, <2>1, <2>3 DEF Parsed
  <2>5. ListInv'
    <3>1. \A x \in DOMAIN keys : keys[x] < lk + 1
      BY <1>1
    <3> QED BY <1>1, <1>7, <2>1, <2>3, <3>1
  <2> HIDE DEF Before
  <2> QED BY <1>3, <1>6, <2>1, <2>4, <2>5
<1>11. CASE ListBundle
  <2>1. /\ spc = "list" /\ lk \in 1 .. N /\ IsScpk(container[lk]) /\ lk' = lk + 1
        /\ keys' = Append(keys, lk) /\ atMost' = atMost
        /\ spc' = IF Parses(container[lk]) /\ Cardinality(Parsed) + 1 >= atMost THEN "show" ELSE spc
    BY <1>1, <1>11 DEF ListBundle, N
  <2>2. lk \in Scpks <=> Parses(container[lk])
    BY <2>1, ScpksAre DEF N
  <2> DEFINE z == Len(keys) + 1
  <2>3. /\ keys' \in Seq(1 .. N) /\ DOMAIN keys' = 1 .. z /\ keys'[z] = lk
        /\ \A x \in DOMAIN keys : x \in 1 .. z /\ x # z /\ keys'[x] = keys[x]
        /\ \A x \in 1 .. z : x # z => x \in DOMAIN keys
        /\ z \in 1 .. z
    BY <1>1, <2>1
  <2>4. ListInv'
    <3>1. \A x \in DOMAIN keys' : keys'[x] < lk + 1 /\ IsScpk(container[keys'[x]])
      <4>1. ASSUME NEW x \in DOMAIN keys PROVE keys[x] < lk + 1
        <5>1. keys[x] \in 1 .. N
          BY <1>1
        <5> QED BY <1>1, <5>1
      <4> QED BY <1>1, <2>1, <2>3, <4>1
    <3>2. \A x, y \in DOMAIN keys' : keys'[x] = keys'[y] => x = y
      <4>1. \A x \in DOMAIN keys : keys[x] # lk
        BY <1>1
      <4> HIDE DEF z
      <4> QED BY <1>1, <2>3, <4>1
    <3>3. \A a \in Scpks : a < lk + 1 => \E x \in DOMAIN keys' : keys'[x] = a
      <4> SUFFICES ASSUME NEW a \in Scpks, a < lk + 1 PROVE \E x \in DOMAIN keys' : keys'[x] = a
        OBVIOUS
      <4>1. CASE a < lk
        <5>1. PICK x \in DOMAIN keys : keys[x] = a
          BY <1>1, <4>1
        <5> QED BY <2>3, <5>1
      <4>2. a < lk \/ a = lk
        BY <1>1, <1>2
      <4> QED BY <2>3, <4>1, <4>2
    <3> QED BY <1>1, <1>7, <2>1, <2>3, <3>1, <3>2, <3>3
  <2>5. CASE lk \in Scpks
    <3>1. Before(lk + 1) = Before(lk) \cup {lk} /\ lk \notin Before(lk)
      <4>1. \A a \in Scpks : a < lk + 1 <=> a < lk \/ a = lk
        BY <1>1, <1>2
      <4>2. ~(lk < lk) /\ lk < lk + 1
        BY <1>1
      <4> QED BY <2>5, <4>1, <4>2
    <3>2. IsFiniteSet(Before(lk))
      <4>1. Before(lk) \in SUBSET Scpks
        OBVIOUS
      <4> QED BY <1>2, <4>1, FS_Subset
    <3>3. Cardinality(Before(lk + 1)) = Cardinality(Before(lk)) + 1
      <4> HIDE DEF Before
      <4> QED BY <3>1, <3>2, FS_AddElement
    <3>4. Parsed' = Parsed \cup {z} /\ z \notin Parsed
      <4>1. \A x \in 1 .. Len(keys) : x \in DOMAIN keys
        BY <1>1
      <4>2. z \notin 1 .. Len(keys)
        BY <1>1
      <4> HIDE DEF z
      <4> QED BY <1>4, <1>5, <2>2, <2>3, <2>5, <4>1, <4>2 DEF Parsed
    <3>5. Cardinality(Parsed') = Cardinality(Parsed) + 1
      <4> HIDE DEF z
      <4> QED BY <1>4, <3>4, FS_AddElement
    <3> HIDE DEF Before, z
    <3> QED BY <1>3, <1>6, <1>8, <2>1, <2>2, <2>4, <2>5, <3>3, <3>5
  <2>6. CASE lk \notin Scpks
    <3>1. Before(lk + 1) = Before(lk)
      <4>1. \A a \in Scpks : a < lk + 1 <=> a < lk
        BY <1>1, <1>2, <2>6
      <4> QED BY <4>1
    <3>2. Parsed' = Parsed
      <4> HIDE DEF z
      <4> QED BY <1>4, <1>5, <2>2, <2>3, <2>6 DEF Parsed
    <3> HIDE DEF Before, z
    <3> QED BY <1>3, <1>6, <1>8, <2>1, <2>2, <2>4, <2>6, <3>1, <3>2
  <2> QED BY <2>5, <2>6
<1>12. PassOther \/ ListBundle \/ (keys' = keys /\ lk' = lk)
  BY DEF ScpkListStep, AskList, ListEnds, NotParsed, ShowMember, ShowNext
<1> QED BY <1>9, <1>10, <1>11, <1>12

LEMMA ShownStay ==
  ASSUME container' = container
  PROVE  /\ Passed' = {a \in Scpks : \E x \in 1 .. asked' - 1 : keys'[x] = a}
         /\ ShownSeen' = {p \in Filled : \/ p[1] \in Passed'
                                         \/ asked' <= Len(keys') /\ p[1] = keys'[asked'] /\ p[2] < se'}
         /\ \A p : VerdictOf(p)' = VerdictOf(p)
<1>1. \A p : VerdictOf(p)' = VerdictOf(p)
  BY DEF VerdictOf
<1>2. Scpks' = Scpks /\ Filled' = Filled
  BY ScpkStay
<1> QED BY <1>1, <1>2 DEF Passed, ShownSeen

\* What a step of the listing has shown.
LEMMA ShownSeenStep ==
  ASSUME Given, ListInv, ShownInv, ScpkListStep, container' = container
  PROVE  LET w == <<keys[asked], se>>
         IN  /\ asked' \in 1 .. Len(keys') + 1
             /\ se' \in Nat \ {0}
             /\ IF asked' <= Len(keys') /\ keys'[asked'] \in Scpks
                THEN se' <= Count(container[keys'[asked']]) + 1 ELSE se' = 1
             /\ spc' # "show" => asked' = 1 /\ se' = 1 /\ shown' = shown
             /\ ~ShowNext => Passed' = Passed
             /\ ShowNext => /\ keys[asked] \in Scpks \ Passed /\ Passed' = Passed \cup {keys[asked]}
                            /\ se - 1 = Count(container[keys[asked]])
             /\ ~ShowMember => ShownSeen' = ShownSeen
             /\ ShowMember => /\ w \notin ShownSeen /\ keys[asked] \in Scpks /\ ~ShowNext
                              /\ ShownSeen' = ShownSeen \cup ({w} \cap Filled)
                              /\ w \in Filled <=> Size(container[keys[asked]], se) # 0
<1> DEFINE N == Len(container)
           L == Len(keys)
           a == keys[asked]
<1>1. /\ N \in Nat /\ L \in Nat /\ keys \in Seq(1 .. N) /\ DOMAIN keys = 1 .. L
      /\ \A x \in DOMAIN keys : IsScpk(container[keys[x]]) /\ keys[x] \in 1 .. N
      /\ \A x, y \in DOMAIN keys : keys[x] = keys[y] => x = y
  BY LensAreNat DEF ListInv
<1>2. Scpks \subseteq 1 .. N /\ \A c \in Scpks : Count(container[c]) \in Nat
  BY ScpkPlaces
<1>3. \A p \in Filled : /\ p[1] \in Scpks /\ p = <<p[1], p[2]>>
                        /\ p[2] \in 1 .. Count(container[p[1]]) /\ p[2] \in Nat /\ ~(p[2] < 1)
  BY <1>2, ScpkPlaces
<1>4. /\ asked \in 1 .. L + 1 /\ asked \in Nat /\ asked >= 1 /\ se \in Nat /\ se >= 1
      /\ IF asked <= L /\ a \in Scpks THEN se <= Count(container[a]) + 1 ELSE se = 1
      /\ spc # "show" => asked = 1 /\ se = 1
  BY <1>1 DEF ShownInv
<1>5. /\ Passed' = {c \in Scpks : \E x \in 1 .. asked' - 1 : keys'[x] = c}
      /\ ShownSeen' = {p \in Filled : \/ p[1] \in Passed'
                                      \/ asked' <= Len(keys') /\ p[1] = keys'[asked'] /\ p[2] < se'}
  BY ShownStay
<1>6. asked <= L => asked \in DOMAIN keys /\ (a \in Scpks <=> Parses(container[a]))
  <2> SUFFICES ASSUME asked <= L PROVE asked \in DOMAIN keys /\ (a \in Scpks <=> Parses(container[a]))
    OBVIOUS
  <2>1. asked \in DOMAIN keys
    BY <1>1, <1>4
  <2> QED BY <1>1, <2>1, ScpksAre
<1>7. \A x \in 1 .. asked - 1 : x \in DOMAIN keys /\ x # asked
  BY <1>1, <1>4
<1>8. asked <= L => a \notin Passed
  BY <1>1, <1>6, <1>7 DEF Passed
<1>9. ASSUME spc # "show"
      PROVE  /\ asked' = 1 /\ se' = 1 /\ shown' = shown /\ Passed' = Passed /\ ShownSeen' = ShownSeen
             /\ L \in Nat /\ Len(keys') \in Nat
             /\ ~ShowNext /\ ~ShowMember
  <2>1. /\ asked = 1 /\ se = 1 /\ asked' = 1 /\ se' = 1 /\ shown' = shown /\ ~ShowNext /\ ~ShowMember
        /\ (keys' = keys \/ keys' = Append(keys, lk))
    BY <1>4, <1>9 DEF ScpkListStep, AskList, PassOther, ListBundle, ListEnds, NotParsed, ShowMember,
                      ShowNext
  <2>2. Passed = {} /\ Passed' = {}
    <3>1. 1 .. 1 - 1 = {}
      OBVIOUS
    <3> QED BY <1>5, <2>1, <3>1 DEF Passed
  <2>3. ShownSeen = {} /\ ShownSeen' = {}
    BY <1>3, <1>5, <2>1, <2>2 DEF ShownSeen
  <2>4. Len(keys') \in Nat
    BY <1>1, <2>1
  <2> QED BY <1>1, <2>1, <2>2, <2>3, <2>4
<1>10. ASSUME NotParsed
       PROVE  /\ asked' = asked + 1 /\ asked <= L /\ keys' = keys /\ se' = 1 /\ spc' = "show"
              /\ Passed' = Passed /\ ShownSeen' = ShownSeen /\ ~ShowNext /\ ~ShowMember
  <2>1. /\ asked <= L /\ ~Parses(container[a]) /\ asked' = asked + 1 /\ keys' = keys /\ se' = se
        /\ spc' = "show" /\ ~ShowNext /\ ~ShowMember
    BY <1>10 DEF NotParsed, ShowNext, ShowMember, Bundle
  <2>2. a \notin Scpks /\ se = 1
    BY <1>4, <1>6, <2>1
  <2>3. \A x \in Int : x \in 1 .. (asked + 1) - 1 <=> x \in 1 .. asked - 1 \/ x = asked
    BY <1>4
  <2>4. Passed' = Passed
    BY <1>5, <2>1, <2>2, <2>3 DEF Passed
  <2>5. ShownSeen' = ShownSeen
    BY <1>3, <1>5, <2>1, <2>2, <2>4 DEF ShownSeen
  <2> QED BY <2>1, <2>2, <2>4, <2>5
<1>11. ASSUME ShowMember
       PROVE  /\ asked' = asked /\ asked <= L /\ keys' = keys /\ se' = se + 1 /\ spc' = "show"
              /\ a \in Scpks /\ se <= Count(container[a])
              /\ Passed' = Passed /\ ~ShowNext
              /\ <<a, se>> \notin ShownSeen
              /\ ShownSeen' = ShownSeen \cup ({<<a, se>>} \cap Filled)
              /\ <<a, se>> \in Filled <=> Size(container[a], se) # 0
  <2>1. /\ asked <= L /\ Parses(container[a]) /\ se <= Count(container[a]) /\ asked' = asked
        /\ keys' = keys /\ se' = se + 1 /\ spc' = "show"
    BY <1>11 DEF ShowMember, Bundle
  <2>2. a \in Scpks
    BY <1>6, <2>1
  <2>3. se \in 1 .. Count(container[a])
    BY <1>2, <1>4, <2>1, <2>2
  <2>4. ~ShowNext
    BY <1>2, <1>4, <2>1, <2>2 DEF ShowNext, Bundle
  <2>5. Passed' = Passed
    BY <1>5, <2>1 DEF Passed
  <2>6. <<a, se>> \in Filled <=> Size(container[a], se) # 0
    BY <2>2, <2>3, ScpkPlaces
  <2>7. <<a, se>>[1] = a /\ <<a, se>>[2] = se
    OBVIOUS
  <2> HIDE DEF a
  <2>8. ShownSeen = {p \in Filled : p[1] \in Passed \/ (p[1] = a /\ p[2] < se)}
    BY <2>1 DEF ShownSeen, a
  <2>9. ShownSeen' = {p \in Filled : p[1] \in Passed \/ (p[1] = a /\ p[2] < se + 1)}
    BY <1>5, <2>1, <2>5 DEF a
  <2>10. \A p \in Filled : p[2] < se + 1 <=> p[2] < se \/ p[2] = se
    BY <1>3, <1>4
  <2>11. <<a, se>> \notin ShownSeen
    BY <1>4, <1>8, <2>1, <2>7, <2>8
  <2>12. \A p \in Filled : p[1] = a /\ p[2] = se => p = <<a, se>>
    BY <1>3
  <2>13. ShownSeen' = ShownSeen \cup ({<<a, se>>} \cap Filled)
    BY <2>7, <2>8, <2>9, <2>10, <2>12
  <2> QED BY <2>1, <2>2, <2>4, <2>5, <2>6, <2>11, <2>13
<1>12. ASSUME ShowNext
       PROVE  /\ asked' = asked + 1 /\ asked <= L /\ keys' = keys /\ se' = 1 /\ spc' = "show"
              /\ a \in Scpks \ Passed /\ Passed' = Passed \cup {a}
              /\ se - 1 = Count(container[a])
              /\ ShownSeen' = ShownSeen /\ ~ShowMember
  <2>1. /\ asked <= L /\ Parses(container[a]) /\ se > Count(container[a]) /\ asked' = asked + 1
        /\ keys' = keys /\ se' = 1 /\ spc' = "show"
    BY <1>12 DEF ShowNext, Bundle
  <2>2. a \in Scpks
    BY <1>6, <2>1
  <2>3. se - 1 = Count(container[a])
    <3>1. Count(container[a]) \in Nat /\ se <= Count(container[a]) + 1
      BY <1>2, <1>4, <2>1, <2>2
    <3> QED BY <1>4, <2>1, <3>1
  <2>4. ~ShowMember
    BY <1>2, <1>4, <2>1, <2>2 DEF ShowMember, Bundle
  <2>5. \A x \in Int : x \in 1 .. (asked + 1) - 1 <=> x \in 1 .. asked - 1 \/ x = asked
    BY <1>4
  <2>6. Passed' = Passed \cup {a}
    <3>1. Passed' = {c \in Scpks : \E x \in 1 .. (asked + 1) - 1 : keys[x] = c}
      BY <1>5, <2>1
    <3>2. asked \in Int /\ \A x \in 1 .. asked - 1 : x \in Int
      BY <1>4
    <3>3. \A c \in Scpks : (\E x \in 1 .. (asked + 1) - 1 : keys[x] = c)
                             <=> (\E x \in 1 .. asked - 1 : keys[x] = c) \/ a = c
      BY <2>5, <3>2
    <3> QED BY <2>2, <3>1, <3>3 DEF Passed
  <2>7. \A p \in Filled : p[1] = a => p[2] < se
    BY <1>2, <1>3, <1>4, <2>1, <2>2
  <2>8. ShownSeen' = ShownSeen
    <3> HIDE DEF a
    <3>1. ShownSeen = {p \in Filled : p[1] \in Passed \/ (p[1] = a /\ p[2] < se)}
      BY <2>1 DEF ShownSeen, a
    <3>2. ShownSeen' = {p \in Filled : p[1] \in Passed \/ p[1] = a}
      BY <1>3, <1>5, <2>1, <2>6
    <3> QED BY <2>7, <3>1, <3>2
  <2> QED BY <1>8, <2>1, <2>2, <2>3, <2>4, <2>6, <2>8
<1>13. spc = "show" => NotParsed \/ ShowMember \/ ShowNext
  BY DEF ScpkListStep, AskList, PassOther, ListBundle, ListEnds
<1>14. \A c \in Scpks : 1 <= Count(container[c]) + 1
  BY <1>2
<1>15. CASE spc # "show"
  <2>1. 1 \in 1 .. Len(keys') + 1
    BY <1>9, <1>15
  <2> QED BY <1>9, <1>14, <1>15, <2>1
<1>16. CASE NotParsed
  <2>1. asked + 1 \in 1 .. L + 1
    BY <1>1, <1>4, <1>10, <1>16
  <2> QED BY <1>10, <1>14, <1>16, <2>1
<1>17. CASE ShowMember
  <2>1. asked \in 1 .. L + 1 /\ se + 1 \in Nat \ {0} /\ se + 1 <= Count(container[a]) + 1
    <3>1. Count(container[a]) \in Nat /\ se <= Count(container[a])
      BY <1>2, <1>11, <1>17
    <3> QED BY <1>1, <1>4, <1>11, <1>17, <3>1
  <2> QED BY <1>11, <1>17, <2>1
<1>18. CASE ShowNext
  <2>1. asked + 1 \in 1 .. L + 1
    BY <1>1, <1>4, <1>12, <1>18
  <2> QED BY <1>12, <1>14, <1>18, <2>1
<1> QED BY <1>13, <1>15, <1>16, <1>17, <1>18

LEMMA ShownInvStep ==
  ASSUME Given, ListInv, ShownInv, ScpkListStep, container' = container
  PROVE  ShownInv'
<1> DEFINE w == <<keys[asked], se>>
           Counted == SumFunction([a \in Passed |-> Count(container[a])])
           Of(S) == {p \in ShownSeen : VerdictOf(p) \in S}
           In(S) == {x \in DOMAIN shown : shown[x].size # 0 /\ shown[x].verdict \in S}
<1>1. /\ asked' \in 1 .. Len(keys') + 1
      /\ se' \in Nat \ {0}
      /\ IF asked' <= Len(keys') /\ keys'[asked'] \in Scpks
         THEN se' <= Count(container[keys'[asked']]) + 1 ELSE se' = 1
      /\ spc' # "show" => asked' = 1 /\ se' = 1 /\ shown' = shown
      /\ ~ShowNext => Passed' = Passed
      /\ ShowNext => /\ keys[asked] \in Scpks \ Passed /\ Passed' = Passed \cup {keys[asked]}
                     /\ se - 1 = Count(container[keys[asked]])
      /\ ~ShowMember => ShownSeen' = ShownSeen
      /\ ShowMember => /\ w \notin ShownSeen /\ keys[asked] \in Scpks /\ ~ShowNext
                       /\ ShownSeen' = ShownSeen \cup ({w} \cap Filled)
                       /\ w \in Filled <=> Size(container[keys[asked]], se) # 0
  BY ShownSeenStep
<1>2. /\ se \in Nat \ {0}
      /\ spc # "show" => shown = <<>> /\ se = 1
      /\ Len(shown) = Counted + (se - 1)
      /\ \A S \in SUBSET Printed : Showing(S) = Cardinality(Of(S))
  BY Zenon DEF ShownInv
<1>3. ShownInv' <=>
      /\ asked' \in 1 .. Len(keys') + 1
      /\ se' \in Nat \ {0}
      /\ shown' \in Seq([size : Nat, verdict : Printed])
      /\ IF asked' <= Len(keys') /\ keys'[asked'] \in Scpks
         THEN se' <= Count(container[keys'[asked']]) + 1 ELSE se' = 1
      /\ spc' # "show" => asked' = 1 /\ se' = 1 /\ shown' = <<>>
      /\ Len(shown') = Counted' + (se' - 1)
      /\ \A S \in SUBSET Printed : Showing(S)' = Cardinality(Of(S)')
  BY ScpkStay DEF ShownInv
<1>4. \A S : Of(S)' = {p \in ShownSeen' : VerdictOf(p) \in S}
  BY ShownStay
<1>5. /\ Passed \subseteq Scpks /\ IsFiniteSet(Passed) /\ IsFiniteSet(ShownSeen)
      /\ \A a \in Scpks : Count(container[a]) \in Nat
  <2>1. Passed \in SUBSET Scpks /\ ShownSeen \in SUBSET Filled
    BY DEF Passed, ShownSeen
  <2> QED BY <2>1, ScpkPlaces, FS_Subset
<1>6. Counted \in Nat
  <2> DEFINE f == [a \in Passed |-> Count(container[a])]
  <2>1. DOMAIN f = Passed /\ \A a \in Passed : f[a] \in Nat
    BY <1>5
  <2> HIDE DEF f
  <2>2. SumFunction(f) \in Nat
    BY <1>5, <2>1, SumIsNatural
  <2> QED BY <2>2 DEF f
<1>7. Counted' = SumFunction([a \in Passed' |-> Count(container[a])])
  OBVIOUS
<1>8. shown \in Seq([size : Nat, verdict : Printed])
  BY DEF ShownInv
<1>9. CASE ShowMember
  <2> DEFINE r == [size |-> Size(container[keys[asked]], se), verdict |-> VerdictOf(w)]
             z == Len(shown) + 1
  <2>1. shown' = Append(shown, r) /\ se' = se + 1 /\ spc' = "show" /\ asked' = asked
    <3>1. w[1] = keys[asked] /\ w[2] = se
      OBVIOUS
    <3>2. VerdictOf(w) = Verdict(Bundle, Offset(Bundle, se), Size(Bundle, se))
      BY <3>1 DEF VerdictOf, Bundle
    <3> QED BY <1>9, <3>2 DEF ShowMember, Bundle
  <2>2. r \in [size : Nat, verdict : Printed]
    <3>1. keys[asked] \in Scpks
      BY <1>1, <1>9
    <3>2. VerdictOf(w) \in Printed
      BY DEF VerdictOf, Verdict, Printed
    <3>3. IsBuffer(container[keys[asked]]) /\ se \in Int
      BY <1>2, <3>1, ScpkPlaces
    <3>4. Size(container[keys[asked]], se) \in Nat
      BY <3>3, OffsetIsNat
    <3> QED BY <3>2, <3>4
  <2>3. r.size = Size(container[keys[asked]], se) /\ r.verdict = VerdictOf(w)
    OBVIOUS
  <2> HIDE DEF w, r
  <2>4. /\ shown' \in Seq([size : Nat, verdict : Printed])
        /\ Len(shown') = Len(shown) + 1 /\ DOMAIN shown' = DOMAIN shown \cup {z}
        /\ z \notin DOMAIN shown /\ shown'[z] = r
        /\ \A x \in DOMAIN shown : shown'[x] = shown[x]
        /\ IsFiniteSet(DOMAIN shown)
    <3> DEFINE R == [size : Nat, verdict : Printed]
    <3>1. shown \in Seq(R) /\ r \in R
      BY <1>8, <2>2
    <3> HIDE DEF R
    <3>2. DOMAIN shown = 1 .. Len(shown) /\ Len(shown) \in Nat
      BY <3>1
    <3>3. IsFiniteSet(DOMAIN shown)
      BY <3>2, FS_Interval
    <3> QED BY <2>1, <3>1, <3>2, <3>3 DEF R
  <2>5. Len(shown') = Counted' + (se' - 1)
    <3>1. Counted' = Counted
      <4>1. Passed' = Passed
        BY <1>1, <1>9
      <4> QED BY <1>7, <4>1
    <3> HIDE DEF Counted
    <3> QED BY <1>2, <1>6, <2>1, <2>4, <3>1
  <2>6. ASSUME NEW S \in SUBSET Printed PROVE Showing(S)' = Cardinality(Of(S)')
    <3>1. /\ Showing(S) = Cardinality(In(S)) /\ Showing(S) = Cardinality(Of(S))
          /\ Showing(S)' = Cardinality({x \in DOMAIN shown' : shown'[x].size # 0 /\ shown'[x].verdict \in S})
      BY <1>2, Zenon DEF Showing
    <3>2. IsFiniteSet(In(S)) /\ IsFiniteSet(Of(S))
      <4>1. In(S) \in SUBSET DOMAIN shown /\ Of(S) \in SUBSET ShownSeen
        OBVIOUS
      <4> QED BY <1>5, <2>4, <4>1, FS_Subset
    <3>3. Of(S)' = {p \in ShownSeen' : VerdictOf(p) \in S}
      BY <1>4
    <3>4. w \notin ShownSeen /\ ShownSeen' = ShownSeen \cup ({w} \cap Filled)
          /\ (w \in Filled <=> r.size # 0)
      BY <1>1, <1>9, <2>3
    <3> DEFINE After == {x \in DOMAIN shown' : shown'[x].size # 0 /\ shown'[x].verdict \in S}
    <3> HIDE DEF z
    <3>5. CASE r.size # 0 /\ r.verdict \in S
      <4>1. After = In(S) \cup {z} /\ z \notin In(S)
        BY <2>4, <3>5
      <4>2. Of(S)' = Of(S) \cup {w} /\ w \notin Of(S)
        BY <2>3, <3>3, <3>4, <3>5
      <4>3. Cardinality(After) = Cardinality(In(S)) + 1
        <5> HIDE DEF After, In
        <5> QED BY <3>2, <4>1, FS_AddElement
      <4>4. Cardinality(Of(S)') = Cardinality(Of(S)) + 1
        <5> HIDE DEF Of
        <5> QED BY <3>2, <4>2, FS_AddElement
      <4> QED BY <3>1, <4>3, <4>4, Zenon
    <3>6. CASE ~(r.size # 0 /\ r.verdict \in S)
      <4>1. After = In(S)
        BY <2>4, <3>6
      <4>2. Of(S)' = Of(S)
        BY <2>3, <3>3, <3>4, <3>6
      <4> QED BY <3>1, <4>1, <4>2, Zenon
    <3> QED BY <3>5, <3>6
  <2>7. spc' = "show"
    BY <2>1
  <2> HIDE DEF Counted, Of
  <2> QED BY <1>1, <1>3, <2>4, <2>5, <2>6, <2>7
<1>10. CASE ~ShowMember
  <2>1. shown' = shown /\ ShownSeen' = ShownSeen
    BY <1>1, <1>10 DEF ScpkListStep, AskList, PassOther, ListBundle, ListEnds, NotParsed, ShowNext
  <2>2. ASSUME NEW S \in SUBSET Printed PROVE Showing(S)' = Cardinality(Of(S)')
    <3>1. Of(S)' = Of(S)
      BY <1>4, <2>1
    <3>2. Showing(S)' = Showing(S)
      BY <2>1 DEF Showing
    <3> HIDE DEF Of
    <3> QED BY <1>2, <3>1, <3>2, Zenon
  <2>3. spc' # "show" => shown' = <<>>
    <3>1. spc' # "show" => spc # "show"
      BY DEF ScpkListStep, AskList, PassOther, ListBundle, ListEnds, NotParsed, ShowMember, ShowNext
    <3> QED BY <1>2, <2>1, <3>1
  <2>4. Len(shown') = Counted' + (se' - 1)
    <3>1. CASE ShowNext
      <4> DEFINE a == keys[asked]
                 f == [c \in Passed |-> Count(container[c])]
                 g == [c \in Passed \cup {a} |-> Count(container[c])]
      <4>1. /\ a \in Scpks \ Passed /\ Passed' = Passed \cup {a} /\ se - 1 = Count(container[a])
            /\ se' = 1
        BY <1>1, <3>1 DEF ShowNext
      <4>2. /\ DOMAIN f = Passed /\ DOMAIN g = Passed \cup {a} /\ g[a] = se - 1 /\ g[a] \in Nat
            /\ \A c \in Passed : g[c] = f[c] /\ f[c] \in Nat
        BY <1>5, <4>1
      <4>3. Counted = SumFunction(f) /\ Counted' = SumFunction(g)
        BY <1>7, <4>1
      <4> HIDE DEF a, f, g, Counted
      <4>4. SumFunction(g) = SumFunction(f) + g[a]
        BY <1>5, <4>1, <4>2, SumGrows
      <4> QED BY <1>2, <1>6, <2>1, <4>1, <4>2, <4>3, <4>4
    <3>2. CASE ~ShowNext
      <4>1. Passed' = Passed
        BY <1>1, <3>2
      <4>2. Counted' = Counted
        BY <1>7, <4>1
      <4>3. se' = se
        <5>1. spc # "show" => se' = 1 /\ se = 1
          BY <1>2 DEF ScpkListStep, AskList, PassOther, ListBundle, ListEnds, NotParsed, ShowMember,
                      ShowNext
        <5> QED BY <1>10, <3>2, <5>1 DEF ScpkListStep, AskList, PassOther, ListBundle, ListEnds,
                                         NotParsed
      <4> HIDE DEF Counted
      <4> QED BY <1>2, <2>1, <4>2, <4>3
    <3> QED BY <3>1, <3>2
  <2> HIDE DEF Counted, Of
  <2> QED BY <1>1, <1>3, <1>8, <2>1, <2>2, <2>3, <2>4
<1> QED BY <1>9, <1>10

LEMMA VerdictsAlways == DiscSpec => []Verdicts
<1>1. DiscInit => Verdicts
  BY DEF DiscInit, ScpkInit, Verdicts
<1> QED BY <1>1, VerdictsStep, PTL DEF DiscSpec

LEMMA TablesAlways == ReportsSpec => [](Given /\ ListInv /\ LimitInv /\ ShownInv)
<1> DEFINE All == Given /\ ListInv /\ LimitInv /\ ShownInv
<1>1. ReportsInit => All
  BY ListInvInit DEF ReportsInit, DiscInit, BothInit, Init, Given
<1>2. All /\ [ReportsNext]_<<allVars, reportVars>> => All'
  <2> SUFFICES ASSUME Given, ListInv, LimitInv, ShownInv, [ReportsNext]_<<allVars, reportVars>>
               PROVE  Given' /\ ListInv' /\ LimitInv' /\ ShownInv'
    OBVIOUS
  <2>1. container' = container /\ Given'
    BY ReportsKeep DEF Given
  <2>2. CASE ScpkListStep
    BY <2>1, <2>2, ListInvStep, ShownInvStep
  <2>3. CASE UNCHANGED scpkListVars
    <3>1. /\ atMost' = atMost /\ lk' = lk /\ keys' = keys /\ asked' = asked /\ se' = se
          /\ shown' = shown /\ spc' = spc /\ Scpks' = Scpks
      BY <2>1, <2>3, ScpkStay DEF scpkListVars
    <3>2. ListInv'
      BY <2>1, <3>1 DEF ListInv
    <3>3. LimitInv'
      <4>1. Parsed' = Parsed
        BY <2>1, <3>1 DEF Parsed
      <4> QED BY <2>1, <3>1, <4>1 DEF LimitInv
    <3>4. ShownInv'
      <4>1. Passed' = Passed
        BY <2>1, <3>1, ShownStay DEF Passed
      <4>2. ShownSeen' = ShownSeen /\ \A p : VerdictOf(p)' = VerdictOf(p)
        BY <2>1, <3>1, <4>1, ShownStay DEF ShownSeen
      <4>3. \A S : Showing(S)' = Showing(S)
        BY <3>1 DEF Showing
      <4>4. (Count(container[keys[asked]]) = Count(container[keys[asked]]))'
        OBVIOUS
      <4> QED BY <2>1, <3>1, <4>1, <4>2, <4>3 DEF ShownInv
    <3> QED BY <2>1, <3>2, <3>3, <3>4
  <2>4. ScpkListStep \/ UNCHANGED scpkListVars
    BY DEF ReportsNext, ReportsDone, Report, reportVars
  <2> QED BY <2>2, <2>3, <2>4
<1> QED BY <1>1, <1>2, PTL DEF ReportsSpec

\* What is shown of a member is what the census says of it.
LEMMA VerdictIsOf ==
  ASSUME Given, NEW p \in Filled
  PROVE  /\ p \notin Headed => VerdictOf(p) = "raw"
         /\ p \in Headed => VerdictOf(p) = IF DecodesWhole(p) THEN "exact" ELSE "mismatch"
<1> DEFINE b == container[p[1]]
           o == Offset(b, p[2])
           h == HeadBlock(b, o)
<1>1. p \in Headed <=> IsHead(b, o)
  BY DEF Headed
<1>2. p \notin Headed => VerdictOf(p) = "raw"
  BY <1>1 DEF VerdictOf, Verdict
<1>3. ASSUME p \in Headed PROVE VerdictOf(p) = IF DecodesWhole(p) THEN "exact" ELSE "mismatch"
  <2>1. ~Raises(h) /\ Unpack(h).len = Unpack(Rest(p)).len /\ Unpacked(h) = Unpacked(Rest(p))
    BY <1>3, HeadedPlaces
  <2>2. Unpacked(h) = U32(b, o + 5)
    <3>1. IsBuffer(b) /\ p[2] \in 1 .. Count(b) /\ Count(b) \in Nat
      BY ScpkPlaces
    <3>2. p[2] \in Int
      BY <3>1
    <3>3. o \in Nat /\ IsHead(b, o)
      BY <1>1, <1>3, <3>1, <3>2, OffsetIsNat
    <3> HIDE DEF b, o
    <3> QED BY <3>1, <3>3, HeadIsEnough
  <2>3. IsHead(b, o)
    BY <1>1, <1>3
  <2>4. VerdictOf(p) = IF Unpack(h).len = U32(b, o + 5) THEN "exact" ELSE "mismatch"
    <3>1. ~Raises(HeadBlock(container[p[1]], Offset(container[p[1]], p[2])))
      BY <2>1
    <3> QED BY <2>3, <3>1 DEF VerdictOf, Verdict
  <2> HIDE DEF b, o, h
  <2> QED BY <2>1, <2>2, <2>4, Zenon DEF DecodesWhole
<1> QED BY <1>2, <1>3

\* scpk.py list goes as far as it was asked to, and the tables that scpk.py member
\* shows for the lines of a full list add up to the figures of scpk.py census:
\* bundles, members, and the verdicts of those that are not empty.
THEOREM TablesAlwaysAddUp == ReportsSpec => []TablesAddUp
<1>1. Given /\ ListInv /\ LimitInv /\ ShownInv /\ ScpkAll /\ Verdicts => TablesAddUp
  <2> SUFFICES ASSUME Given, ListInv, LimitInv, ShownInv, ScpkAll, Verdicts,
                      ScpkListDone, scpkPc = "reported"
               PROVE  /\ Cardinality(Parsed) = Lesser(atMost, nb)
                      /\ Cardinality(Parsed) < atMost =>
                           /\ Len(shown) = totalMembers
                           /\ Showing({"exact"}) = exact
                           /\ Showing({"mismatch", "error"}) = mismatch
                           /\ Showing({"exact", "mismatch", "error"}) = comp
    BY DEF TablesAddUp
  <2> DEFINE N == Len(container)
             Before == {a \in Scpks : a < lk}
             Entire == {p \in Headed : DecodesWhole(p)}
             Other == {p \in Headed : ~DecodesWhole(p)}
  <2>1. /\ nb = Cardinality(Scpks)
        /\ totalMembers = SumFunction([a \in Scpks |-> Count(container[a])])
        /\ comp = Cardinality(Headed) /\ exact = Cardinality(Entire)
    <3>1. ScpkSeen = Scpks /\ HeadedSeen = Headed
      BY AllSeen DEF ScpkAll
    <3> QED BY <3>1, Zenon DEF ScpkAll, ScpkInv
  <2>2. N \in Nat /\ Scpks \subseteq 1 .. N /\ IsFiniteSet(Scpks) /\ IsFiniteSet(Headed)
    BY ScpkPlaces, LensAreNat
  <2>3. /\ Cardinality(Before) <= nb /\ Cardinality(Before) \in Nat /\ nb \in Nat
        /\ lk > N => Cardinality(Before) = nb
    <3>1. Before \in SUBSET Scpks
      OBVIOUS
    <3>2. lk > N => Before = Scpks
      <4>1. lk \in Nat
        BY <2>2 DEF ListInv
      <4>2. lk > N => \A a \in Scpks : a < lk
        BY <2>2, <4>1
      <4> QED BY <4>2
    <3> HIDE DEF Before
    <3>3. IsFiniteSet(Before) /\ Cardinality(Before) <= Cardinality(Scpks)
      BY <2>2, <3>1, FS_Subset
    <3>4. Cardinality(Before) \in Nat /\ Cardinality(Scpks) \in Nat
      BY <2>2, <3>3, FS_CardinalityType
    <3> QED BY <2>1, <3>2, <3>3, <3>4
  <2>4. /\ atMost \in Nat /\ Cardinality(Parsed) = Cardinality(Before)
        /\ Cardinality(Parsed) = atMost \/ (Cardinality(Parsed) < atMost /\ lk > N)
        /\ asked > Len(keys)
    BY DEF LimitInv, ScpkListDone
  <2>5. Cardinality(Parsed) = Lesser(atMost, nb)
    <3> HIDE DEF Before, N
    <3> QED BY <2>3, <2>4 DEF Lesser
  <2>6. ASSUME Cardinality(Parsed) < atMost
        PROVE  /\ Len(shown) = totalMembers
               /\ Showing({"exact"}) = exact
               /\ Showing({"mismatch", "error"}) = mismatch
               /\ Showing({"exact", "mismatch", "error"}) = comp
    <3>1. lk > N
      <4> HIDE DEF Before, N
      <4> QED BY <2>3, <2>4, <2>6
    <3>2. Passed = Scpks
      <4>1. \A x \in DOMAIN keys : x \in 1 .. asked - 1
        BY <2>4 DEF ListInv, ShownInv
      <4>2. \A a \in Scpks : a < lk
        BY <2>2, <3>1 DEF ListInv
      <4>3. \A a \in Scpks : \E x \in DOMAIN keys : keys[x] = a
        BY <4>2 DEF ListInv
      <4>4. \A a \in Scpks : \E x \in 1 .. asked - 1 : keys[x] = a
        BY <4>1, <4>3
      <4> QED BY <4>4 DEF Passed
    <3>3. ShownSeen = Filled
      <4>1. \A p \in Filled : p[1] \in Passed
        BY <3>2, ScpkPlaces
      <4> QED BY <4>1 DEF ShownSeen
    <3>4. Len(shown) = totalMembers
      <4> DEFINE T == SumFunction([a \in Scpks |-> Count(container[a])])
      <4>1. se = 1 /\ Len(shown) = T + (se - 1) /\ shown \in Seq([size : Nat, verdict : Printed])
        <5>1. ~(asked <= Len(keys))
          BY <2>4 DEF ListInv, ShownInv
        <5> QED BY <3>2, <5>1 DEF ShownInv
      <4>2. T \in Nat
        <5> DEFINE f == [a \in Scpks |-> Count(container[a])]
        <5>1. DOMAIN f = Scpks /\ \A a \in Scpks : f[a] \in Nat
          BY ScpkPlaces
        <5> HIDE DEF f
        <5>2. SumFunction(f) \in Nat
          BY <2>2, <5>1, SumIsNatural
        <5> QED BY <5>2 DEF f
      <4>3. totalMembers = T
        BY <2>1
      <4> HIDE DEF T
      <4> QED BY <4>1, <4>2, <4>3
    <3>5. ASSUME NEW S \in SUBSET Printed
          PROVE  Showing(S) = Cardinality({p \in Filled : VerdictOf(p) \in S})
      BY <3>3, Zenon DEF ShownInv
    <3>6. Headed \subseteq Filled
      BY ScpkPlaces
    <3>7. {p \in Filled : VerdictOf(p) \in {"exact"}} = Entire
      BY <3>6, VerdictIsOf
    <3>8. {p \in Filled : VerdictOf(p) \in {"mismatch", "error"}} = Other
      BY <3>6, VerdictIsOf
    <3>9. {p \in Filled : VerdictOf(p) \in {"exact", "mismatch", "error"}} = Headed
      BY <3>6, VerdictIsOf
    <3>10. /\ {"exact"} \in SUBSET Printed /\ {"mismatch", "error"} \in SUBSET Printed
           /\ {"exact", "mismatch", "error"} \in SUBSET Printed
      BY DEF Printed
    <3>11. /\ Showing({"exact"}) = Cardinality(Entire)
           /\ Showing({"mismatch", "error"}) = Cardinality(Other)
           /\ Showing({"exact", "mismatch", "error"}) = Cardinality(Headed)
      BY <3>5, <3>7, <3>8, <3>9, <3>10
    <3>12. Cardinality(Headed) = Cardinality(Entire) + Cardinality(Other)
           /\ Cardinality(Entire) \in Nat /\ Cardinality(Other) \in Nat
      <4>1. Entire \in SUBSET Headed /\ Other \in SUBSET Headed
        OBVIOUS
      <4>2. IsFiniteSet(Entire) /\ IsFiniteSet(Other)
        BY <2>2, <4>1, FS_Subset
      <4>3. Entire \cup Other = Headed /\ Entire \cap Other = {}
        OBVIOUS
      <4> HIDE DEF Entire, Other
      <4>4. Cardinality(Entire \cup Other) = Cardinality(Entire) + Cardinality(Other) - Cardinality(Entire \cap Other)
        BY <4>2, FS_Union
      <4>5. Cardinality({}) = 0 /\ Cardinality(Entire) \in Nat /\ Cardinality(Other) \in Nat
        BY <4>2, FS_EmptySet, FS_CardinalityType
      <4>6. Cardinality(Headed) = Cardinality(Entire) + Cardinality(Other) - 0
        BY <4>3, <4>4, <4>5, Zenon
      <4> QED BY <4>5, <4>6
    <3>13. mismatch = Cardinality(Other)
      <4> HIDE DEF Entire, Other
      <4> QED BY <2>1, <3>12 DEF Verdicts
    <3> QED BY <2>1, <3>4, <3>11, <3>13, Zenon
  <2> QED BY <2>5, <2>6
<1> QED BY <1>1, TablesAlways, ReportsLeaveCensuses, ScpkAlways, VerdictsAlways, PTL

-----------------------------------------------------------------------------
(* Archives, as the census opens them and as they are listed               *)

\* The members that decode to an archive, and how many parts each has.
Listable == {a \in 1 .. Len(container) : IsListed(container[a])}

HowMany(a) == U32(Unpack(container[a]), 0)

ArchivesSeen == {a \in Listable : nested /\ (a < i \/ (a = i /\ pc = "parts"))}

ArchivedInv ==
  /\ archives = Cardinality(ArchivesSeen)
  /\ archiveMembers = SumFunction([a \in ArchivesSeen |-> HowMany(a)])

\* Their parts, and the kind each is shown as.
ShownParts == UNION {{<<a, q>> : q \in 1 .. HowMany(a)} : a \in Listable}

KindAt(p) ==
  PartKind(Unpack(container[p[1]]), ArchiveParts(Unpack(container[p[1]]))[p[2]])

Line(a) == [of |-> a, parts |-> HowMany(a), kinds |-> PartKinds(Unpack(container[a]))]

\* The archives whose lines would be printed by now, and their parts of a kind.
LinedSeen == {a \in Listable : a < am}

ShownOf(v) == {p \in ShownParts : p[1] < am /\ KindAt(p) = v}

LinesInv ==
  /\ am \in 1 .. Len(container) + 1
  /\ lines \in Seq({Line(a) : a \in Listable})
  /\ Len(lines) = Cardinality(LinedSeen)
  /\ \A a \in LinedSeen : \E x \in DOMAIN lines : lines[x].of = a
  /\ SumFunction([x \in DOMAIN lines |-> lines[x].parts]) = SumFunction([a \in LinedSeen |-> HowMany(a)])
  /\ \A m \in Known : Listed(m) = Cardinality(ShownOf(BlockKind(m)))

LinesLimitInv ==
  /\ limit \in Nat
  /\ apc \in {"idle", "listing", "listed"}
  /\ apc = "idle" => lines = <<>>
  /\ apc = "listing" => Len(lines) < limit
  /\ apc = "listed" => Len(lines) = limit \/ (Len(lines) < limit /\ am > Len(container))


LEMMA ListablesAre ==
  ASSUME Given
  PROVE  /\ Listable \subseteq 1 .. Len(container) /\ IsFiniteSet(Listable)
         /\ \A a \in Listable :
              LET out == Unpack(container[a])
              IN  /\ IsBuffer(out) /\ IsArchive(out) /\ HowMany(a) \in Nat
                  /\ ArchiveParts(out) \in Seq([off : Nat, size : Nat])
                  /\ Len(ArchiveParts(out)) = HowMany(a)
                  /\ DOMAIN ArchiveParts(out) = 1 .. HowMany(a)
                  /\ Whole(a) = out /\ (nested => PartsOf(a) = ArchiveParts(out))
<1>1. Listable \in SUBSET (1 .. Len(container)) /\ IsFiniteSet(1 .. Len(container))
  BY LensAreNat, FS_Interval DEF Listable
<1>2. IsFiniteSet(Listable)
  BY <1>1, FS_Subset
<1>3. ASSUME NEW a \in Listable
      PROVE  LET out == Unpack(container[a])
             IN  /\ IsBuffer(out) /\ IsArchive(out) /\ HowMany(a) \in Nat
                 /\ ArchiveParts(out) \in Seq([off : Nat, size : Nat])
                 /\ Len(ArchiveParts(out)) = HowMany(a)
                 /\ DOMAIN ArchiveParts(out) = 1 .. HowMany(a)
                 /\ Whole(a) = out /\ (nested => PartsOf(a) = ArchiveParts(out))
  <2> DEFINE out == Unpack(container[a])
             e == ArchiveParts(out)
  <2>1. a \in 1 .. Len(container) /\ IsBuffer(container[a])
    BY <1>1, LensAreNat
  <2>2. container[a].len >= 16 /\ container[a].len \in Nat /\ IsBlock(container[a]) /\ IsArchive(out)
    BY <2>1 DEF Listable, IsListed, IsBuffer
  <2>3. Whole(a) = out
    BY <2>2, Zenon DEF Whole
  <2>4. IsBuffer(out)
    BY <2>1, <2>3, WholeIsBuffer
  <2>5. HowMany(a) \in Nat
    BY <2>4, WordIsNat DEF HowMany
  <2>6. ~(container[a].len < 16)
    BY <2>2
  <2>7. nested => PartsOf(a) = e
    BY <2>2, <2>3, <2>6, Zenon DEF PartsOf
  <2>8. e \in Seq([off : Nat, size : Nat])
    BY <2>2, <2>4, ArchiveTiles, Zenon DEF Tiles
  <2>9. DOMAIN e = 1 .. HowMany(a)
    BY DEF ArchiveParts, HowMany
  <2>10. Len(e) = HowMany(a)
    <3> DEFINE R == [off : Nat, size : Nat]
    <3>1. e \in Seq(R)
      BY <2>8
    <3> HIDE DEF e, R
    <3> QED BY <2>5, <2>9, <3>1
  <2> QED BY <2>2, <2>3, <2>4, <2>5, <2>7, <2>8, <2>9, <2>10
<1> QED BY <1>1, <1>2, <1>3

LEMMA ListableStay ==
  ASSUME container' = container
  PROVE  /\ Listable' = Listable /\ ShownParts' = ShownParts
         /\ \A a : HowMany(a)' = HowMany(a) /\ Line(a)' = Line(a) /\ KindAt(a)' = KindAt(a)
<1>1. Listable' = Listable
  BY DEF Listable
<1>2. \A a : HowMany(a)' = HowMany(a)
  BY DEF HowMany
<1>3. \A a : Line(a)' = Line(a) /\ KindAt(a)' = KindAt(a)
  BY <1>2 DEF Line, KindAt
<1>4. ShownParts' = ShownParts
  <2> DEFINE Q(a) == {<<a, q>> : q \in 1 .. HowMany(a)}
  <2>1. \A a : Q(a)' = Q(a)
    BY <1>2
  <2>2. ShownParts = UNION {Q(a) : a \in Listable} /\ ShownParts' = UNION {Q(a)' : a \in Listable'}
    BY DEF ShownParts
  <2> HIDE DEF Q
  <2>3. UNION {Q(a)' : a \in Listable'} = UNION {Q(a) : a \in Listable}
    BY <1>1, <2>1
  <2> QED BY <2>2, <2>3
<1> QED BY <1>1, <1>2, <1>3, <1>4

\* One more archive: its parts are added.
LEMMA PartsGrow ==
  ASSUME Given, NEW S, S \subseteq Listable, NEW w \in Listable \ S
  PROVE  /\ Cardinality(S \cup {w}) = Cardinality(S) + 1 /\ Cardinality(S) \in Nat
         /\ SumFunction([a \in S \cup {w} |-> HowMany(a)])
              = SumFunction([a \in S |-> HowMany(a)]) + HowMany(w)
         /\ SumFunction([a \in S |-> HowMany(a)]) \in Nat
<1> DEFINE f == [a \in S |-> HowMany(a)]
           g == [a \in S \cup {w} |-> HowMany(a)]
<1>1. S \in SUBSET Listable /\ IsFiniteSet(Listable) /\ \A a \in Listable : HowMany(a) \in Nat
  BY ListablesAre
<1>2. IsFiniteSet(S)
  BY <1>1, FS_Subset
<1>3. Cardinality(S \cup {w}) = Cardinality(S) + 1 /\ Cardinality(S) \in Nat
  BY <1>2, FS_AddElement, FS_CardinalityType
<1>4. /\ DOMAIN f = S /\ DOMAIN g = S \cup {w} /\ g[w] = HowMany(w) /\ g[w] \in Nat
      /\ \A a \in S : g[a] = f[a] /\ f[a] \in Nat
  BY <1>1
<1> HIDE DEF f, g
<1>5. SumFunction(g) = SumFunction(f) + g[w] /\ SumFunction(f) \in Nat
  BY <1>2, <1>4, SumGrows
<1> QED BY <1>3, <1>4, <1>5, Zenon DEF f, g

LEMMA ArchivedStep ==
  ASSUME TypeInv, ArchivedInv, CensusStep, UNCHANGED <<container, nested>>
  PROVE  ArchivedInv'
<1>1. /\ Given /\ i \in 1 .. Len(container) + 1 /\ i \in Nat /\ Len(container) \in Nat
      /\ \A a \in 1 .. Len(container) : IsBuffer(container[a])
  <2>1. Given /\ CensusTypeOK
    BY DEF TypeInv, TypeOK
  <2> QED BY <2>1, LensAreNat DEF CensusTypeOK
<1>2. /\ archives = Cardinality(ArchivesSeen)
      /\ archiveMembers = SumFunction([a \in ArchivesSeen |-> HowMany(a)])
  BY DEF ArchivedInv
<1>3. Listable \subseteq 1 .. Len(container)
  BY <1>1, ListablesAre
<1>4. ArchivesSeen' = {a \in Listable : nested /\ (a < i' \/ (a = i' /\ pc' = "parts"))}
  BY ListableStay DEF ArchivesSeen
<1>5. ArchivedInv' <=>
      /\ archives' = Cardinality(ArchivesSeen')
      /\ archiveMembers' = SumFunction([a \in ArchivesSeen' |-> HowMany(a)])
  BY ListableStay, Zenon DEF ArchivedInv
<1>6. \A a \in Listable : a < i + 1 <=> a < i \/ a = i
  BY <1>1, <1>3
<1>7. CASE CountArchive
  <2>1. /\ i \in 1 .. Len(container) /\ nested /\ IsListed(container[i]) /\ i' = i
        /\ pc = "members" /\ pc' = "parts" /\ archives' = archives + 1
        /\ parts' = ArchiveParts(Unpack(container[i]))
        /\ archiveMembers' = archiveMembers + Len(parts')
    BY <1>1, <1>7 DEF CountArchive, Opens, IsListed
  <2>2. i \in Listable
    BY <2>1 DEF Listable
  <2>3. i \notin ArchivesSeen /\ ArchivesSeen' = ArchivesSeen \cup {i} /\ ArchivesSeen \subseteq Listable
    BY <1>1, <1>4, <2>1, <2>2 DEF ArchivesSeen
  <2>4. archiveMembers' = archiveMembers + HowMany(i)
    BY <1>1, <2>1, <2>2, ListablesAre
  <2>5. /\ Cardinality(ArchivesSeen \cup {i}) = Cardinality(ArchivesSeen) + 1
        /\ SumFunction([a \in ArchivesSeen \cup {i} |-> HowMany(a)])
             = SumFunction([a \in ArchivesSeen |-> HowMany(a)]) + HowMany(i)
    BY <1>1, <2>2, <2>3, PartsGrow
  <2>6. /\ archives' = Cardinality(ArchivesSeen \cup {i})
        /\ archiveMembers' = SumFunction([a \in ArchivesSeen \cup {i} |-> HowMany(a)])
    BY <1>2, <2>1, <2>4, <2>5, Zenon
  <2> QED BY <1>5, <2>3, <2>6, Zenon
<1>8. ASSUME ArchivesSeen' = ArchivesSeen, archives' = archives, archiveMembers' = archiveMembers
      PROVE  ArchivedInv'
  BY <1>2, <1>5, <1>8, Zenon
<1>9. CASE SkipMember \/ PassRaw \/ OpenBundle \/ CountBlock
  <2>1. /\ i \in 1 .. Len(container) /\ pc = "members" /\ archives' = archives
        /\ archiveMembers' = archiveMembers
        /\ (i' = i + 1 /\ pc' = "members") \/ (i' = i /\ pc' = "parts")
    BY <1>1, <1>9 DEF SkipMember, PassRaw, OpenBundle, CountBlock
  <2>2. ~(nested /\ i \in Listable)
    <3>1. CASE SkipMember
      <4>1. container[i].len \in Nat /\ container[i].len < 16
        BY <1>1, <2>1, <3>1 DEF SkipMember, IsBuffer
      <4>2. ~(container[i].len >= 16)
        BY <4>1
      <4> QED BY <4>2, Zenon DEF Listable, IsListed
    <3>2. CASE PassRaw \/ OpenBundle
      BY <3>2, Zenon DEF Listable, IsListed, PassRaw, OpenBundle
    <3>3. CASE CountBlock
      <4>1. container[i].len >= 16 /\ IsBlock(container[i]) /\ container[i].len \in Nat
        BY <1>1, <2>1, <3>3 DEF CountBlock, IsBuffer
      <4>2. ~Raises(container[i])
        BY <4>1 DEF Raises, IsBlock
      <4> QED BY <3>3, <4>2, Zenon DEF Listable, IsListed, CountBlock, Opens
    <3> QED BY <1>9, <3>1, <3>2, <3>3
  <2>3. ArchivesSeen' = ArchivesSeen
    <3>1. ArchivesSeen = {a \in Listable : nested /\ a < i}
      BY <2>1 DEF ArchivesSeen
    <3>2. ArchivesSeen' = {a \in Listable : nested /\ (a < i \/ a = i)}
      BY <1>4, <1>6, <2>1
    <3> QED BY <2>2, <3>1, <3>2
  <2> QED BY <1>8, <2>1, <2>3
<1>10. CASE SkipPart \/ CountPart \/ CensusDone
  <2>1. /\ i' = i /\ archives' = archives /\ archiveMembers' = archiveMembers
        /\ (pc' = "parts" <=> pc = "parts")
    BY <1>10 DEF SkipPart, CountPart, CensusDone
  <2>2. ArchivesSeen' = ArchivesSeen
    BY <1>4, <2>1 DEF ArchivesSeen
  <2> QED BY <1>8, <2>1, <2>2
<1>11. CASE PartsDone
  <2>1. /\ i' = i + 1 /\ pc = "parts" /\ pc' = "members" /\ archives' = archives
        /\ archiveMembers' = archiveMembers
    BY <1>11 DEF PartsDone
  <2>2. ArchivesSeen' = ArchivesSeen
    BY <1>4, <1>6, <2>1 DEF ArchivesSeen
  <2> QED BY <1>8, <2>1, <2>2
<1> QED BY <1>7, <1>9, <1>10, <1>11 DEF CensusStep

LEMMA ArchivedAlways == DiscSpec => []ArchivedInv
<1>1. DiscInit => ArchivedInv
  <2> SUFFICES ASSUME DiscInit PROVE ArchivedInv
    OBVIOUS
  <2>1. Given /\ i = 1 /\ pc = "members" /\ archives = 0 /\ archiveMembers = 0
    BY DEF DiscInit, BothInit, Init, Given
  <2>2. ArchivesSeen = {}
    <3>1. \A a \in Listable : ~(a < 1)
      BY <2>1, ListablesAre
    <3> QED BY <2>1, <3>1 DEF ArchivesSeen
  <2>3. SumFunction([a \in {} |-> HowMany(a)]) = 0
    BY SumOfEmpty
  <2> QED BY <2>1, <2>2, <2>3, FS_EmptySet, Zenon DEF ArchivedInv
<1>2. TypeInv /\ ArchivedInv /\ [DiscNext]_allVars => ArchivedInv'
  <2> SUFFICES ASSUME TypeInv, ArchivedInv, [DiscNext]_allVars PROVE ArchivedInv'
    OBVIOUS
  <2>1. container' = container /\ nested' = nested
    BY ContainerStays
  <2>2. CASE Codec
    BY <2>1, <2>2, ArchivedStep DEF Codec
  <2>3. CASE UNCHANGED <<i, pc, archives, archiveMembers>>
    <3>1. ArchivesSeen' = ArchivesSeen
      BY <2>1, <2>3, ListableStay DEF ArchivesSeen
    <3>2. SumFunction([a \in ArchivesSeen |-> HowMany(a)])' = SumFunction([a \in ArchivesSeen |-> HowMany(a)])
      BY <2>1, <3>1, ListableStay, Zenon
    <3> QED BY <2>3, <3>1, <3>2, Zenon DEF ArchivedInv
  <2> QED BY <2>2, <2>3 DEF DiscNext, DiscDone, allVars, vars, censusVars, BinStep, BinOther,
                            BinBlock, CountKind
<1> QED BY <1>1, <1>2, TypeAlways, PTL DEF DiscSpec

LEMMA ShownPlaces ==
  ASSUME Given
  PROVE  /\ IsFiniteSet(ShownParts)
         /\ \A p : p \in ShownParts <=> \E a \in Listable : \E q \in 1 .. HowMany(a) : p = <<a, q>>
         /\ \A p \in ShownParts : /\ p[1] \in Listable /\ p[2] \in 1 .. HowMany(p[1])
                                  /\ p = <<p[1], p[2]>>
<1> DEFINE Q(a) == {<<a, q>> : q \in 1 .. HowMany(a)}
<1>1. IsFiniteSet(Listable) /\ \A a \in Listable : HowMany(a) \in Nat
  BY ListablesAre
<1>2. ASSUME NEW a \in Listable PROVE IsFiniteSet(Q(a))
  <2> DEFINE E == 1 .. HowMany(a)
             f == [q \in E |-> <<a, q>>]
  <2>1. IsFiniteSet(E)
    BY <1>1, FS_Interval
  <2>2. DOMAIN f = E /\ Q(a) = {f[q] : q \in DOMAIN f}
    OBVIOUS
  <2> HIDE DEF E, Q, f
  <2> QED BY <2>1, <2>2, ImageIsFinite
<1>3. IsFiniteSet(ShownParts)
  <2> DEFINE f == [a \in Listable |-> Q(a)]
  <2>1. ShownParts = UNION {Q(a) : a \in Listable}
    BY DEF ShownParts
  <2> HIDE DEF Q
  <2>2. DOMAIN f = Listable /\ {Q(a) : a \in Listable} = {f[a] : a \in DOMAIN f}
    OBVIOUS
  <2> HIDE DEF f
  <2>3. IsFiniteSet({Q(a) : a \in Listable})
    BY <1>1, <2>2, ImageIsFinite
  <2> QED BY <1>2, <2>1, <2>3, FS_UNION
<1>4. \A p : p \in ShownParts <=> \E a \in Listable : \E q \in 1 .. HowMany(a) : p = <<a, q>>
  BY DEF ShownParts
<1>5. ASSUME NEW p \in ShownParts
      PROVE  p[1] \in Listable /\ p[2] \in 1 .. HowMany(p[1]) /\ p = <<p[1], p[2]>>
  <2>1. PICK a \in Listable : \E q \in 1 .. HowMany(a) : p = <<a, q>>
    BY <1>4
  <2>2. PICK q \in 1 .. HowMany(a) : p = <<a, q>>
    BY <2>1
  <2>3. p[1] = a /\ p[2] = q
    BY <2>2
  <2> QED BY <2>2, <2>3
<1> QED BY <1>3, <1>4, <1>5

\* A line says of how many parts an archive has of a kind.
ShownIn(a, v) == {p \in ShownParts : p[1] = a /\ KindAt(p) = v}

Saying(l, v) == IF v \in DOMAIN l.kinds THEN l.kinds[v] ELSE 0

LEMMA LineSays ==
  ASSUME Given, NEW a \in Listable, NEW v
  PROVE  /\ Saying(Line(a), v) = Cardinality(ShownIn(a, v))
         /\ Cardinality(ShownIn(a, v)) \in Nat /\ IsFiniteSet(ShownIn(a, v))
<1> DEFINE out == Unpack(container[a])
           e == ArchiveParts(out)
           E == {q \in DOMAIN e : PartKind(out, e[q]) = v}
           V == {PartKind(out, e[q]) : q \in DOMAIN e}
           ks == PartKinds(out)
           f == [q \in E |-> <<a, q>>]
<1>1. DOMAIN e = 1 .. HowMany(a) /\ HowMany(a) \in Nat
  BY ListablesAre
<1>2. IsFiniteSet(E) /\ Cardinality(E) \in Nat
  <2>1. IsFiniteSet(DOMAIN e) /\ E \in SUBSET DOMAIN e
    BY <1>1, FS_Interval
  <2> HIDE DEF E, e
  <2> QED BY <2>1, FS_Subset, FS_CardinalityType
<1>3. \A q : KindAt(<<a, q>>) = PartKind(out, e[q])
  <2> SUFFICES ASSUME NEW q PROVE KindAt(<<a, q>>) = PartKind(out, e[q])
    OBVIOUS
  <2>1. <<a, q>>[1] = a /\ <<a, q>>[2] = q
    OBVIOUS
  <2> QED BY <2>1, Zenon DEF KindAt
<1>4. ShownIn(a, v) = {f[q] : q \in DOMAIN f}
  <2>1. ASSUME NEW p \in ShownIn(a, v) PROVE p \in {f[q] : q \in DOMAIN f}
    <3>1. p[2] \in DOMAIN e /\ p = <<a, p[2]>> /\ KindAt(p) = v
      BY <1>1, <2>1, ShownPlaces DEF ShownIn
    <3>2. PartKind(out, e[p[2]]) = v
      BY <1>3, <3>1, Zenon
    <3>3. p[2] \in E
      BY <3>1, <3>2
    <3> HIDE DEF E
    <3> QED BY <3>1, <3>3
  <2>2. ASSUME NEW q \in E PROVE f[q] \in ShownIn(a, v)
    <3>1. f[q] = <<a, q>> /\ q \in 1 .. HowMany(a) /\ PartKind(out, e[q]) = v
      BY <1>1, <2>2
    <3>2. KindAt(<<a, q>>) = v
      BY <1>3, <3>1, Zenon
    <3>3. <<a, q>> \in ShownParts /\ <<a, q>>[1] = a
      BY <3>1, ShownPlaces
    <3> QED BY <3>1, <3>2, <3>3 DEF ShownIn
  <2>3. DOMAIN f = E
    OBVIOUS
  <2> HIDE DEF f, E
  <2> QED BY <2>1, <2>2, <2>3
<1>5. DOMAIN f = E /\ \A x, y \in E : f[x] = f[y] => x = y
  BY DEF f
<1>6. IsFiniteSet(ShownIn(a, v)) /\ Cardinality(ShownIn(a, v)) = Cardinality(E)
  <2> HIDE DEF E, f
  <2> QED BY <1>2, <1>4, <1>5, ImageIsFinite
<1>7. Line(a).kinds = ks
  BY Zenon DEF Line
<1>8. DOMAIN ks = V /\ \A z \in V : ks[z] = Cardinality({q \in DOMAIN e : PartKind(out, e[q]) = z})
  BY DEF PartKinds
<1>9. v \in V => ks[v] = Cardinality(E)
  BY <1>8
<1>10. v \notin V => E = {}
  OBVIOUS
<1>11. Cardinality({}) = 0
  BY FS_EmptySet
<1> HIDE DEF E, V, ks
<1> QED BY <1>2, <1>6, <1>7, <1>8, <1>9, <1>10, <1>11 DEF Saying
LEMMA SumAppends ==
  ASSUME NEW R, NEW s \in Seq(R), NEW t \in R, NEW f, NEW g,
         DOMAIN f = DOMAIN s, DOMAIN g = DOMAIN Append(s, t), g[Len(s) + 1] \in Nat,
         \A x \in DOMAIN s : g[x] = f[x] /\ f[x] \in Nat
  PROVE  SumFunction(g) = SumFunction(f) + g[Len(s) + 1] /\ SumFunction(f) \in Nat
<1>1. /\ DOMAIN s = 1 .. Len(s) /\ Len(s) \in Nat /\ Len(s) + 1 \notin DOMAIN s
      /\ DOMAIN Append(s, t) = DOMAIN s \cup {Len(s) + 1}
  OBVIOUS
<1>2. IsFiniteSet(DOMAIN s)
  BY <1>1, FS_Interval
<1> QED BY <1>1, <1>2, SumGrows

\* What the listing has said so far of a kind.
ListedAs(v) == SumFunction([x \in DOMAIN lines |-> Saying(lines[x], v)])

LEMMA ListedIs == \A m : Listed(m) = ListedAs(BlockKind(m))
BY DEF Listed, ListedAs, Saying

LEMMA LinesInvInit == ReportsInit => LinesInv /\ LinesLimitInv
<1> SUFFICES ASSUME ReportsInit PROVE LinesInv /\ LinesLimitInv
  OBVIOUS
<1>1. Given /\ limit = 0 /\ am = 1 /\ lines = <<>> /\ apc = "idle"
  BY DEF ReportsInit, DiscInit, BothInit, Init, Given, ListingInit
<1>2. LinedSeen = {} /\ \A v : ShownOf(v) = {}
  <2>1. \A a \in Listable : ~(a < 1)
    BY <1>1, ListablesAre
  <2>2. \A p \in ShownParts : p[1] \in Listable
    BY <1>1, ShownPlaces
  <2> QED BY <1>1, <2>1, <2>2 DEF LinedSeen, ShownOf
<1>3. am \in 1 .. Len(container) + 1
  BY <1>1, LensAreNat
<1>4. lines \in Seq({Line(a) : a \in Listable}) /\ Len(lines) = 0 /\ DOMAIN lines = {}
  BY <1>1
<1>5. Cardinality(LinedSeen) = 0 /\ \A v : Cardinality(ShownOf(v)) = 0
  BY <1>2, FS_EmptySet
<1>6. /\ SumFunction([x \in DOMAIN lines |-> lines[x].parts]) = 0
      /\ SumFunction([a \in LinedSeen |-> HowMany(a)]) = 0
      /\ \A v : ListedAs(v) = 0
  <2>1. SumFunction([x \in DOMAIN lines |-> lines[x].parts]) = 0
    BY <1>4, SumOfEmpty
  <2>2. SumFunction([a \in LinedSeen |-> HowMany(a)]) = 0
    BY <1>2, SumOfEmpty
  <2>3. ASSUME NEW v PROVE ListedAs(v) = 0
    <3> DEFINE f == [x \in DOMAIN lines |-> Saying(lines[x], v)]
    <3>1. DOMAIN f = {} /\ ListedAs(v) = SumFunction(f)
      BY <1>4 DEF ListedAs
    <3> QED BY <3>1, SumOfEmpty
  <2> QED BY <2>1, <2>2, <2>3
<1>7. LinesInv
  BY <1>2, <1>3, <1>4, <1>5, <1>6, ListedIs DEF LinesInv
<1>8. LinesLimitInv
  BY <1>1 DEF LinesLimitInv
<1> QED BY <1>7, <1>8

LEMMA LineAdds ==
  ASSUME Given, LinesInv, ListArchive, container' = container
  PROVE  /\ am \in Listable /\ am \in Nat /\ am' = am + 1 /\ am' \in 1 .. Len(container) + 1
         /\ lines' = Append(lines, Line(am)) /\ lines' \in Seq({Line(a) : a \in Listable})
         /\ Len(lines') = Len(lines) + 1 /\ Len(lines) \in Nat
         /\ LinedSeen' = LinedSeen \cup {am} /\ am \notin LinedSeen /\ LinedSeen \subseteq Listable
         /\ \A a \in LinedSeen' : \E x \in DOMAIN lines' : lines'[x].of = a
         /\ \A v : ShownOf(v)' = ShownOf(v) \cup ShownIn(am, v) /\ ShownOf(v) \cap ShownIn(am, v) = {}
<1> DEFINE R == {Line(a) : a \in Listable}
<1>1. /\ am \in 1 .. Len(container) /\ am' = am + 1 /\ IsListed(container[am])
      /\ lines' = Append(lines, Line(am)) /\ Len(container) \in Nat /\ am \in Nat
  <2>1. am \in 1 .. Len(container) + 1 /\ am <= Len(container) /\ Len(container) \in Nat
    BY LensAreNat DEF LinesInv, ListArchive
  <2> QED BY <2>1 DEF ListArchive, Line, HowMany
<1>2. am \in Listable /\ Listable \subseteq 1 .. Len(container)
  BY <1>1, ListablesAre DEF Listable
<1>3. lines \in Seq(R) /\ Line(am) \in R
  BY <1>2 DEF LinesInv
<1>4. Line(am).of = am
  BY DEF Line
<1>5. /\ lines' \in Seq(R) /\ Len(lines') = Len(lines) + 1 /\ Len(lines) \in Nat
      /\ DOMAIN lines' = DOMAIN lines \cup {Len(lines) + 1} /\ lines'[Len(lines) + 1] = Line(am)
      /\ \A x \in DOMAIN lines : lines'[x] = lines[x]
  <2> HIDE DEF R
  <2> QED BY <1>1, <1>3
<1>6. \A a \in Listable : a < am + 1 <=> a < am \/ a = am
  BY <1>1, <1>2
<1>7. LinedSeen' = LinedSeen \cup {am} /\ am \notin LinedSeen /\ LinedSeen \subseteq Listable
  <2>1. LinedSeen' = {a \in Listable : a < am + 1}
    BY <1>1, ListableStay DEF LinedSeen
  <2>2. ~(am < am)
    BY <1>1
  <2> QED BY <1>2, <1>6, <2>1, <2>2 DEF LinedSeen
<1>8. \A a \in LinedSeen' : \E x \in DOMAIN lines' : lines'[x].of = a
  <2> SUFFICES ASSUME NEW a \in LinedSeen \cup {am} PROVE \E x \in DOMAIN lines' : lines'[x].of = a
    BY <1>7
  <2>1. CASE a \in LinedSeen
    <3>1. PICK x \in DOMAIN lines : lines[x].of = a
      BY <2>1 DEF LinesInv
    <3> QED BY <1>5, <3>1, Zenon
  <2>2. CASE a = am
    BY <1>4, <1>5, <2>2, Zenon
  <2> QED BY <2>1, <2>2
<1>9. ASSUME NEW v
      PROVE  ShownOf(v)' = ShownOf(v) \cup ShownIn(am, v) /\ ShownOf(v) \cap ShownIn(am, v) = {}
  <2>1. \A p \in ShownParts : p[1] \in Listable
    BY ShownPlaces
  <2>2. ShownOf(v)' = {p \in ShownParts : p[1] < am + 1 /\ KindAt(p) = v}
    BY <1>1, ListableStay DEF ShownOf
  <2>3. \A p \in ShownParts : p[1] < am + 1 <=> p[1] < am \/ p[1] = am
    BY <1>6, <2>1
  <2>4. ~(am < am)
    BY <1>1
  <2> QED BY <2>2, <2>3, <2>4 DEF ShownOf, ShownIn
<1> QED BY <1>1, <1>2, <1>5, <1>7, <1>8, <1>9 DEF R
LEMMA ShownAdds ==
  ASSUME Given, LinesInv, ListArchive, container' = container
  PROVE  \A v : Cardinality(ShownOf(v)') = Cardinality(ShownOf(v)) + Saying(Line(am), v)
                /\ Cardinality(ShownOf(v)) \in Nat /\ Saying(Line(am), v) \in Nat
<1> SUFFICES ASSUME NEW v
             PROVE  Cardinality(ShownOf(v)') = Cardinality(ShownOf(v)) + Saying(Line(am), v)
                    /\ Cardinality(ShownOf(v)) \in Nat /\ Saying(Line(am), v) \in Nat
  OBVIOUS
<1> DEFINE S == ShownOf(v)
           T == ShownIn(am, v)
<1>1. am \in Listable /\ ShownOf(v)' = S \cup T /\ S \cap T = {}
  BY LineAdds
<1>2. IsFiniteSet(T) /\ Cardinality(T) \in Nat /\ Saying(Line(am), v) = Cardinality(T)
  BY <1>1, LineSays
<1>3. IsFiniteSet(S)
  <2>1. S \in SUBSET ShownParts /\ IsFiniteSet(ShownParts)
    BY ShownPlaces DEF ShownOf
  <2> QED BY <2>1, FS_Subset
<1> HIDE DEF S, T
<1>4. Cardinality(S \cup T) = Cardinality(S) + Cardinality(T) - Cardinality(S \cap T)
  BY <1>2, <1>3, FS_Union
<1>5. Cardinality(S) \in Nat /\ Cardinality({}) = 0
  BY <1>3, FS_CardinalityType, FS_EmptySet
<1>6. Cardinality(S \cup T) = Cardinality(S) + Cardinality(T)
  <2>1. Cardinality(S \cup T) = Cardinality(S) + Cardinality(T) - 0
    BY <1>1, <1>4, <1>5, Zenon
  <2> QED BY <1>2, <1>5, <2>1
<1>7. Cardinality(ShownOf(v)') = Cardinality(S \cup T)
  BY <1>1, Zenon
<1> QED BY <1>2, <1>5, <1>6, <1>7, Zenon DEF S

LEMMA SayingIsNat ==
  ASSUME Given, LinesInv, NEW x \in DOMAIN lines
  PROVE  lines[x].parts \in Nat /\ \A v : Saying(lines[x], v) \in Nat
<1> DEFINE R == {Line(a) : a \in Listable}
<1>1. lines \in Seq(R)
  BY DEF LinesInv
<1> HIDE DEF R
<1>2. lines[x] \in R
  BY <1>1
<1>3. PICK a \in Listable : lines[x] = Line(a)
  BY <1>2 DEF R
<1>4. Line(a).parts = HowMany(a)
  BY DEF Line
<1> QED BY <1>3, <1>4, ListablesAre, LineSays

LEMMA LinesInvStep ==
  ASSUME Given, LinesInv, LinesLimitInv, ListingStep, container' = container
  PROVE  LinesInv' /\ LinesLimitInv'
<1> DEFINE R == {Line(a) : a \in Listable}
           PartsSaid == SumFunction([x \in DOMAIN lines |-> lines[x].parts])
           PartsSeen == SumFunction([a \in LinedSeen |-> HowMany(a)])
<1>1. /\ am \in 1 .. Len(container) + 1 /\ am \in Nat /\ Len(container) \in Nat
      /\ lines \in Seq(R) /\ Len(lines) = Cardinality(LinedSeen) /\ Len(lines) \in Nat
      /\ PartsSaid = PartsSeen
      /\ \A m \in Known : ListedAs(BlockKind(m)) = Cardinality(ShownOf(BlockKind(m)))
  <2>1. /\ lines \in Seq(R) /\ Len(lines) = Cardinality(LinedSeen)
        /\ PartsSaid = PartsSeen
    BY DEF LinesInv
  <2>2. \A m \in Known : ListedAs(BlockKind(m)) = Cardinality(ShownOf(BlockKind(m)))
    BY ListedIs, Zenon DEF LinesInv
  <2>3. am \in 1 .. Len(container) + 1 /\ Len(container) \in Nat
    BY LensAreNat DEF LinesInv
  <2> HIDE DEF R, PartsSaid, PartsSeen
  <2>4. am \in Nat /\ Len(lines) \in Nat
    BY <2>1, <2>3
  <2> QED BY <2>1, <2>2, <2>3, <2>4
<1>2. R' = R
  BY ListableStay
<1>3. LinesInv' <=>
      /\ am' \in 1 .. Len(container) + 1
      /\ lines' \in Seq(R)
      /\ Len(lines') = Cardinality(LinedSeen')
      /\ \A a \in LinedSeen' : \E x \in DOMAIN lines' : lines'[x].of = a
      /\ PartsSaid' = PartsSeen'
      /\ \A m \in Known : ListedAs(BlockKind(m))' = Cardinality(ShownOf(BlockKind(m))')
  <2>1. \A m : Listed(m)' = ListedAs(BlockKind(m))'
    BY ListedIs DEF Listed, ListedAs, Saying
  <2> HIDE DEF R, PartsSaid, PartsSeen
  <2>2. LinesInv' <=>
      /\ am' \in 1 .. Len(container') + 1
      /\ lines' \in Seq(R')
      /\ Len(lines') = Cardinality(LinedSeen')
      /\ \A a \in LinedSeen' : \E x \in DOMAIN lines' : lines'[x].of = a
      /\ PartsSaid' = PartsSeen'
      /\ \A m \in Known : Listed(m)' = Cardinality(ShownOf(BlockKind(m))')
    BY Zenon DEF LinesInv, R, PartsSaid, PartsSeen
  <2> QED BY <1>2, <2>1, <2>2, Zenon
<1>4. CASE ListArchive
  <2>1. /\ am \in Listable /\ am' \in 1 .. Len(container) + 1
        /\ lines' = Append(lines, Line(am)) /\ lines' \in Seq(R)
        /\ Len(lines') = Len(lines) + 1
        /\ LinedSeen' = LinedSeen \cup {am} /\ am \notin LinedSeen /\ LinedSeen \subseteq Listable
        /\ \A a \in LinedSeen' : \E x \in DOMAIN lines' : lines'[x].of = a
    BY <1>4, LineAdds
  <2>2. Line(am) \in R /\ Line(am).parts = HowMany(am) /\ HowMany(am) \in Nat
    BY <2>1, ListablesAre DEF Line
  <2>3. /\ Cardinality(LinedSeen \cup {am}) = Cardinality(LinedSeen) + 1
        /\ SumFunction([a \in LinedSeen \cup {am} |-> HowMany(a)]) = PartsSeen + HowMany(am)
    BY <2>1, PartsGrow
  <2>4. /\ lines'[Len(lines) + 1] = Line(am) /\ \A x \in DOMAIN lines : lines'[x] = lines[x]
        /\ Len(lines) + 1 \in DOMAIN lines' /\ DOMAIN lines \subseteq DOMAIN lines'
    <3> HIDE DEF R
    <3> QED BY <1>1, <2>1, <2>2
  <2>5. PartsSeen' = PartsSeen + HowMany(am)
    <3>1. \A a : HowMany(a)' = HowMany(a)
      BY ListableStay
    <3>2. PartsSeen' = SumFunction([a \in LinedSeen \cup {am} |-> HowMany(a)])
      BY <2>1, <3>1, Zenon
    <3> QED BY <2>3, <3>2
  <2>6. PartsSaid' = PartsSaid + HowMany(am)
    <3> DEFINE f == [x \in DOMAIN lines |-> lines[x].parts]
               g == [x \in DOMAIN lines' |-> lines'[x].parts]
    <3>1. /\ DOMAIN f = DOMAIN lines /\ DOMAIN g = DOMAIN Append(lines, Line(am))
          /\ g[Len(lines) + 1] = HowMany(am)
          /\ \A x \in DOMAIN lines : g[x] = f[x] /\ f[x] \in Nat
      BY <2>1, <2>2, <2>4, SayingIsNat
    <3>2. PartsSaid = SumFunction(f) /\ PartsSaid' = SumFunction(g)
      OBVIOUS
    <3> HIDE DEF f, g, R, PartsSaid
    <3>3. SumFunction(g) = SumFunction(f) + g[Len(lines) + 1]
      BY <1>1, <2>2, <3>1, SumAppends
    <3> QED BY <3>1, <3>2, <3>3
  <2>7. ASSUME NEW v PROVE ListedAs(v)' = ListedAs(v) + Saying(Line(am), v)
    <3> DEFINE f == [x \in DOMAIN lines |-> Saying(lines[x], v)]
               g == [x \in DOMAIN lines' |-> Saying(lines'[x], v)]
    <3>0. Saying(Line(am), v) \in Nat
      BY <2>1, LineSays
    <3>1. /\ DOMAIN f = DOMAIN lines /\ DOMAIN g = DOMAIN Append(lines, Line(am))
          /\ g[Len(lines) + 1] = Saying(Line(am), v)
          /\ \A x \in DOMAIN lines : g[x] = f[x] /\ f[x] \in Nat
      BY <2>1, <2>2, <2>4, SayingIsNat
    <3>2. ListedAs(v) = SumFunction(f) /\ ListedAs(v)' = SumFunction(g)
      BY DEF ListedAs, Saying
    <3> HIDE DEF f, g, R
    <3>3. g[Len(lines) + 1] \in Nat /\ lines \in Seq(R) /\ Line(am) \in R
      BY <1>1, <2>2, <3>0, <3>1, Zenon
    <3>4. SumFunction(g) = SumFunction(f) + g[Len(lines) + 1]
      BY <3>1, <3>3, SumAppends
    <3> QED BY <3>1, <3>2, <3>4
  <2>8. \A v : Cardinality(ShownOf(v)') = Cardinality(ShownOf(v)) + Saying(Line(am), v)
    BY <1>4, ShownAdds
  <2>9. \A m \in Known : ListedAs(BlockKind(m))' = Cardinality(ShownOf(BlockKind(m))')
    BY <1>1, <2>7, <2>8, Zenon
  <2>10. PartsSaid' = PartsSeen'
    BY <1>1, <2>5, <2>6, Zenon
  <2>11. Len(lines') = Cardinality(LinedSeen')
    BY <1>1, <2>1, <2>3, Zenon
  <2>12. LinesInv'
    BY <1>3, <2>1, <2>9, <2>10, <2>11, Zenon
  <2>13. LinesLimitInv'
    <3>1. limit' = limit /\ limit \in Nat /\ apc = "listing" /\ Len(lines) < limit
          /\ apc' = IF Len(lines') >= limit THEN "listed" ELSE "listing"
      BY <1>4 DEF ListArchive, LinesLimitInv
    <3>2. Len(lines') \in Nat /\ Len(lines') <= limit
      BY <1>1, <2>1, <3>1
    <3> QED BY <3>1, <3>2 DEF LinesLimitInv
  <2> QED BY <2>12, <2>13
<1>5. ASSUME lines' = lines, LinedSeen' = LinedSeen, \A v : ShownOf(v)' = ShownOf(v),
             am' \in 1 .. Len(container) + 1
      PROVE  LinesInv'
  <2>1. PartsSaid' = PartsSaid /\ \A v : ListedAs(v)' = ListedAs(v)
    BY <1>5 DEF ListedAs, Saying
  <2>2. PartsSeen' = PartsSeen
    BY <1>5, ListableStay, Zenon
  <2>3. \A a \in LinedSeen : \E x \in DOMAIN lines : lines[x].of = a
    BY DEF LinesInv
  <2> HIDE DEF R, PartsSaid, PartsSeen
  <2>4. PartsSaid' = PartsSeen'
    BY <1>1, <2>1, <2>2, Zenon
  <2>5. \A m \in Known : ListedAs(BlockKind(m))' = Cardinality(ShownOf(BlockKind(m))')
    BY <1>1, <1>5, <2>1, Zenon
  <2>6. Len(lines') = Cardinality(LinedSeen') /\ lines' \in Seq(R)
    BY <1>1, <1>5
  <2> QED BY <1>3, <1>5, <2>3, <2>4, <2>5, <2>6, Zenon
<1>6. CASE AskArchives \/ ListingEnds
  <2>1. lines' = lines /\ am' = am
    BY <1>6 DEF AskArchives, ListingEnds
  <2>2. LinedSeen' = LinedSeen /\ \A v : ShownOf(v)' = ShownOf(v)
    BY <2>1, ListableStay DEF LinedSeen, ShownOf
  <2>3. LinesInv'
    BY <1>1, <1>5, <2>1, <2>2
  <2>4. LinesLimitInv'
    <3>1. CASE AskArchives
      <4>1. limit' \in Nat /\ limit' > 0 /\ apc' = "listing" /\ lines = <<>>
        BY <3>1, LimitAssumption DEF AskArchives, LinesLimitInv
      <4> QED BY <2>1, <4>1 DEF LinesLimitInv
    <3>2. CASE ListingEnds
      <4>1. limit' = limit /\ apc' = "listed" /\ am > Len(container) /\ limit \in Nat /\ Len(lines) < limit
        BY <3>2 DEF ListingEnds, LinesLimitInv
      <4> QED BY <2>1, <4>1 DEF LinesLimitInv
    <3> QED BY <1>6, <3>1, <3>2
  <2> QED BY <2>3, <2>4
<1>7. CASE ListingPass
  <2>1. /\ lines' = lines /\ am' = am + 1 /\ am \in 1 .. Len(container) /\ ~IsListed(container[am])
        /\ limit' = limit /\ apc' = apc
    BY <1>1, <1>7 DEF ListingPass
  <2>2. am \notin Listable /\ Listable \subseteq 1 .. Len(container)
    BY <2>1, ListablesAre DEF Listable
  <2>3. \A a \in Listable : a < am + 1 <=> a < am
    BY <1>1, <2>2
  <2>4. LinedSeen' = LinedSeen
    BY <2>1, <2>3, ListableStay DEF LinedSeen
  <2>5. ASSUME NEW v PROVE ShownOf(v)' = ShownOf(v)
    <3>1. \A p \in ShownParts : p[1] \in Listable
      BY ShownPlaces
    <3> QED BY <2>1, <2>3, <3>1, ListableStay DEF ShownOf
  <2>6. LinesInv'
    BY <1>1, <1>5, <2>1, <2>4, <2>5
  <2>7. LinesLimitInv'
    BY <2>1, <1>7 DEF LinesLimitInv, ListingPass
  <2> QED BY <2>6, <2>7
<1> QED BY <1>4, <1>6, <1>7 DEF ListingStep
LEMMA LinesAlways == ReportsSpec => [](Given /\ LinesInv /\ LinesLimitInv)
<1>1. ReportsInit => Given /\ LinesInv /\ LinesLimitInv
  BY LinesInvInit DEF ReportsInit, DiscInit, BothInit, Init, Given
<1>2. Given /\ LinesInv /\ LinesLimitInv /\ [ReportsNext]_<<allVars, reportVars>>
        => (Given /\ LinesInv /\ LinesLimitInv)'
  <2> SUFFICES ASSUME Given, LinesInv, LinesLimitInv, [ReportsNext]_<<allVars, reportVars>>
               PROVE  Given' /\ LinesInv' /\ LinesLimitInv'
    OBVIOUS
  <2>1. container' = container /\ Given'
    BY ReportsKeep DEF Given
  <2>2. CASE ListingStep
    BY <2>1, <2>2, LinesInvStep
  <2>3. CASE UNCHANGED listingVars
    <3>1. limit' = limit /\ am' = am /\ lines' = lines /\ apc' = apc
      BY <2>3 DEF listingVars
    <3>2. /\ LinedSeen' = LinedSeen /\ \A v : ShownOf(v)' = ShownOf(v)
          /\ Listable' = Listable /\ \A a : HowMany(a)' = HowMany(a) /\ Line(a)' = Line(a)
      BY <2>1, <3>1, ListableStay DEF LinedSeen, ShownOf
    <3>3. \A m : Listed(m)' = Listed(m)
      BY <3>1 DEF Listed
    <3>4. {Line(a) : a \in Listable}' = {Line(a) : a \in Listable}
      BY <3>2
    <3>5. SumFunction([a \in LinedSeen |-> HowMany(a)])' = SumFunction([a \in LinedSeen |-> HowMany(a)])
      BY <3>2, Zenon
    <3>6. LinesInv' <=>
            /\ am' \in 1 .. Len(container') + 1
            /\ lines' \in Seq({Line(a) : a \in Listable}')
            /\ Len(lines') = Cardinality(LinedSeen')
            /\ \A a \in LinedSeen' : \E x \in DOMAIN lines' : lines'[x].of = a
            /\ SumFunction([x \in DOMAIN lines' |-> lines'[x].parts])
                 = SumFunction([a \in LinedSeen |-> HowMany(a)])'
            /\ \A m \in Known : Listed(m)' = Cardinality(ShownOf(BlockKind(m))')
      BY Zenon DEF LinesInv
    <3>7. LinesInv'
      BY <2>1, <3>1, <3>2, <3>3, <3>4, <3>5, <3>6, Zenon DEF LinesInv
    <3>8. LinesLimitInv'
      BY <2>1, <3>1 DEF LinesLimitInv
    <3> QED BY <2>1, <3>7, <3>8
  <2>4. ListingStep \/ UNCHANGED listingVars
    BY DEF ReportsNext, ReportsDone, Report, reportVars
  <2> QED BY <2>2, <2>3, <2>4
<1> QED BY <1>1, <1>2, PTL DEF ReportsSpec

\* A part that the census decodes is shown as a block, and so is no other that is
\* long enough for the census.
LEMMA ShownAsBlock ==
  ASSUME Given, nested, NEW p \in ShownParts, NEW m \in Known
  PROVE  LET e == PartsOf(p[1])[p[2]]
         IN  /\ IsBlockPart(At(p)) /\ Method(At(p)) = m => KindAt(p) = BlockKind(m)
             /\ e.size >= 16 /\ KindAt(p) = BlockKind(m) =>
                  IsBlockPart(At(p)) /\ Method(At(p)) = m
<1> DEFINE out == Unpack(container[p[1]])
           e == ArchiveParts(out)[p[2]]
           head == Slice(out, e.off, 16)
           part == Slice(out, e.off, e.size)
           b == [len |-> e.size, at |-> head.at]
<1>1. p[1] \in Listable /\ p[2] \in 1 .. HowMany(p[1]) /\ p = <<p[1], p[2]>>
  BY ShownPlaces
<1>2. IsBuffer(out) /\ IsArchive(out) /\ Whole(p[1]) = out /\ PartsOf(p[1]) = ArchiveParts(out)
  BY <1>1, ListablesAre
<1>3. e.off \in Nat /\ e.size \in Nat /\ out.len \in Nat
  <2> DEFINE R == [off : Nat, size : Nat]
             s == ArchiveParts(out)
  <2>0. s \in Seq(R)
    BY <1>1, ListablesAre
  <2>1. DOMAIN s = 1 .. HowMany(p[1])
    BY <1>1, ListablesAre
  <2> HIDE DEF R, s, e
  <2>2. s[p[2]] \in R
    <3>1. \A z \in DOMAIN s : s[z] \in R
      BY <2>0
    <3>2. p[2] \in DOMAIN s
      BY <1>1, <2>1, Zenon
    <3> QED BY <3>1, <3>2, Zenon
  <2>3. e \in [off : Nat, size : Nat]
    BY <2>2 DEF R, s, e
  <2> QED BY <1>2, <2>3 DEF IsBuffer
<1>4. e.off + e.size <= out.len
  BY <1>1, <1>2, Zenon DEF IsArchive, HowMany
<1>5. At(p) = part
  BY <1>1, <1>2, AtPart, Zenon
<1>6. KindAt(p) = Kind(b, head.len)
  BY Zenon DEF KindAt, PartKind
<1> HIDE DEF e, out
<1>7. part.len = e.size /\ (e.size >= 16 => head.len = 16)
  <2>1. part.len = IF e.off < Lesser(e.off + e.size, out.len)
                   THEN Lesser(e.off + e.size, out.len) - e.off ELSE 0
    BY <1>2, <1>3, SliceBytes, Zenon
  <2>2. head.len = IF e.off < Lesser(e.off + 16, out.len)
                   THEN Lesser(e.off + 16, out.len) - e.off ELSE 0
    <3>1. 16 \in Nat
      OBVIOUS
    <3> QED BY <1>2, <1>3, <3>1, SliceBytes, Zenon
  <2> HIDE DEF part, head
  <2> QED BY <1>3, <1>4, <2>1, <2>2 DEF Lesser
<1>8. ASSUME e.size >= 16
      PROVE  (IsBlockPart(part) /\ Method(part) = m) <=> KindAt(p) = BlockKind(m)
  <2>0. /\ \A d \in Nat : d < head.len => Byte(head, d) = Byte(out, e.off + d)
        /\ \A d \in Nat : d < part.len => Byte(part, d) = Byte(out, e.off + d)
    <3>1. 16 \in Nat
      OBVIOUS
    <3>2. ASSUME NEW o \in Nat, NEW n \in Nat
          PROVE  \A d \in Nat : d < Slice(out, o, n).len => Byte(Slice(out, o, n), d) = Byte(out, o + d)
      BY <1>2, SliceBytes
    <3> QED BY <1>3, <3>1, <3>2, Zenon
  <2>1. \A d \in 0 .. 15 : Byte(head, d) = Byte(part, d)
    <3>1. ASSUME NEW d \in 0 .. 15 PROVE Byte(head, d) = Byte(part, d)
      <4>1. d < head.len /\ d < part.len /\ d \in Nat
        BY <1>3, <1>7, <1>8
      <4>2. Byte(head, d) = Byte(out, e.off + d)
        BY <2>0, <4>1, Zenon
      <4>3. Byte(part, d) = Byte(out, e.off + d)
        BY <2>0, <4>1, Zenon
      <4> QED BY <4>2, <4>3
    <3> QED BY <3>1
  <2>2. \A d : Byte(b, d) = Byte(head, d)
    BY DEF Byte
  <2> HIDE DEF head, part
  <2>3. IsBuffer(b)
    <3>1. IsBuffer(head) /\ head.len = 16
      BY <1>2, <1>3, <1>7, <1>8, SliceIsBuffer DEF head
    <3> QED BY <1>3, <1>8, <3>1 DEF IsBuffer
  <2>4. b.len = part.len /\ b.len = e.size
    BY <1>7
  <2> HIDE DEF b
  <2>5. \A d \in 0 .. 15 : Byte(b, d) = Byte(part, d)
    BY <2>1, <2>2
  <2>6. /\ First4(b) = First4(part) /\ Method(b) = Method(part)
        /\ Packed(b) = Packed(part) /\ Unpacked(b) = Unpacked(part)
    <3>1. /\ Byte(b, 0) = Byte(part, 0) /\ Byte(b, 1) = Byte(part, 1)
          /\ Byte(b, 2) = Byte(part, 2) /\ Byte(b, 3) = Byte(part, 3)
          /\ Byte(b, 4) = Byte(part, 4) /\ Byte(b, 5) = Byte(part, 5)
          /\ Byte(b, 6) = Byte(part, 6) /\ Byte(b, 7) = Byte(part, 7)
          /\ Byte(b, 8) = Byte(part, 8)
      BY <2>5
    <3> DEFINE Word(u, v, w, x) == u + 256 * (v + 256 * (w + 256 * x))
    <3>2. \A c : /\ U32(c, 1) = Word(Byte(c, 1), Byte(c, 2), Byte(c, 3), Byte(c, 4))
                 /\ U32(c, 5) = Word(Byte(c, 5), Byte(c, 6), Byte(c, 7), Byte(c, 8))
      BY DEF U32
    <3> HIDE DEF Word
    <3>4. First4(b) = First4(part)
      BY <3>1 DEF First4
    <3>5. Method(b) = Method(part)
      BY <3>1 DEF Method
    <3>6. U32(b, 1) = U32(part, 1)
      BY <3>1, <3>2, Zenon
    <3>7. U32(b, 5) = U32(part, 5)
      BY <3>1, <3>2, Zenon
    <3> QED BY <3>4, <3>5, <3>6, <3>7 DEF Packed, Unpacked
  <2>7. IsBlock(part) <=> IsBlock(b)
    BY <2>4, <2>6, Zenon DEF IsBlock
  <2>8. KindAt(p) = Kind(b, 16)
    BY <1>6, <1>7, <1>8, Zenon DEF b
  <2>9. Kind(b, 16) \in {"block:stored", "block:1", "block:3"} => IsBlock(b)
    BY <2>3, KindIsKind
  <2>10. IsBlock(b) => Kind(b, 16) = BlockKind(Method(b)) /\ Method(b) \in Known
    <3>1. 16 # 0 /\ 16 \notin 1 .. 8 /\ 16 >= 9
      OBVIOUS
    <3>2. IsBlock(b) => Method(b) \in Known /\ First4(b) # TIM2 /\ First4(b) # MPEG /\ First4(b) # MSCF
      BY DEF IsBlock
    <3> QED BY <3>1, <3>2, Zenon DEF Kind
  <2>11. part.len >= 16
    BY <1>8, <2>4
  <2> QED BY <2>6, <2>7, <2>8, <2>9, <2>10, <2>11, BlockKindsAre DEF IsBlockPart
<1>9. IsBlockPart(part) => e.size >= 16
  BY <1>7 DEF IsBlockPart
<1>10. PartsOf(p[1])[p[2]] = e
  BY <1>2 DEF e
<1> HIDE DEF part
<1> QED BY <1>5, <1>8, <1>9, <1>10
\* codec_census.py archives lists what the census has opened: as many archives as
\* were asked for, and where that is all of them, parts that are as many as those
\* the census has counted, with no block of the census missing from their kinds.
THEOREM ArchivesAlwaysAgree == ReportsSpec => []ArchivesAgree
<1>1. TypeInv /\ CensusInv /\ ArchivedInv /\ Given /\ LinesInv /\ LinesLimitInv => ArchivesAgree
  <2> DEFINE B(m) == {p \in InnerBlocks : Method(At(p)) = m}
             InArchive(m) == {p \in B(m) : IsBlock(container[p[1]])}
             Nested(m) == {p \in InnerBlocks : Method(At(p)) = m /\ ~IsBlock(container[p[1]])}
             N == Len(container)
  <2> SUFFICES ASSUME TypeInv, CensusInv, ArchivedInv, Given, LinesInv, LinesLimitInv,
                      ListingDone, pc = "reported", nested
               PROVE  /\ Len(lines) = Lesser(limit, archives)
                      /\ Len(lines) < limit =>
                           /\ archiveMembers = SumFunction([x \in DOMAIN lines |-> lines[x].parts])
                           /\ \A m \in Known :
                                /\ inner.methods[m] <= Listed(m) + InBundles(m)
                                /\ LongParts => inner.methods[m] = Listed(m) + InBundles(m)
    BY DEF ArchivesAgree
  <2>1. /\ N \in Nat /\ i \in Nat /\ i > N /\ am \in Nat /\ Listable \subseteq 1 .. N
        /\ IsFiniteSet(Listable)
    <3>1. i \in 1 .. N + 1 /\ am \in 1 .. N + 1 /\ N \in Nat
      BY LensAreNat DEF TypeInv, TypeOK, CensusTypeOK, LinesInv
    <3>2. i > N
      BY DEF CensusInv, OpenInv
    <3> QED BY <3>1, <3>2, ListablesAre
  <2>2. ArchivesSeen = Listable
    <3>1. \A a \in Listable : a < i
      BY <2>1
    <3> QED BY <3>1 DEF ArchivesSeen
  <2>3. InnerSeen = InnerBlocks
    <3>1. \A p \in InnerBlocks : p[1] < i
      BY <2>1, InnerPlaces
    <3> QED BY <3>1 DEF InnerSeen
  <2>4. am > N => LinedSeen = Listable
    <3>1. am > N => \A a \in Listable : a < am
      BY <2>1
    <3> QED BY <3>1 DEF LinedSeen
  <2>5. /\ Len(lines) = Cardinality(LinedSeen) /\ archives = Cardinality(Listable)
        /\ Len(lines) <= archives /\ Len(lines) \in Nat /\ archives \in Nat
    <3>1. LinedSeen \in SUBSET Listable
      BY DEF LinedSeen
    <3>2. IsFiniteSet(LinedSeen) /\ Cardinality(LinedSeen) <= Cardinality(Listable)
      BY <2>1, <3>1, FS_Subset
    <3>3. Cardinality(LinedSeen) \in Nat /\ Cardinality(Listable) \in Nat
      BY <2>1, <3>2, FS_CardinalityType
    <3>4. archives = Cardinality(Listable) /\ Len(lines) = Cardinality(LinedSeen)
      BY <2>2 DEF ArchivedInv, LinesInv
    <3> QED BY <3>2, <3>3, <3>4
  <2>6. /\ limit \in Nat
        /\ Len(lines) = limit \/ (Len(lines) < limit /\ am > N)
    BY DEF ListingDone, LinesLimitInv
  <2>7. Len(lines) = Lesser(limit, archives)
    <3> HIDE DEF N
    <3>1. am > N => Len(lines) = archives
      BY <2>4, <2>5
    <3> QED BY <2>5, <2>6, <3>1 DEF Lesser
  <2>8. ASSUME Len(lines) < limit
        PROVE  /\ archiveMembers = SumFunction([x \in DOMAIN lines |-> lines[x].parts])
               /\ \A m \in Known :
                    /\ inner.methods[m] <= Listed(m) + InBundles(m)
                    /\ LongParts => inner.methods[m] = Listed(m) + InBundles(m)
    <3>1. am > N
      <4> HIDE DEF N
      <4> QED BY <2>5, <2>6, <2>8
    <3>2. archiveMembers = SumFunction([x \in DOMAIN lines |-> lines[x].parts])
      BY <2>2, <2>4, <3>1, Zenon DEF ArchivedInv, LinesInv
    <3>3. ASSUME NEW m \in Known
          PROVE  /\ inner.methods[m] <= Listed(m) + InBundles(m)
                 /\ LongParts => inner.methods[m] = Listed(m) + InBundles(m)
      <4> DEFINE S == ShownOf(BlockKind(m))
      <4>1. /\ inner.methods[m] = Cardinality(B(m)) /\ Listed(m) = Cardinality(S)
            /\ InBundles(m) = Cardinality(Nested(m))
        BY <2>3, Zenon DEF CensusInv, TalliesInv, Tallied, LinesInv, InBundles
      <4>2. \A p : p \in S <=> p \in ShownParts /\ KindAt(p) = BlockKind(m)
        <5>1. \A p \in ShownParts : p[1] < am
          BY <2>1, <3>1, ShownPlaces
        <5> QED BY <5>1 DEF ShownOf
      <4>3. ASSUME NEW p \in InArchive(m) PROVE p \in S
        <5>1. /\ p \in InnerBlocks /\ Method(At(p)) = m /\ IsBlock(container[p[1]])
              /\ p = <<p[1], p[2]>> /\ p[1] \in 1 .. N /\ p[2] \in 1 .. Len(PartsOf(p[1]))
              /\ IsBlockPart(At(p))
          <6>1. p \in InnerBlocks /\ Method(At(p)) = m /\ IsBlock(container[p[1]])
            OBVIOUS
          <6>2. IsBlockPart(At(p))
            BY <6>1, Zenon DEF InnerBlocks
          <6> QED BY <6>1, <6>2, InnerPlaces
        <5>2. PartsOf(p[1]) # <<>>
          BY <5>1
        <5>3. IsArchive(Unpack(container[p[1]])) /\ ~(container[p[1]].len < 16)
          BY <5>1, <5>2, Zenon DEF PartsOf, Whole
        <5>4. container[p[1]].len >= 16
          <6>1. container[p[1]].len \in Nat
            BY <5>1, LensAreNat DEF IsBuffer
          <6> QED BY <5>3, <6>1
        <5>5. p[1] \in Listable
          BY <5>1, <5>3, <5>4 DEF Listable, IsListed
        <5>6. Len(PartsOf(p[1])) = HowMany(p[1])
          BY <5>5, ListablesAre
        <5>7. p \in ShownParts
          <6>1. p[2] \in 1 .. HowMany(p[1])
            BY <5>1, <5>6
          <6> QED BY <5>1, <5>5, <6>1, ShownPlaces, Zenon
        <5> QED BY <4>2, <5>1, <5>7, ShownAsBlock
      <4>4. ASSUME LongParts, NEW p \in S PROVE p \in InArchive(m)
        <5>1. /\ p \in ShownParts /\ KindAt(p) = BlockKind(m) /\ p[1] \in Listable
              /\ p[2] \in 1 .. HowMany(p[1]) /\ p = <<p[1], p[2]>>
          BY <4>2, <4>4, ShownPlaces
        <5>2. /\ PartsOf(p[1]) = ArchiveParts(Unpack(container[p[1]]))
              /\ DOMAIN PartsOf(p[1]) = 1 .. HowMany(p[1]) /\ Len(PartsOf(p[1])) = HowMany(p[1])
          BY <5>1, ListablesAre
        <5>3. PICK x \in DOMAIN lines : lines[x].of = p[1]
          BY <2>4, <3>1, <5>1 DEF LinesInv
        <5>4. PartsOf(p[1])[p[2]].size >= 16
          BY <4>4, <5>1, <5>2, <5>3, Zenon DEF LongParts
        <5>5. IsBlockPart(At(p)) /\ Method(At(p)) = m
          BY <5>1, <5>4, ShownAsBlock
        <5>6. p[1] \in 1 .. N /\ IsBlock(container[p[1]])
          BY <5>1 DEF Listable, IsListed
        <5>7. p \in InnerBlocks
          <6>1. p[2] \in 1 .. Len(PartsOf(p[1]))
            BY <5>1, <5>2
          <6> QED BY <5>1, <5>5, <5>6, <6>1, InnerPlaces, Zenon
        <5> QED BY <5>5, <5>6, <5>7
      <4>5. /\ InArchive(m) \cup Nested(m) = B(m) /\ InArchive(m) \cap Nested(m) = {}
        OBVIOUS
      <4>6. /\ IsFiniteSet(InArchive(m)) /\ IsFiniteSet(Nested(m)) /\ IsFiniteSet(S)
        <5>1. InArchive(m) \in SUBSET InnerBlocks /\ Nested(m) \in SUBSET InnerBlocks
          OBVIOUS
        <5>2. S \in SUBSET ShownParts
          BY DEF ShownOf
        <5>3. IsFiniteSet(InnerBlocks) /\ IsFiniteSet(ShownParts)
          BY InnerPlaces, ShownPlaces
        <5> HIDE DEF InArchive, Nested, S
        <5> QED BY <5>1, <5>2, <5>3, FS_Subset
      <4> DEFINE X == InArchive(m)
                 Y == Nested(m)
      <4>7. Cardinality(B(m)) = Cardinality(X) + Cardinality(Y)
            /\ Cardinality(X) \in Nat /\ Cardinality(Y) \in Nat
        <5>1. X \cup Y = B(m) /\ X \cap Y = {} /\ IsFiniteSet(X) /\ IsFiniteSet(Y)
          BY <4>5, <4>6, Zenon
        <5> HIDE DEF X, Y, B
        <5>2. Cardinality(X \cup Y) = Cardinality(X) + Cardinality(Y) - Cardinality(X \cap Y)
          BY <5>1, FS_Union
        <5>3. Cardinality({}) = 0 /\ Cardinality(X) \in Nat /\ Cardinality(Y) \in Nat
          BY <5>1, FS_EmptySet, FS_CardinalityType
        <5>4. Cardinality(B(m)) = Cardinality(X) + Cardinality(Y) - 0
          BY <5>1, <5>2, <5>3, Zenon
        <5> QED BY <5>3, <5>4
      <4>8. Cardinality(X) <= Cardinality(S) /\ Cardinality(S) \in Nat
        <5>1. X \in SUBSET S
          BY <4>3
        <5>2. IsFiniteSet(S)
          BY <4>6
        <5> HIDE DEF X, S
        <5> QED BY <5>1, <5>2, FS_Subset, FS_CardinalityType
      <4>9. LongParts => X = S
        <5>1. \A p : p \in X => p \in S
          BY <4>3
        <5>2. LongParts => \A p : p \in S => p \in X
          BY <4>4
        <5> HIDE DEF X, S
        <5> QED BY <5>1, <5>2
      <4>10. /\ inner.methods[m] = Cardinality(X) + Cardinality(Y)
             /\ Listed(m) = Cardinality(S) /\ InBundles(m) = Cardinality(Y)
        BY <4>1, <4>7, Zenon
      <4> HIDE DEF X, Y, S
      <4> QED BY <4>7, <4>8, <4>9, <4>10
    <3> QED BY <3>2, <3>3
  <2> QED BY <2>7, <2>8
<1> QED BY <1>1, LinesAlways, ReportsLeaveCensuses, TypeAlways, CensusAlways, ArchivedAlways, PTL

-----------------------------------------------------------------------------
(* Movies: the members as they lie in the container, and what is read there *)

\* What is printed of a member.
Pack(x) == Buffered(x) >= Len(MPEG) /\ Reads(x, 0, MPEG)

RowOf(x) ==
  CASE container[x].len = 0 -> [verdict |-> "slot", at |-> 0]
    [] container[x].len # 0 /\ ~Pack(x) -> [verdict |-> "other", at |-> 0]
    [] container[x].len # 0 /\ Pack(x) /\ ~HasPicture(x) -> [verdict |-> "bare", at |-> 0]
    [] OTHER -> [verdict |-> "movie", at |-> Picture(x)]

RowsInv ==
  /\ rows \in Seq({RowOf(x) : x \in 1 .. Len(container)})
  /\ Len(rows) <= Len(container)
  /\ \A x \in 1 .. Len(rows) : rows[x] = RowOf(x)

LEMMA RoomIsEnough ==
  ASSUME NEW b, IsBuffer(b)
  PROVE  Room(b) \in Nat /\ b.len <= Room(b)
<1> DEFINE q == (b.len + ALIGN - 1) \div ALIGN
<1>1. b.len \in Nat /\ ALIGN \in Nat /\ ALIGN > 0
  BY MoviesAssumption DEF IsBuffer
<1>2. q \in Nat /\ b.len <= ALIGN * q
  <2> DEFINE m == b.len + ALIGN - 1
             r == m % ALIGN
  <2>1. m \in Nat /\ m = b.len + (ALIGN - 1)
    BY <1>1
  <2>2. m = ALIGN * (m \div ALIGN) + r /\ r \in 0 .. ALIGN - 1 /\ m \div ALIGN \in Nat
    BY <1>1, <2>1
  <2> DEFINE p == ALIGN * (m \div ALIGN)
  <2>3. p \in Int
    BY <1>1, <2>2
  <2>4. p = ALIGN * q /\ q \in Nat
    BY <2>2
  <2>5. m = p + r /\ r \in 0 .. ALIGN - 1
    BY <2>2
  <2> HIDE DEF m, r, p, q
  <2>6. b.len <= p
    BY <1>1, <2>1, <2>3, <2>5
  <2> QED BY <2>4, <2>6
<1>3. Room(b) = ALIGN * q
  BY DEF Room
<1> HIDE DEF q
<1> QED BY <1>1, <1>2, <1>3

LEMMA StartsAre ==
  ASSUME Given
  PROVE  /\ \A x \in 1 .. Len(container) + 1 : Start(x) \in Nat
         /\ \A x \in 1 .. Len(container) :
              Start(x) + container[x].len <= Start(x + 1) /\ Start(x) <= Start(x + 1)
<1> DEFINE N == Len(container)
<1>1. N \in Nat /\ \A x \in 1 .. N : IsBuffer(container[x])
  BY LensAreNat
<1>2. \A x \in 1 .. N : Room(container[x]) \in Nat /\ container[x].len <= Room(container[x])
                        /\ container[x].len \in Nat
  BY <1>1, RoomIsEnough DEF IsBuffer
<1> HIDE DEF N
<1>3. ASSUME NEW x \in 1 .. N + 1 PROVE Start(x) \in Nat
  <2> DEFINE f == [y \in 1 .. x - 1 |-> Room(container[y])]
  <2>1. IsFiniteSet(1 .. x - 1)
    <3>1. 1 \in Int /\ x - 1 \in Int
      BY <1>1
    <3> QED BY <3>1, FS_Interval
  <2>2. DOMAIN f = 1 .. x - 1 /\ \A y \in 1 .. x - 1 : f[y] \in Nat
    BY <1>1, <1>2
  <2> HIDE DEF f
  <2>3. SumFunction(f) \in Nat
    BY <2>1, <2>2, SumIsNatural
  <2> QED BY <2>3 DEF f, Start
<1>4. ASSUME NEW x \in 1 .. N PROVE Start(x + 1) = Start(x) + Room(container[x])
  <2> DEFINE f == [y \in 1 .. x - 1 |-> Room(container[y])]
             g == [y \in 1 .. (x + 1) - 1 |-> Room(container[y])]
  <2>1. IsFiniteSet(1 .. x - 1)
    <3>1. 1 \in Int /\ x - 1 \in Int
      BY <1>1
    <3> QED BY <3>1, FS_Interval
  <2>2. 1 .. (x + 1) - 1 = (1 .. x - 1) \cup {x} /\ x \notin 1 .. x - 1
    BY <1>1
  <2>3. DOMAIN f = 1 .. x - 1 /\ DOMAIN g = DOMAIN f \cup {x} /\ x \notin DOMAIN f
    BY <2>2
  <2>4. g[x] = Room(container[x]) /\ g[x] \in Nat
        /\ \A y \in DOMAIN f : g[y] = f[y] /\ f[y] \in Nat
    BY <1>1, <1>2, <2>2
  <2> HIDE DEF f, g
  <2>5. SumFunction(g) = SumFunction(f) + g[x]
    BY <2>1, <2>3, <2>4, SumGrows
  <2> QED BY <2>4, <2>5 DEF f, g, Start
<1>5. ASSUME NEW x \in 1 .. N
      PROVE  Start(x) + container[x].len <= Start(x + 1) /\ Start(x) <= Start(x + 1)
  <2>1. Start(x) \in Nat /\ Room(container[x]) \in Nat /\ container[x].len \in Nat
        /\ container[x].len <= Room(container[x])
    <3>1. x \in 1 .. N + 1
      BY <1>1
    <3> QED BY <1>2, <1>3, <3>1
  <2>2. Start(x + 1) = Start(x) + Room(container[x])
    BY <1>4
  <2> QED BY <2>1, <2>2
<1> QED BY <1>3, <1>5 DEF N

LEMMA StartsClimb ==
  ASSUME Given, NEW x \in 1 .. Len(container) + 1, NEW y \in 1 .. Len(container) + 1, x <= y
  PROVE  Start(x) <= Start(y)
<1> DEFINE N == Len(container)
           Bad == {z \in 1 .. N + 1 : x <= z /\ ~(Start(x) <= Start(z))}
<1>1. N \in Nat /\ (\A z \in 1 .. N + 1 : Start(z) \in Nat)
      /\ \A z \in 1 .. N : Start(z) <= Start(z + 1)
  BY LensAreNat, StartsAre
<1>2. ASSUME Bad # {} PROVE FALSE
  <2>1. Bad \subseteq Nat
    BY <1>1
  <2>2. PICK z \in Bad : \A u \in Bad : z <= u
    BY <1>2, <2>1, LeastThere
  <2>3. z \in 1 .. N + 1 /\ x <= z /\ ~(Start(x) <= Start(z)) /\ z # x
    BY <1>1, <2>2
  <2>4. z - 1 \in 1 .. N /\ z - 1 \in 1 .. N + 1 /\ x <= z - 1 /\ (z - 1) + 1 = z /\ ~(z <= z - 1)
    BY <1>1, <2>3
  <2>5. z - 1 \notin Bad
    BY <2>2, <2>4
  <2>6. Start(x) <= Start(z - 1)
    BY <2>4, <2>5
  <2>7. Start(z - 1) <= Start((z - 1) + 1)
    BY <1>1, <2>4
  <2>8. Start(z - 1) <= Start(z)
    BY <2>4, <2>7
  <2>9. Start(x) \in Nat /\ Start(z) \in Nat /\ Start(z - 1) \in Nat
    BY <1>1, <2>3, <2>4
  <2> QED BY <2>3, <2>6, <2>8, <2>9
<1> QED BY <1>2
\* What is read where a member lies is the member.
LEMMA ByteOfMember ==
  ASSUME Given, NEW x \in 1 .. Len(container), NEW d \in Nat, d < container[x].len
  PROVE  ByteAt(Start(x) + d) = Byte(container[x], d)
<1> DEFINE N == Len(container)
           at == Start(x) + d
<1>1. /\ N \in Nat /\ (\A z \in 1 .. N + 1 : Start(z) \in Nat)
      /\ \A z \in 1 .. N : /\ container[z].len \in Nat
                           /\ Start(z) + container[z].len <= Start(z + 1)
  BY LensAreNat, StartsAre DEF IsBuffer
<1>2. at \in Nat /\ Start(x) \in Nat /\ x \in Nat
  BY <1>1
<1>3. InMember(at, x)
  BY <1>1, <1>2 DEF InMember
<1>4. ASSUME NEW z \in 1 .. N, InMember(at, z) PROVE z = x
  <2>1. /\ Start(z) <= at /\ at < Start(z) + container[z].len
        /\ Start(x) <= at /\ at < Start(x) + container[x].len
    BY <1>3, <1>4 DEF InMember
  <2>2. /\ z \in 1 .. N + 1 /\ x \in 1 .. N + 1 /\ z + 1 \in 1 .. N + 1 /\ x + 1 \in 1 .. N + 1
        /\ z \in Nat
    BY <1>1
  <2>3. /\ Start(z) \in Nat /\ Start(x) \in Nat /\ Start(z + 1) \in Nat /\ Start(x + 1) \in Nat
        /\ container[z].len \in Nat /\ container[x].len \in Nat
        /\ Start(z) + container[z].len <= Start(z + 1)
        /\ Start(x) + container[x].len <= Start(x + 1)
    BY <1>1, <2>2
  <2>4. z + 1 <= x => Start(z + 1) <= Start(x)
    BY <2>2, StartsClimb
  <2>5. x + 1 <= z => Start(x + 1) <= Start(z)
    BY <2>2, StartsClimb
  <2>6. ~(z + 1 <= x)
    <3> HIDE DEF at
    <3> QED BY <1>2, <2>1, <2>3, <2>4
  <2>7. ~(x + 1 <= z)
    <3> HIDE DEF at
    <3> QED BY <1>2, <2>1, <2>3, <2>5
  <2> QED BY <1>2, <2>2, <2>6, <2>7
<1>5. (CHOOSE z \in 1 .. N : InMember(at, z)) = x
  BY <1>3, <1>4
<1>6. \E z \in 1 .. N : InMember(at, z)
  BY <1>3
<1>7. at - Start(x) = d
  BY <1>2
<1>8. ByteAt(at) = Byte(container[x], at - Start(x))
  <2> HIDE DEF at
  <2> QED BY <1>5, <1>6, Zenon DEF ByteAt
<1> HIDE DEF at
<1>9. ByteAt(at) = Byte(container[x], d)
  BY <1>7, <1>8
<1> QED BY <1>9 DEF at

\* The window is as long as what there is of it in the member, or longer.
LEMMA BufferedIs ==
  ASSUME Given, NEW x \in 1 .. Len(container)
  PROVE  /\ Buffered(x) \in Nat /\ Buffered(x) <= WINDOW /\ WINDOW \in Nat
         /\ Lesser(WINDOW, container[x].len) <= Buffered(x)
<1> DEFINE N == Len(container)
<1>1. /\ N \in Nat /\ N + 1 \in 1 .. N + 1 /\ x + 1 \in 1 .. N + 1 /\ x + 1 <= N + 1
      /\ x \in 1 .. N + 1
  BY LensAreNat
<1>2. /\ Start(x) \in Nat /\ Start(x + 1) \in Nat /\ Start(N + 1) \in Nat
      /\ container[x].len \in Nat /\ Start(x) + container[x].len <= Start(x + 1)
  BY <1>1, StartsAre, LensAreNat DEF IsBuffer
<1>3. Start(x + 1) <= Start(N + 1)
  BY <1>1, StartsClimb
<1>4. WINDOW \in Nat
  BY MoviesAssumption
<1>5. Buffered(x) = Lesser(WINDOW, (Start(N + 1) - Start(x)) + Behind.len) /\ Behind.len \in Nat
  BY MoviesAssumption DEF Buffered, Over, IsBuffer
<1> HIDE DEF N
<1> QED BY <1>2, <1>3, <1>4, <1>5 DEF Lesser

\* And what is sought there is found in the member, if it lies in it.
LEMMA ReadsMember ==
  ASSUME Given, NEW x \in 1 .. Len(container), NEW d \in Nat, NEW w, Len(w) \in Nat,
         d + Len(w) <= container[x].len
  PROVE  Reads(x, d, w) <=> \A q \in 1 .. Len(w) : Byte(container[x], d + q - 1) = w[q]
<1>1. container[x].len \in Nat /\ Start(x) \in Nat
  <2>1. x \in 1 .. Len(container) + 1
    BY LensAreNat
  <2> QED BY <2>1, StartsAre, LensAreNat DEF IsBuffer
<1>2. ASSUME NEW q \in 1 .. Len(w)
      PROVE  ByteAt(Start(x) + d + q - 1) = Byte(container[x], d + q - 1)
  <2>1. PICK e \in Nat : e = d + q - 1
    OBVIOUS
  <2>2. e < container[x].len /\ Start(x) + d + q - 1 = Start(x) + e
    BY <1>1, <2>1
  <2>3. ByteAt(Start(x) + e) = Byte(container[x], e)
    BY <2>2, ByteOfMember
  <2> QED BY <2>1, <2>2, <2>3
<1> QED BY <1>2 DEF Reads
\* The first sequence header of a member's own is the first in the window.
LEMMA PictureIsOwn ==
  ASSUME Given, NEW x \in 1 .. Len(container)
  PROVE  /\ Own(x) # {} => HasPicture(x) /\ Picture(x) = Min(Own(x))
         /\ Own(x) = {} /\ container[x].len >= WINDOW => ~HasPicture(x)
<1> DEFINE b == container[x]
           L == Lesser(WINDOW, b.len)
           W == Buffered(x)
<1>1. /\ b.len \in Nat /\ WINDOW \in Nat /\ W \in Nat /\ W <= WINDOW /\ L <= W /\ L \in Nat
      /\ L <= b.len
  BY BufferedIs, LensAreNat DEF IsBuffer, Lesser
<1>2. Len(SEQ) = 4 /\ FIELDS = 8
  BY DEF SEQ, FIELDS
<1>3. \A d \in Nat : d + 4 <= b.len =>
        (Reads(x, d, SEQ) <=> \A q \in 1 .. Len(SEQ) : Byte(b, d + q - 1) = SEQ[q])
  <2> SUFFICES ASSUME NEW d \in Nat, d + 4 <= b.len
               PROVE  Reads(x, d, SEQ) <=> \A q \in 1 .. Len(SEQ) : Byte(b, d + q - 1) = SEQ[q]
    OBVIOUS
  <2>1. d + Len(SEQ) <= container[x].len /\ Len(SEQ) \in Nat
    BY <1>2
  <2> QED BY <2>1, ReadsMember
<1> HIDE DEF b, L, W
<1>4. \A d : d \in SeqHeaders(x) <=> d \in 0 .. W - 4 /\ Reads(x, d, SEQ)
  BY <1>2 DEF SeqHeaders, W
<1>5. \A d : d \in Own(x) <=>
        d \in 0 .. L - 12 /\ \A q \in 1 .. Len(SEQ) : Byte(b, d + q - 1) = SEQ[q]
  <2>1. L - Len(SEQ) - FIELDS = L - 12
    BY <1>1, <1>2
  <2> QED BY <2>1 DEF Own, L, b
<1>6. \A d \in 0 .. L - 12 : d \in SeqHeaders(x) <=> d \in Own(x)
  <2> SUFFICES ASSUME NEW d \in 0 .. L - 12 PROVE d \in SeqHeaders(x) <=> d \in Own(x)
    OBVIOUS
  <2>1. d \in Nat /\ d + 4 <= b.len /\ d \in 0 .. W - 4
    BY <1>1
  <2> QED BY <1>3, <1>4, <1>5, <2>1
<1>7. Own(x) \subseteq Nat /\ SeqHeaders(x) \subseteq Nat
  BY <1>4, <1>5
<1>8. \A S : S \subseteq Nat /\ S # {} => Min(S) \in S /\ \A y \in S : Min(S) <= y
  <2> SUFFICES ASSUME NEW S, S \subseteq Nat, S # {} PROVE Min(S) \in S /\ \A y \in S : Min(S) <= y
    OBVIOUS
  <2>1. \E z \in S : \A y \in S : z <= y
    BY LeastThere
  <2> QED BY <2>1 DEF Min
<1>9. ASSUME Own(x) # {} PROVE HasPicture(x) /\ Picture(x) = Min(Own(x))
  <2> DEFINE o == Min(Own(x))
             p == Picture(x)
  <2>1. o \in Own(x) /\ \A y \in Own(x) : o <= y
    BY <1>7, <1>8, <1>9
  <2>2. o \in 0 .. L - 12 /\ o \in SeqHeaders(x)
    BY <1>5, <1>6, <2>1
  <2>3. p \in SeqHeaders(x) /\ \A y \in SeqHeaders(x) : p <= y
    BY <1>7, <1>8, <2>2 DEF Picture
  <2> HIDE DEF o, p
  <2>4. p \in Nat /\ p <= o /\ o \in Nat
    BY <1>7, <2>2, <2>3
  <2>5. p \in 0 .. L - 12
    BY <1>1, <2>2, <2>4
  <2>6. p \in Own(x)
    BY <1>6, <2>3, <2>5
  <2>7. p = o
    BY <2>1, <2>4, <2>6
  <2>8. p + 4 + 8 <= W
    BY <1>1, <2>5
  <2>9. HasPicture(x)
    BY <1>2, <2>2, <2>8 DEF HasPicture, p, W
  <2> QED BY <2>7, <2>9 DEF o, p
<1>10. ASSUME Own(x) = {}, b.len >= WINDOW, HasPicture(x) PROVE FALSE
  <2> DEFINE p == Picture(x)
  <2>1. SeqHeaders(x) # {} /\ p + 4 + 8 <= W
    BY <1>2, <1>10 DEF HasPicture, W
  <2>2. p \in SeqHeaders(x)
    BY <1>7, <1>8, <2>1 DEF Picture
  <2> HIDE DEF p
  <2>3. L = WINDOW
    BY <1>1, <1>10 DEF L, Lesser
  <2>4. p \in Nat
    BY <1>7, <2>2
  <2>5. p \in 0 .. L - 12
    BY <1>1, <2>1, <2>3, <2>4
  <2> QED BY <1>6, <1>10, <2>2, <2>5
<1> QED BY <1>9, <1>10 DEF b

LEMMA RowsInvInit == ReportsInit => RowsInv
<1> SUFFICES ASSUME ReportsInit PROVE RowsInv
  OBVIOUS
<1>1. rows = <<>> /\ Given
  BY DEF ReportsInit, DiscInit, BothInit, Init, Given, MoviesInit
<1>2. Len(container) \in Nat
  BY <1>1, LensAreNat
<1>3. Len(rows) = 0 /\ rows \in Seq({RowOf(x) : x \in 1 .. Len(container)})
  BY <1>1
<1> QED BY <1>2, <1>3 DEF RowsInv

LEMMA RowStay ==
  ASSUME container' = container
  PROVE  /\ \A x : RowOf(x)' = RowOf(x)
         /\ {RowOf(x) : x \in 1 .. Len(container)}' = {RowOf(x) : x \in 1 .. Len(container)}
<1>1. \A x : Start(x)' = Start(x)
  BY DEF Start, Room
<1>2. \A p : ByteAt(p)' = ByteAt(p)
  BY DEF ByteAt, InMember, Over, Start, Room
<1>3. \A x : Buffered(x)' = Buffered(x)
  BY <1>1 DEF Buffered, Over, Start, Room
<1>4. \A x, d, w : Reads(x, d, w)' = Reads(x, d, w)
  BY <1>1, <1>2 DEF Reads
<1>5. \A x : SeqHeaders(x)' = SeqHeaders(x)
  BY <1>3, <1>4 DEF SeqHeaders
<1>6. \A x : HasPicture(x)' = HasPicture(x) /\ Picture(x)' = Picture(x) /\ Pack(x)' = Pack(x)
  BY <1>3, <1>4, <1>5 DEF HasPicture, Picture, Pack
<1>7. \A x : RowOf(x)' = RowOf(x)
  BY <1>6 DEF RowOf
<1>8. {RowOf(x) : x \in 1 .. Len(container)}' = {RowOf(x) : x \in 1 .. Len(container)}
  BY <1>7
<1> QED BY <1>7, <1>8
LEMMA RowsInvStep ==
  ASSUME Given, RowsInv, MoviesStep, container' = container
  PROVE  RowsInv'
<1> DEFINE R == {RowOf(x) : x \in 1 .. Len(container)}
           N == Len(container)
<1>1. rows \in Seq(R) /\ Len(rows) <= N /\ (\A x \in 1 .. Len(rows) : rows[x] = RowOf(x))
      /\ N \in Nat
  BY LensAreNat DEF RowsInv
<1>2. Len(rows) \in Nat
  <2> HIDE DEF R
  <2> QED BY <1>1
<1>3. movie \in 1 .. N /\ movie = Len(rows) + 1
  <2>1. movie <= N
    BY DEF MoviesStep, EmptySlot, NoPack, NoSequence, Movie, IsPack
  <2> QED BY <1>1, <1>2, <2>1 DEF movie
<1>4. rows' = Append(rows, RowOf(movie))
  <2> DEFINE m == movie
  <2> HIDE DEF m
  <2>1. \/ container[m].len = 0 /\ rows' = Append(rows, [verdict |-> "slot", at |-> 0])
        \/ container[m].len # 0 /\ ~Pack(m) /\ rows' = Append(rows, [verdict |-> "other", at |-> 0])
        \/ /\ container[m].len # 0 /\ Pack(m) /\ ~HasPicture(m)
           /\ rows' = Append(rows, [verdict |-> "bare", at |-> 0])
        \/ /\ container[m].len # 0 /\ Pack(m) /\ HasPicture(m)
           /\ rows' = Append(rows, [verdict |-> "movie", at |-> Picture(m)])
    BY DEF MoviesStep, EmptySlot, NoPack, NoSequence, Movie, IsPack, Row, Pack, m
  <2>2. rows' = Append(rows, RowOf(m))
    BY <2>1, Zenon DEF RowOf
  <2> QED BY <2>2 DEF m
<1>5. RowOf(movie) \in R
  BY <1>3
<1>6. /\ rows' \in Seq(R) /\ Len(rows') = Len(rows) + 1
      /\ \A x \in 1 .. Len(rows) : rows'[x] = rows[x]
      /\ rows'[Len(rows) + 1] = RowOf(movie)
  <2> HIDE DEF R
  <2> QED BY <1>1, <1>4, <1>5
<1>7. Len(rows') <= N
  BY <1>1, <1>2, <1>3, <1>6
<1>8. ASSUME NEW x \in 1 .. Len(rows') PROVE rows'[x] = RowOf(x)
  <2>1. x \in 1 .. Len(rows) \/ x = Len(rows) + 1
    BY <1>2, <1>6
  <2>2. CASE x \in 1 .. Len(rows)
    BY <1>1, <1>6, <2>2
  <2>3. CASE x = Len(rows) + 1
    BY <1>3, <1>6, <2>3, Zenon
  <2> QED BY <2>1, <2>2, <2>3
<1>9. R' = R /\ \A x : RowOf(x)' = RowOf(x)
  BY RowStay
<1>10. RowsInv' <=> /\ rows' \in Seq(R')
                    /\ Len(rows') <= Len(container')
                    /\ \A x \in 1 .. Len(rows') : rows'[x] = RowOf(x)'
  BY Zenon DEF RowsInv
<1> HIDE DEF R
<1>11. rows' \in Seq(R')
  BY <1>6, <1>9
<1>12. Len(rows') <= Len(container')
  BY <1>7
<1> QED BY <1>8, <1>9, <1>10, <1>11, <1>12, Zenon

LEMMA RowsAlways == ReportsSpec => [](Given /\ RowsInv)
<1>1. ReportsInit => Given /\ RowsInv
  BY RowsInvInit DEF ReportsInit, DiscInit, BothInit, Init, Given
<1>2. Given /\ RowsInv /\ [ReportsNext]_<<allVars, reportVars>> => (Given /\ RowsInv)'
  <2> SUFFICES ASSUME Given, RowsInv, [ReportsNext]_<<allVars, reportVars>>
               PROVE  Given' /\ RowsInv'
    OBVIOUS
  <2>1. container' = container /\ Given'
    BY ReportsKeep DEF Given
  <2>2. CASE MoviesStep
    BY <2>1, <2>2, RowsInvStep
  <2>3. CASE UNCHANGED rows
    <3>1. /\ RowsInv' <=> /\ rows' \in Seq({RowOf(x) : x \in 1 .. Len(container)}')
                          /\ Len(rows') <= Len(container')
                          /\ \A x \in 1 .. Len(rows') : rows'[x] = RowOf(x)'
      BY Zenon DEF RowsInv
    <3>2. /\ \A x : RowOf(x)' = RowOf(x)
          /\ {RowOf(x) : x \in 1 .. Len(container)}' = {RowOf(x) : x \in 1 .. Len(container)}
      BY <2>1, RowStay
    <3> QED BY <2>1, <2>3, <3>1, <3>2, Zenon DEF RowsInv
  <2>4. MoviesStep \/ UNCHANGED rows
    BY DEF ReportsNext, ReportsDone, Report, reportVars
  <2> QED BY <2>2, <2>3, <2>4
<1> QED BY <1>1, <1>2, PTL DEF ReportsSpec

\* What the census by kind calls a movie begins with a pack header.
LEMMA MovieKind ==
  ASSUME NEW b, IsBuffer(b), b.len >= 16
  PROVE  KindOf(b) = "MPEG-PS" <=> First4(b) = MPEG
<1> DEFINE got == Read(b)
<1>1. got >= 9 /\ got \in Nat /\ KindOf(b) = Kind(b, got)
  BY DEF Read, Lesser, IsBuffer, KindOf
<1>2. got # 0 /\ got \notin 1 .. 8 /\ TIM2 # MPEG
  BY <1>1 DEF TIM2, MPEG
<1>3. IsBlock(b) => BlockKind(Method(b)) # "MPEG-PS"
  <2>1. IsBlock(b) => Method(b) = 0 \/ Method(b) = 1 \/ Method(b) = 3
    BY DEF IsBlock, Known
  <2> QED BY <2>1, BlockKindsAre
<1> HIDE DEF got
<1>4. First4(b) = MPEG => Kind(b, got) = "MPEG-PS"
  <2>1. ASSUME First4(b) = MPEG PROVE Kind(b, got) = "MPEG-PS"
    <3>1. First4(b) # TIM2 /\ ~IsBlock(b) /\ First4(b) # MSCF
      BY <1>2, <2>1 DEF IsBlock, MPEG, MSCF
    <3> QED BY <1>1, <1>2, <2>1, <3>1 DEF Kind
  <2> QED BY <2>1
<1>5. First4(b) # MPEG => Kind(b, got) # "MPEG-PS"
  <2> DEFINE blk == BlockKind(Method(b))
  <2>1. IsBlock(b) => blk # "MPEG-PS" /\ First4(b) # TIM2 /\ First4(b) # MSCF
    BY <1>3 DEF IsBlock
  <2> HIDE DEF blk
  <2> QED BY <1>1, <1>2, <2>1 DEF Kind, blk, TIM2, MSCF
<1> QED BY <1>1, <1>4, <1>5

\* mpeg.py and binfs.py call the same members movies, whatever lies behind the
\* short ones, and the picture shown of a movie is its own: for every container,
\* every alignment of its members and every length of the window.
THEOREM MoviesAlwaysAgree == ReportsSpec => []MoviesAgree
<1>1. Given /\ RowsInv => MoviesAgree
  <2> SUFFICES ASSUME Given, RowsInv, MoviesDone, NEW x \in 1 .. Len(container)
               PROVE  LET b == container[x]
                      IN  /\ b.len >= 16 =>
                               (rows[x].verdict \in {"bare", "movie"} <=> KindOf(b) = "MPEG-PS")
                          /\ rows[x].verdict \in {"bare", "movie"} =>
                               /\ Own(x) # {} => rows[x] = [verdict |-> "movie", at |-> Min(Own(x))]
                               /\ Own(x) = {} /\ b.len >= WINDOW => rows[x].verdict = "bare"
    BY DEF MoviesAgree
  <2> DEFINE b == container[x]
  <2>1. rows[x] = RowOf(x)
    BY DEF RowsInv, MoviesDone
  <2>2. IsBuffer(b) /\ b.len \in Nat
    BY LensAreNat DEF IsBuffer
  <2>3. rows[x].verdict \in {"bare", "movie"} <=> b.len # 0 /\ Pack(x)
    BY <2>1 DEF RowOf
  <2>4. rows[x].verdict \in {"bare", "movie"} =>
          rows[x] = IF HasPicture(x) THEN [verdict |-> "movie", at |-> Picture(x)]
                    ELSE [verdict |-> "bare", at |-> 0]
    BY <2>1, <2>3 DEF RowOf
  <2>5. ASSUME b.len >= 16 PROVE Pack(x) <=> First4(b) = MPEG
    <3>1. Len(MPEG) = 4 /\ MPEG[1] = 0 /\ MPEG[2] = 0 /\ MPEG[3] = 1 /\ MPEG[4] = 186
      BY DEF MPEG
    <3>2. Buffered(x) >= Len(MPEG)
      <4>1. WINDOW >= 4 /\ WINDOW \in Nat
        BY <3>1, MoviesAssumption
      <4>2. Lesser(WINDOW, b.len) >= 4 /\ Lesser(WINDOW, b.len) \in Nat
        BY <2>2, <2>5, <4>1 DEF Lesser
      <4>3. Buffered(x) \in Nat /\ Lesser(WINDOW, b.len) <= Buffered(x)
        BY BufferedIs
      <4> HIDE DEF b
      <4> QED BY <3>1, <4>2, <4>3
    <3>3. Reads(x, 0, MPEG) <=> \A q \in 1 .. Len(MPEG) : Byte(b, 0 + q - 1) = MPEG[q]
      <4>1. 0 + Len(MPEG) <= container[x].len /\ Len(MPEG) \in Nat /\ 0 \in Nat
        BY <2>2, <2>5, <3>1
      <4> QED BY <4>1, ReadsMember
    <3> HIDE DEF b
    <3>4. Reads(x, 0, MPEG) <=> \A q \in 1 .. 4 : Byte(b, q - 1) = MPEG[q]
      <4>1. \A q \in 1 .. 4 : 0 + q - 1 = q - 1
        OBVIOUS
      <4> QED BY <3>1, <3>3, <4>1
    <3>5. (\A q \in 1 .. 4 : Byte(b, q - 1) = MPEG[q]) <=>
            Byte(b, 0) = 0 /\ Byte(b, 1) = 0 /\ Byte(b, 2) = 1 /\ Byte(b, 3) = 186
      <4>1. \A q : q \in 1 .. 4 <=> q = 1 \/ q = 2 \/ q = 3 \/ q = 4
        OBVIOUS
      <4>2. 1 - 1 = 0 /\ 2 - 1 = 1 /\ 3 - 1 = 2 /\ 4 - 1 = 3
        OBVIOUS
      <4>3. (\A q \in 1 .. 4 : Byte(b, q - 1) = MPEG[q]) <=>
              /\ Byte(b, 1 - 1) = MPEG[1] /\ Byte(b, 2 - 1) = MPEG[2]
              /\ Byte(b, 3 - 1) = MPEG[3] /\ Byte(b, 4 - 1) = MPEG[4]
        BY <4>1, Zenon
      <4> QED BY <3>1, <4>2, <4>3
    <3>6. First4(b) = MPEG <=> Byte(b, 0) = 0 /\ Byte(b, 1) = 0 /\ Byte(b, 2) = 1 /\ Byte(b, 3) = 186
      BY DEF First4, MPEG
    <3> QED BY <3>2, <3>4, <3>5, <3>6, Zenon DEF Pack
  <2>6. b.len >= 16 => (rows[x].verdict \in {"bare", "movie"} <=> KindOf(b) = "MPEG-PS")
    <3>1. b.len >= 16 => b.len # 0
      BY <2>2
    <3> HIDE DEF b
    <3> QED BY <2>2, <2>3, <2>5, <3>1, MovieKind
  <2>7. rows[x].verdict \in {"bare", "movie"} =>
          /\ Own(x) # {} => rows[x] = [verdict |-> "movie", at |-> Min(Own(x))]
          /\ Own(x) = {} /\ b.len >= WINDOW => rows[x].verdict = "bare"
    BY <2>4, PictureIsOwn
  <2> QED BY <2>6, <2>7
<1> QED BY <1>1, RowsAlways, PTL

=============================================================================
