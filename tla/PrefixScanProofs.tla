-------------------------- MODULE PrefixScanProofs --------------------------
(***************************************************************************)
(* The bisection returns a longest common run of any two byte sequences;   *)
(* the run that the hashed search has on record is always a real one,      *)
(* whatever the hashes are; and the hashed search implements the bisection *)
(* over exact answers, so that it too returns a longest run.  Every step   *)
(* of it leaves less to do.                                                *)
(***************************************************************************)
EXTENDS PrefixScan, WellFoundedInduction, TLAPS

\* The range of the bisection.  Both ends are lengths, one of which may be past.
RangeInv ==
  /\ nee \in Seq(Nat) /\ hay \in Seq(Nat)
  /\ lo \in Nat \ {0} /\ hi \in Nat
  /\ lo <= hi + 1 /\ hi <= Shorter

LEMMA LengthsAreNat ==
  ASSUME nee \in Seq(Nat), hay \in Seq(Nat)
  PROVE  /\ Len(nee) \in Nat /\ Len(hay) \in Nat /\ Shorter \in Nat
         /\ Shorter <= Len(nee) /\ Shorter <= Len(hay)
<1>1. Len(nee) \in Nat /\ Len(hay) \in Nat
  OBVIOUS
<1> QED BY <1>1 DEF Shorter

LEMMA MidIsBetween ==
  ASSUME RangeInv, lo <= hi
  PROVE  mid \in Nat /\ lo <= mid /\ mid <= hi
BY DEF RangeInv, mid

\* What bisection rests on: a run holds a run of every smaller length.
LEMMA CommonShrinks ==
  ASSUME nee \in Seq(Nat), hay \in Seq(Nat), NEW k \in Nat, NEW m \in Nat, m <= k,
         NEW p \in Common(k)
  PROVE  p \in Common(m)
<1>1. Len(nee) \in Nat /\ Len(hay) \in Nat
  BY LengthsAreNat
<1>2. p \in (0 .. Len(nee) - k) \X (0 .. Len(hay) - k) /\ SameBytes(k, p[1], p[2])
  BY DEF Common
<1>3. p \in (0 .. Len(nee) - m) \X (0 .. Len(hay) - m)
  BY <1>1, <1>2
<1>4. SameBytes(m, p[1], p[2])
  <2>1. \A d \in 1 .. m : d \in 1 .. k
    OBVIOUS
  <2>2. \A d \in 1 .. k : nee[p[1] + d] = hay[p[2] + d]
    BY <1>2 DEF SameBytes
  <2> QED BY <2>1, <2>2 DEF SameBytes
<1> QED BY <1>3, <1>4 DEF Common

LEMMA NothingIsCommon ==
  ASSUME nee \in Seq(Nat), hay \in Seq(Nat)
  PROVE  <<0, 0>> \in Common(0)
<1>1. Len(nee) \in Nat /\ Len(hay) \in Nat
  BY LengthsAreNat
<1> QED BY <1>1 DEF Common, SameBytes

-----------------------------------------------------------------------------
(* The bisection                                                           *)

\* What is on record is a run of one less than the lower end, and no run is
\* longer than the upper end.
SearchInv ==
  /\ RangeInv
  /\ best[1] = lo - 1
  /\ <<best[2], best[3]>> \in Common(best[1])
  /\ \A k \in hi + 1 .. Shorter : Common(k) = {}

LEMMA SearchBegins == SearchInit => SearchInv
<1> SUFFICES ASSUME SearchInit PROVE SearchInv
  OBVIOUS
<1>1. nee \in Seq(Nat) /\ hay \in Seq(Nat)
  BY InputAssumption DEF SearchInit
<1>2. Shorter \in Nat
  BY <1>1, LengthsAreNat
<1>3. best[1] = 0 /\ <<best[2], best[3]>> \in Common(0)
  BY <1>1, NothingIsCommon DEF SearchInit
<1> QED BY <1>1, <1>2, <1>3 DEF SearchInit, SearchInv, RangeInv

LEMMA SearchGoesOn == SearchInv /\ [Search]_searchVars => SearchInv'
<1> SUFFICES ASSUME SearchInv, [Search]_searchVars PROVE SearchInv'
  OBVIOUS
<1>1. CASE Search /\ \E p \in Common(mid) : Succeed(p[1], p[2])
  <2>1. PICK p \in Common(mid) : Succeed(p[1], p[2])
    BY <1>1
  <2>2. nee' = nee /\ hay' = hay /\ hi' = hi /\ lo' = mid + 1 /\ best' = <<mid, p[1], p[2]>>
    BY <2>1 DEF Succeed
  <2>3. mid \in Nat /\ lo <= mid /\ mid <= hi
    BY <1>1, MidIsBetween DEF Search, SearchInv
  <2>4. p = <<p[1], p[2]>>
    BY <2>1 DEF Common
  <2>5. best'[1] = mid /\ <<best'[2], best'[3]>> = p
    BY <2>2, <2>4
  <2>6. Shorter' = Shorter /\ \A k : Common(k)' = Common(k)
    BY <2>2 DEF Shorter, Common, SameBytes
  <2>7. RangeInv'
    BY <2>2, <2>3, <2>6 DEF SearchInv, RangeInv
  <2>8. best'[1] = lo' - 1
    BY <2>2, <2>3, <2>5
  <2>9. <<best'[2], best'[3]>> \in Common(best'[1])
    BY <2>1, <2>5
  <2>10. \A k \in hi' + 1 .. Shorter : Common(k) = {}
    BY <2>2 DEF SearchInv
  <2> QED BY <2>6, <2>7, <2>8, <2>9, <2>10 DEF SearchInv
<1>2. CASE Search /\ Common(mid) = {} /\ Fail
  <2>1. nee' = nee /\ hay' = hay /\ lo' = lo /\ best' = best /\ hi' = mid - 1
    BY <1>2 DEF Fail
  <2>2. mid \in Nat /\ lo <= mid /\ mid <= hi
    BY <1>2, MidIsBetween DEF Search, SearchInv
  <2>3. Shorter' = Shorter /\ \A k : Common(k)' = Common(k)
    BY <2>1 DEF Shorter, Common, SameBytes
  <2>4. RangeInv' /\ Shorter \in Nat
    BY <2>1, <2>2, <2>3, LengthsAreNat DEF SearchInv, RangeInv
  <2>5. \A k \in hi' + 1 .. Shorter : Common(k) = {}
    <3> SUFFICES ASSUME NEW k \in hi' + 1 .. Shorter, NEW p \in Common(k) PROVE FALSE
      OBVIOUS
    <3>1. k \in Nat /\ mid <= k
      BY <2>1, <2>2, <2>4
    <3>2. p \in Common(mid)
      BY <2>2, <3>1, CommonShrinks DEF SearchInv, RangeInv
    <3> QED BY <1>2, <3>2
  <2> QED BY <2>1, <2>3, <2>4, <2>5 DEF SearchInv
<1>3. CASE UNCHANGED searchVars
  <2>1. nee' = nee /\ hay' = hay /\ lo' = lo /\ hi' = hi /\ best' = best
    BY <1>3 DEF searchVars
  <2>2. Shorter' = Shorter /\ \A k : Common(k)' = Common(k)
    BY <2>1 DEF Shorter, Common, SameBytes
  <2>3. Common(best[1])' = Common(best[1])
    BY <2>1 DEF Common, SameBytes
  <2> QED BY <2>1, <2>2, <2>3 DEF SearchInv, RangeInv
<1> QED BY <1>1, <1>2, <1>3 DEF Search

\* Bisection on the length is sound and complete for any two byte sequences.
THEOREM BisectionIsRight == SearchSpec => []LongestRun
<1>1. SearchInv => LongestRun
  <2> SUFFICES ASSUME SearchInv, lo > hi PROVE LongestRun
    BY DEF LongestRun
  <2>1. best[1] = hi
    BY DEF SearchInv, RangeInv
  <2> QED BY <2>1 DEF SearchInv, LongestRun
<1> QED BY <1>1, SearchBegins, SearchGoesOn, PTL DEF SearchSpec

-----------------------------------------------------------------------------
(* The hashed search                                                       *)

\* The table only lists places where a window fits.
Fits(table, k) ==
  \A x \in DOMAIN table : table[x] \in Seq(0 .. Len(hay) - k)

ScanInv ==
  /\ RangeInv
  /\ RunIsReal
  /\ pc \in {"bisect", "index", "probe", "returned"}
  /\ pc \in {"index", "probe"} => lo <= hi /\ Fits(idx, mid)
  /\ pc = "index" => at \in mid .. Len(hay)
  /\ pc = "probe" => at \in Nat

LEMMA ListedFits ==
  ASSUME NEW table, NEW k, Fits(table, k), NEW x
  PROVE  Listed(table, x) \in Seq(0 .. Len(hay) - k)
<1>1. <<>> \in Seq(0 .. Len(hay) - k)
  OBVIOUS
<1> QED BY <1>1 DEF Listed, Fits

LEMMA EnterFits ==
  ASSUME NEW table, NEW k, Fits(table, k), NEW x, NEW j \in 0 .. Len(hay) - k
  PROVE  Fits(Enter(table, x, j), k)
<1>1. Listed(table, x) \in Seq(0 .. Len(hay) - k)
  BY ListedFits
<1>2. Append(Listed(table, x), j) \in Seq(0 .. Len(hay) - k)
  BY <1>1
<1> QED BY <1>2 DEF Enter, Fits

LEMMA ScanBegins == Init => ScanInv
<1> SUFFICES ASSUME Init PROVE ScanInv
  OBVIOUS
<1>1. SearchInv
  BY SearchBegins DEF Init
<1> QED BY <1>1 DEF Init, ScanInv, SearchInv, RunIsReal

LEMMA ScanGoesOn == ScanInv /\ [Next]_vars => ScanInv'
<1> SUFFICES ASSUME ScanInv, [Next]_vars PROVE ScanInv'
  OBVIOUS
<1>0. /\ nee \in Seq(Nat) /\ hay \in Seq(Nat) /\ Len(nee) \in Nat /\ Len(hay) \in Nat
      /\ Shorter \in Nat /\ Shorter <= Len(nee) /\ Shorter <= Len(hay)
      /\ nee' = nee /\ hay' = hay
  BY LengthsAreNat DEF ScanInv, RangeInv, Next, Step, StartIndex, IndexWindow, IndexDone,
     Match, NextWindow, NoMatch, Return, Finished, vars, searchVars, Succeed, Fail
<1>1. Shorter' = Shorter /\ \A k : Common(k)' = Common(k)
  BY <1>0 DEF Shorter, Common, SameBytes
<1>2. lo <= hi => mid \in Nat /\ lo <= mid /\ mid <= hi /\ 1 <= mid /\ mid <= Len(hay)
                  /\ mid <= Len(nee)
  BY <1>0, MidIsBetween DEF ScanInv, RangeInv
<1>3. ASSUME UNCHANGED searchVars
      PROVE  RangeInv' /\ RunIsReal' /\ lo' = lo /\ hi' = hi /\ mid' = mid
  BY <1>1, <1>3 DEF ScanInv, RangeInv, RunIsReal, searchVars, mid
<1>4. CASE StartIndex
  <2>1. lo <= hi /\ UNCHANGED searchVars /\ pc' = "index" /\ at' = mid
        /\ idx' = Enter(<<>>, h', 0)
    BY <1>4 DEF StartIndex
  <2>2. Fits(<<>>, mid)
    BY DEF Fits
  <2>3. 0 \in 0 .. Len(hay) - mid
    BY <1>0, <1>2, <2>1
  <2>4. Fits(idx', mid)
    BY <2>1, <2>2, <2>3, EnterFits
  <2>5. Fits(idx, mid)'
    BY <1>0, <1>3, <2>1, <2>4 DEF Fits
  <2> QED BY <1>0, <1>2, <1>3, <2>1, <2>5 DEF ScanInv
<1>5. CASE IndexWindow
  <2>1. lo <= hi /\ UNCHANGED searchVars /\ pc' = pc /\ pc = "index" /\ at' = at + 1
        /\ at < Len(hay) /\ idx' = Enter(idx, h', at - mid + 1)
    BY <1>5 DEF IndexWindow, ScanInv
  <2>2. Fits(idx, mid) /\ at \in mid .. Len(hay)
    BY <2>1 DEF ScanInv
  <2>3. at - mid + 1 \in 0 .. Len(hay) - mid
    BY <1>0, <1>2, <2>1, <2>2
  <2>4. Fits(idx', mid)
    BY <2>1, <2>2, <2>3, EnterFits
  <2>5. Fits(idx, mid)'
    BY <1>0, <1>3, <2>1, <2>4 DEF Fits
  <2>6. at' \in mid .. Len(hay)
    BY <1>0, <1>2, <2>1, <2>2
  <2> QED BY <1>0, <1>2, <1>3, <2>1, <2>5, <2>6 DEF ScanInv
<1>6. CASE IndexDone \/ NextWindow
  <2>1. lo <= hi /\ UNCHANGED searchVars /\ idx' = idx /\ pc' = "probe" /\ at' \in Nat
    BY <1>6 DEF IndexDone, NextWindow, ScanInv
  <2>2. Fits(idx, mid)
    BY <1>6 DEF IndexDone, NextWindow, ScanInv
  <2>3. Fits(idx, mid)'
    BY <1>0, <1>3, <2>1, <2>2 DEF Fits
  <2> QED BY <1>0, <1>3, <2>1, <2>3 DEF ScanInv
<1>7. CASE Match
  <2>1. /\ lo <= hi /\ Fits(idx, mid) /\ at \in Nat /\ at <= Len(nee) - mid /\ pc' = "bisect"
    BY <1>7 DEF Match, ScanInv
  <2> DEFINE list == Listed(idx, h)
  <2>2. PICK q \in Verified : Succeed(at, list[q])
    BY <1>7 DEF Match
  <2>3. q \in 1 .. Len(list) /\ SameBytes(mid, at, list[q])
    BY <2>2 DEF Verified
  <2>4. list \in Seq(0 .. Len(hay) - mid)
    BY <2>1, ListedFits
  <2> HIDE DEF list
  <2>5. list[q] \in 0 .. Len(hay) - mid
    <3> DEFINE offsets == 0 .. Len(hay) - mid
    <3>1. list \in Seq(offsets)
      BY <2>4
    <3> HIDE DEF offsets
    <3>2. list[q] \in offsets
      BY <2>3, <3>1
    <3> QED BY <3>2 DEF offsets
  <2>6. best' = <<mid, at, list[q]>> /\ lo' = mid + 1 /\ hi' = hi
    BY <2>2 DEF Succeed
  <2>7. <<at, list[q]>> \in Common(mid)
    BY <1>0, <1>2, <2>1, <2>3, <2>5 DEF Common
  <2>8. RunIsReal'
    BY <1>1, <2>6, <2>7 DEF RunIsReal
  <2>9. RangeInv'
    <3>1. lo \in Nat /\ hi \in Nat /\ hi <= Shorter /\ mid \in Nat /\ mid <= hi
      BY <1>2, <2>1 DEF ScanInv, RangeInv
    <3>2. lo' \in Nat \ {0} /\ hi' \in Nat /\ lo' <= hi' + 1 /\ hi' <= Shorter
      BY <2>6, <3>1
    <3> QED BY <1>0, <1>1, <3>2 DEF RangeInv
  <2> QED BY <2>1, <2>8, <2>9 DEF ScanInv
<1>8. CASE NoMatch
  <2>1. lo <= hi /\ hi' = mid - 1 /\ lo' = lo /\ best' = best /\ pc' = "bisect"
    BY <1>8 DEF NoMatch, Fail, ScanInv
  <2>2. RunIsReal'
    BY <1>0, <2>1 DEF ScanInv, RunIsReal, Common, SameBytes
  <2>3. RangeInv'
    <3>1. lo \in Nat \ {0} /\ hi \in Nat /\ hi <= Shorter /\ mid \in Nat /\ lo <= mid
          /\ mid <= hi
      BY <1>2, <2>1 DEF ScanInv, RangeInv
    <3>2. lo' \in Nat \ {0} /\ hi' \in Nat /\ lo' <= hi' + 1 /\ hi' <= Shorter
      BY <1>0, <2>1, <3>1
    <3> QED BY <1>0, <1>1, <3>2 DEF RangeInv
  <2> QED BY <2>1, <2>2, <2>3 DEF ScanInv
<1>9. CASE Return
  <2>1. UNCHANGED searchVars /\ pc' = "returned"
    BY <1>9 DEF Return
  <2> QED BY <1>3, <2>1 DEF ScanInv
<1>10. CASE UNCHANGED vars
  <2>1. UNCHANGED searchVars /\ idx' = idx /\ at' = at /\ pc' = pc
    BY <1>10 DEF vars
  <2> QED BY <1>0, <1>3, <2>1 DEF ScanInv, Fits
<1> QED BY <1>4, <1>5, <1>6, <1>7, <1>8, <1>9, <1>10 DEF Next, Step, Finished

\* Whatever the base, the modulus and so the collisions are, the search never has
\* a run on record that is not in both files.
THEOREM RunsAreReal == Spec => []RunIsReal
<1>1. ScanInv => RunIsReal
  BY DEF ScanInv
<1> QED BY <1>1, ScanBegins, ScanGoesOn, PTL DEF Spec

-----------------------------------------------------------------------------
(* The rolling hash                                                        *)

\* A set of naturals that is not empty has a smallest element.
LEMMA SmallestThere ==
  ASSUME NEW S, S \subseteq Nat, S # {}
  PROVE  \E x \in S : \A y \in S : x <= y
<1>1. PICK x \in S : \A y \in S : ~(<<y, x>> \in OpToRel(<, Nat))
  BY WFMin, NatLessThanWellFounded
<1>2. \A y \in S : x \in Nat /\ y \in Nat /\ ~(y < x)
  BY <1>1 DEF OpToRel
<1>3. \A y \in S : x <= y
  BY <1>2
<1> QED BY <1>3

\* Numbers that are the same to the modulus.
Congruent(a, b) == \E q \in Int : a = b + PRIME * q

LEMMA CongruentRests ==
  ASSUME NEW a \in Int, NEW b \in Int
  PROVE  /\ a % PRIME \in 0 .. PRIME - 1
         /\ Congruent(a % PRIME, a)
         /\ Congruent(a, b) => a % PRIME = b % PRIME
<1>0. PRIME \in Nat \ {0}
  BY HashAssumption
<1>1. \A c \in Int : c % PRIME \in 0 .. PRIME - 1 /\ c \div PRIME \in Int
                       /\ c = (c % PRIME) + PRIME * (c \div PRIME)
  BY <1>0
<1>2. Congruent(a % PRIME, a)
  <2>1. PICK r \in Int : a = (a % PRIME) + PRIME * r
    BY <1>1
  <2> DEFINE u == a % PRIME
  <2>2. u \in Int /\ PRIME \in Int /\ a = u + PRIME * r
    BY <1>0, <1>1, <2>1
  <2> HIDE DEF u
  <2>3. u = a + PRIME * (-r) /\ -r \in Int
    BY <2>2
  <2>4. Congruent(u, a)
    BY <2>3 DEF Congruent
  <2> QED BY <2>4 DEF u
<1>3. ASSUME NEW c \in 0 .. PRIME - 1, NEW d \in 0 .. PRIME - 1, NEW q \in Int,
             c = d + PRIME * q
      PROVE  c = d
  <2>1. CASE q >= 1
    <3>1. PRIME * q >= PRIME
      BY <1>0, <2>1
    <3> QED BY <1>0, <1>3, <3>1
  <2>2. CASE q <= -1
    <3>1. PRIME * q <= -PRIME
      BY <1>0, <2>2
    <3> QED BY <1>0, <1>3, <3>1
  <2>3. CASE q = 0
    BY <1>0, <1>3, <2>3
  <2> QED BY <2>1, <2>2, <2>3
<1>4. ASSUME Congruent(a, b) PROVE a % PRIME = b % PRIME
  <2>1. PICK q \in Int : a = b + PRIME * q
    BY <1>4 DEF Congruent
  <2>2. PICK r \in Int : a = (a % PRIME) + PRIME * r
    BY <1>1
  <2>3. PICK s \in Int : b = (b % PRIME) + PRIME * s
    BY <1>1
  <2> DEFINE u == a % PRIME
             v == b % PRIME
  <2>4. u \in 0 .. PRIME - 1 /\ v \in 0 .. PRIME - 1 /\ PRIME \in Int
    <3>1. u \in 0 .. PRIME - 1 /\ v \in 0 .. PRIME - 1
      BY <1>1
    <3> QED BY <1>0, <3>1
  <2>5. a = u + PRIME * r /\ b = v + PRIME * s
    BY <2>2, <2>3
  <2> HIDE DEF u, v
  <2>6. u = v + PRIME * (q + s - r) /\ q + s - r \in Int
    BY <2>1, <2>4, <2>5
  <2>7. u = v
    BY <1>3, <2>4, <2>6
  <2> QED BY <2>7 DEF u, v
<1> QED BY <1>1, <1>2, <1>4

LEMMA CongruentSteps ==
  ASSUME NEW a \in Int, NEW b \in Int, NEW c \in Int, NEW d \in Int
  PROVE  /\ Congruent(a, a)
         /\ Congruent(a, b) => Congruent(b, a)
         /\ Congruent(a, b) /\ Congruent(b, c) => Congruent(a, c)
         /\ Congruent(a, b) => Congruent(a * c + d, b * c + d)
         /\ Congruent(a, b) => Congruent(c - d * a, c - d * b)
<1>0. PRIME \in Int
  BY HashAssumption
<1>1. Congruent(a, a)
  <2>1. a = a + PRIME * 0
    BY <1>0
  <2> QED BY <2>1 DEF Congruent
<1>2. ASSUME Congruent(a, b)
      PROVE  /\ Congruent(b, a)
             /\ Congruent(a * c + d, b * c + d)
             /\ Congruent(c - d * a, c - d * b)
  <2>1. PICK q \in Int : a = b + PRIME * q
    BY <1>2 DEF Congruent
  <2>2. b = a + PRIME * (-q)
    BY <1>0, <2>1
  <2>3. a * c + d = (b * c + d) + PRIME * (q * c)
    BY <1>0, <2>1
  <2>4. c - d * a = (c - d * b) + PRIME * (-(d * q))
    BY <1>0, <2>1
  <2>5. -q \in Int /\ q * c \in Int /\ -(d * q) \in Int
    OBVIOUS
  <2> QED BY <2>2, <2>3, <2>4, <2>5 DEF Congruent
<1>3. ASSUME Congruent(a, b), Congruent(b, c) PROVE Congruent(a, c)
  <2>1. PICK q \in Int : a = b + PRIME * q
    BY <1>3 DEF Congruent
  <2>2. PICK r \in Int : b = c + PRIME * r
    BY <1>3 DEF Congruent
  <2>3. a = c + PRIME * (q + r) /\ q + r \in Int
    BY <1>0, <2>1, <2>2
  <2> QED BY <2>3 DEF Congruent
<1> QED BY <1>1, <1>2, <1>3

\* A value for each of 0 .. k, the next from the one before it.
Stepped(f, k, S, c, G) ==
  /\ f \in [0 .. k -> S]
  /\ f[0] = c
  /\ \A m \in 1 .. k : f[m] = G[<<m, f[m - 1]>>]

LEMMA StepByStep ==
  ASSUME NEW k \in Nat, NEW S, NEW c \in S, NEW G \in [(1 .. k) \X S -> S]
  PROVE  \E f : Stepped(f, k, S, c, G)
<1> DEFINE Is(f, n) == f[0] = c /\ \A m \in 1 .. n : f[m] = G[<<m, f[m - 1]>>]
           Wrong == {n \in 0 .. k : \A f \in [0 .. n -> S] : ~Is(f, n)}
<1>1. SUFFICES ASSUME Wrong # {} PROVE FALSE
  <2>1. k \in 0 .. k
    OBVIOUS
  <2>2. \E f \in [0 .. k -> S] : Is(f, k)
    BY <1>1, <2>1
  <2> QED BY <2>2 DEF Stepped
<1>2. PICK n \in Wrong : \A y \in Wrong : n <= y
  <2>1. Wrong \subseteq Nat
    OBVIOUS
  <2> HIDE DEF Wrong
  <2> QED BY <1>1, <2>1, SmallestThere
<1>3. n \in 0 .. k /\ n - 1 \notin Wrong /\ \A f \in [0 .. n -> S] : ~Is(f, n)
  <2>1. n \in 0 .. k /\ \A f \in [0 .. n -> S] : ~Is(f, n)
    OBVIOUS
  <2>2. \A y \in Wrong : y >= n /\ y \in Nat
    BY <1>2
  <2> HIDE DEF Wrong, Is
  <2> QED BY <2>1, <2>2
<1>4. n # 0
  <2>1. [m \in 0 .. 0 |-> c] \in [0 .. 0 -> S] /\ Is([m \in 0 .. 0 |-> c], 0)
    OBVIOUS
  <2> HIDE DEF Is
  <2> QED BY <1>3, <2>1
<1>5. PICK f \in [0 .. n - 1 -> S] : Is(f, n - 1)
  <2>1. n - 1 \in 0 .. k
    BY <1>3, <1>4
  <2> QED BY <1>3, <2>1
<1> DEFINE g == [m \in 0 .. n |-> IF m = n THEN G[<<n, f[n - 1]>>] ELSE f[m]]
<1>6. n \in 1 .. k /\ n - 1 \in 0 .. n - 1 /\ \A m \in 0 .. n : m = n \/ m \in 0 .. n - 1
  BY <1>3, <1>4
<1>7. f[n - 1] \in S /\ \A m \in 0 .. n - 1 : f[m] \in S
  BY <1>5, <1>6
<1>8. G[<<n, f[n - 1]>>] \in S
  BY <1>6, <1>7
<1>9. g \in [0 .. n -> S]
  BY <1>6, <1>7, <1>8
<1>10. g[n] = G[<<n, f[n - 1]>>] /\ \A m \in 0 .. n - 1 : g[m] = f[m]
  BY <1>6
<1> HIDE DEF g
<1>11. \A m \in 1 .. n : g[m] = G[<<m, g[m - 1]>>]
  <2> SUFFICES ASSUME NEW m \in 1 .. n PROVE g[m] = G[<<m, g[m - 1]>>]
    OBVIOUS
  <2>1. m - 1 \in 0 .. n - 1 /\ (m = n \/ m \in 1 .. n - 1)
    BY <1>6
  <2>2. CASE m = n
    BY <1>10, <2>1, <2>2
  <2>3. CASE m \in 1 .. n - 1
    <3>1. g[m] = f[m] /\ g[m - 1] = f[m - 1]
      BY <1>10, <2>1, <2>3
    <3> QED BY <1>5, <2>3, <3>1
  <2> QED BY <2>1, <2>2, <2>3
<1>12. g[0] = c
  BY <1>5, <1>6, <1>10
<1> QED BY <1>3, <1>9, <1>11, <1>12

\* Two functions that begin alike and go on alike are alike.
LEMMA SameSteps ==
  ASSUME NEW k \in Nat, NEW f, NEW g, f[0] = g[0],
         \A m \in 1 .. k : f[m - 1] = g[m - 1] => f[m] = g[m]
  PROVE  \A m \in 0 .. k : f[m] = g[m]
<1> DEFINE Wrong == {n \in 0 .. k : f[n] # g[n]}
<1>1. SUFFICES ASSUME Wrong # {} PROVE FALSE
  OBVIOUS
<1>2. PICK n \in Wrong : \A y \in Wrong : n <= y
  <2>1. Wrong \subseteq Nat
    OBVIOUS
  <2> HIDE DEF Wrong
  <2> QED BY <1>1, <2>1, SmallestThere
<1>3. n \in 0 .. k /\ f[n] # g[n] /\ n - 1 \notin Wrong
  <2>1. n \in 0 .. k /\ f[n] # g[n]
    OBVIOUS
  <2>2. \A y \in Wrong : y >= n /\ y \in Nat
    BY <1>2
  <2> HIDE DEF Wrong
  <2> QED BY <2>1, <2>2
<1>4. n \in 1 .. k /\ n - 1 \in 0 .. k
  <2>1. n # 0
    BY <1>3
  <2> QED BY <1>3, <2>1
<1>5. f[n - 1] = g[n - 1]
  BY <1>3, <1>4
<1> QED BY <1>3, <1>4, <1>5

\* The hash of k bytes, byte by byte.
HashSteps(f, s, k) ==
  /\ f \in [0 .. k -> Int]
  /\ f[0] = 0
  /\ \A m \in 1 .. k : f[m] = (f[m - 1] * BASE + s[m]) % PRIME

LEMMA HashIs ==
  ASSUME NEW k \in Nat, NEW s, \A m \in 1 .. k : s[m] \in Nat
  PROVE  \E f : HashSteps(f, s, k) /\ FirstHash(s, k) = f[k]
<1> DEFINE G == [p \in (1 .. k) \X Int |-> (p[2] * BASE + s[p[1]]) % PRIME]
           Says(g) == g = [m \in 0 .. k |-> IF m = 0 THEN 0 ELSE (g[m - 1] * BASE + s[m]) % PRIME]
           h1 == CHOOSE g : Says(g)
<1>0. BASE \in Nat
  BY HashAssumption
<1>1. \A m \in 1 .. k, v \in Int :
        G[<<m, v>>] = (v * BASE + s[m]) % PRIME /\ (v * BASE + s[m]) % PRIME \in Int
  <2> SUFFICES ASSUME NEW m \in 1 .. k, NEW v \in Int
               PROVE  G[<<m, v>>] = (v * BASE + s[m]) % PRIME
                        /\ (v * BASE + s[m]) % PRIME \in Int
    OBVIOUS
  <2>1. v * BASE + s[m] \in Int
    BY <1>0
  <2>2. (v * BASE + s[m]) % PRIME \in 0 .. PRIME - 1
    BY <2>1, CongruentRests
  <2>3. G[<<m, v>>] = (v * BASE + s[m]) % PRIME
    OBVIOUS
  <2> QED BY <2>2, <2>3
<1>2. G \in [(1 .. k) \X Int -> Int]
  <2>1. \A p \in (1 .. k) \X Int : p[1] \in 1 .. k /\ p[2] \in Int /\ p = <<p[1], p[2]>>
    OBVIOUS
  <2>2. \A p \in (1 .. k) \X Int : (p[2] * BASE + s[p[1]]) % PRIME \in Int
    BY <1>1, <2>1
  <2> QED BY <2>2
<1> HIDE DEF G
<1>3. PICK f \in [0 .. k -> Int] : f[0] = 0 /\ \A m \in 1 .. k : f[m] = G[<<m, f[m - 1]>>]
  <2>1. 0 \in Int /\ k \in Nat
    OBVIOUS
  <2>2. \E f : Stepped(f, k, Int, 0, G)
    BY <1>2, <2>1, StepByStep
  <2> QED BY <2>2 DEF Stepped
<1>4. \A m \in 1 .. k : m - 1 \in 0 .. k /\ f[m - 1] \in Int
  OBVIOUS
<1>5. HashSteps(f, s, k)
  BY <1>1, <1>3, <1>4 DEF HashSteps
<1>6. Says(f)
  <2>1. \A m \in 0 .. k : f[m] = IF m = 0 THEN 0 ELSE (f[m - 1] * BASE + s[m]) % PRIME
    <3>1. \A m \in 0 .. k : m = 0 \/ m \in 1 .. k
      OBVIOUS
    <3> QED BY <1>5, <3>1 DEF HashSteps
  <2> QED BY <2>1
<1>7. Says(h1)
  <2> HIDE DEF Says
  <2> QED BY <1>6
<1>8. FirstHash(s, k) = h1[k]
  BY Zenon DEF FirstHash
<1> HIDE DEF h1
<1>9. h1[0] = 0 /\ \A m \in 1 .. k : h1[m] = (h1[m - 1] * BASE + s[m]) % PRIME
  <2>1. \A m \in 0 .. k : h1[m] = IF m = 0 THEN 0 ELSE (h1[m - 1] * BASE + s[m]) % PRIME
    BY <1>7
  <2>2. \A m \in 1 .. k : m \in 0 .. k /\ m # 0
    OBVIOUS
  <2>3. 0 \in 0 .. k
    OBVIOUS
  <2> HIDE DEF Says
  <2> QED BY <2>1, <2>2, <2>3
<1>10. h1[k] = f[k]
  <2>1. \A m \in 1 .. k : f[m - 1] = h1[m - 1] => f[m] = h1[m]
    BY <1>5, <1>9 DEF HashSteps
  <2>2. \A m \in 0 .. k : f[m] = h1[m]
    <3>1. f[0] = h1[0]
      BY <1>3, <1>9
    <3> HIDE DEF Says
    <3> QED BY <2>1, <3>1, SameSteps
  <2> QED BY <2>2
<1> QED BY <1>5, <1>8, <1>10

\* Only the bytes themselves matter, not what they are bytes of.
LEMMA HashOfSame ==
  ASSUME NEW k \in Nat, NEW s, NEW t,
         \A m \in 1 .. k : s[m] \in Nat /\ t[m] = s[m]
  PROVE  FirstHash(s, k) = FirstHash(t, k)
<1>1. PICK f : HashSteps(f, s, k) /\ FirstHash(s, k) = f[k]
  BY HashIs
<1>2. PICK g : HashSteps(g, t, k) /\ FirstHash(t, k) = g[k]
  BY HashIs
<1>3. \A m \in 1 .. k : f[m - 1] = g[m - 1] => f[m] = g[m]
  BY <1>1, <1>2 DEF HashSteps
<1>4. f[0] = g[0]
  BY <1>1, <1>2 DEF HashSteps
<1>5. \A m \in 0 .. k : f[m] = g[m]
  <2>1. k \in Nat
    OBVIOUS
  <2> QED BY <1>3, <1>4, <2>1, SameSteps
<1> QED BY <1>1, <1>2, <1>5

\* The powers of the base up to one of them.
PowerSteps(p, k) ==
  /\ p \in [0 .. k -> Int]
  /\ p[0] = 1
  /\ \A m \in 1 .. k : p[m] = p[m - 1] * BASE

LEMMA PowerIs ==
  ASSUME NEW k \in Nat
  PROVE  \E p : PowerSteps(p, k) /\ Power(k) = p[k]
<1> DEFINE G == [q \in (1 .. k) \X Int |-> q[2] * BASE]
           Says(g) == g = [m \in 0 .. k |-> IF m = 0 THEN 1 ELSE g[m - 1] * BASE]
           h1 == CHOOSE g : Says(g)
<1>0. BASE \in Nat
  BY HashAssumption
<1>1. \A m \in 1 .. k, v \in Int : G[<<m, v>>] = v * BASE /\ v * BASE \in Int
  BY <1>0
<1>2. G \in [(1 .. k) \X Int -> Int]
  <2>1. \A q \in (1 .. k) \X Int : q[2] \in Int
    OBVIOUS
  <2>2. \A q \in (1 .. k) \X Int : q[2] * BASE \in Int
    BY <1>0, <2>1
  <2> QED BY <2>2
<1> HIDE DEF G
<1>3. PICK p \in [0 .. k -> Int] : p[0] = 1 /\ \A m \in 1 .. k : p[m] = G[<<m, p[m - 1]>>]
  <2>1. 1 \in Int /\ k \in Nat
    OBVIOUS
  <2>2. \E f : Stepped(f, k, Int, 1, G)
    BY <1>2, <2>1, StepByStep
  <2> QED BY <2>2 DEF Stepped
<1>4. \A m \in 1 .. k : m - 1 \in 0 .. k /\ p[m - 1] \in Int
  OBVIOUS
<1>5. PowerSteps(p, k)
  BY <1>1, <1>3, <1>4 DEF PowerSteps
<1>6. Says(p)
  <2>1. \A m \in 0 .. k : p[m] = IF m = 0 THEN 1 ELSE p[m - 1] * BASE
    <3>1. \A m \in 0 .. k : m = 0 \/ m \in 1 .. k
      OBVIOUS
    <3> QED BY <1>5, <3>1 DEF PowerSteps
  <2> QED BY <2>1
<1>7. Says(h1)
  <2> HIDE DEF Says
  <2> QED BY <1>6
<1>8. Power(k) = h1[k]
  BY Zenon DEF Power
<1> HIDE DEF h1
<1>9. h1[0] = 1 /\ \A m \in 1 .. k : h1[m] = h1[m - 1] * BASE
  <2>1. \A m \in 0 .. k : h1[m] = IF m = 0 THEN 1 ELSE h1[m - 1] * BASE
    BY <1>7
  <2>2. \A m \in 1 .. k : m \in 0 .. k /\ m # 0
    OBVIOUS
  <2>3. 0 \in 0 .. k
    OBVIOUS
  <2> HIDE DEF Says
  <2> QED BY <2>1, <2>2, <2>3
<1>10. h1[k] = p[k]
  <2>1. \A m \in 1 .. k : p[m - 1] = h1[m - 1] => p[m] = h1[m]
    BY <1>5, <1>9 DEF PowerSteps
  <2>2. p[0] = h1[0] /\ k \in Nat
    BY <1>3, <1>9
  <2>3. \A m \in 0 .. k : p[m] = h1[m]
    <3> HIDE DEF Says
    <3> QED BY <2>1, <2>2, SameSteps
  <2> QED BY <2>3
<1> QED BY <1>5, <1>8, <1>10

\* The hash of a window from that of the one before it: the weight of the byte
\* that leaves is a power of the base, to the modulus.
LEMMA RollIs ==
  ASSUME NEW k \in Nat \ {0}, NEW u, NEW v,
         \A m \in 1 .. k : u[m] \in Nat /\ v[m] \in Nat,
         \A m \in 1 .. k - 1 : v[m] = u[m + 1]
  PROVE  ((FirstHash(u, k) - u[1] * (Power(k - 1) % PRIME)) * BASE + v[k]) % PRIME
           = FirstHash(v, k)
<1>0. BASE \in Int /\ k \in Nat /\ k - 1 \in Nat /\ 1 \in 1 .. k /\ k \in 1 .. k
  BY HashAssumption
<1>1. PICK f : HashSteps(f, u, k) /\ FirstHash(u, k) = f[k]
  BY <1>0, HashIs
<1>2. PICK g : HashSteps(g, v, k) /\ FirstHash(v, k) = g[k]
  BY <1>0, HashIs
<1>3. PICK p : PowerSteps(p, k - 1) /\ Power(k - 1) = p[k - 1]
  BY <1>0, PowerIs
<1>4. /\ \A m \in 0 .. k : f[m] \in Int /\ g[m] \in Int
      /\ \A m \in 0 .. k - 1 : p[m] \in Int
      /\ u[1] \in Int /\ v[k] \in Int
  BY <1>0, <1>1, <1>2, <1>3 DEF HashSteps, PowerSteps
<1> DEFINE Right(m) == Congruent(f[m + 1] - u[1] * p[m], g[m])
           Wrong == {m \in 0 .. k - 1 : ~Right(m)}
<1>5. Wrong = {}
  <2>1. SUFFICES ASSUME Wrong # {} PROVE FALSE
    OBVIOUS
  <2>2. PICK n \in Wrong : \A y \in Wrong : n <= y
    <3>1. Wrong \subseteq Nat
      BY <1>0
    <3> HIDE DEF Wrong
    <3> QED BY <2>1, <3>1, SmallestThere
  <2>3. n \in 0 .. k - 1 /\ ~Right(n) /\ n - 1 \notin Wrong
    <3>1. n \in 0 .. k - 1 /\ ~Right(n)
      OBVIOUS
    <3>2. \A y \in Wrong : y >= n /\ y \in Nat
      BY <1>0, <2>2
    <3> HIDE DEF Wrong
    <3> QED BY <3>1, <3>2
  <2>4. n + 1 \in 1 .. k /\ n \in Nat
    BY <1>0, <2>3
  <2>5. f[n + 1] = (f[n] * BASE + u[n + 1]) % PRIME /\ f[n] \in Int /\ u[n + 1] \in Int
    <3>1. n \in 0 .. k /\ (n + 1) - 1 = n
      BY <2>4
    <3>2. f[n + 1] = (f[(n + 1) - 1] * BASE + u[n + 1]) % PRIME
      BY <1>1, <2>4 DEF HashSteps
    <3> QED BY <1>4, <2>4, <3>1, <3>2
  <2> DEFINE a == f[n] * BASE + u[n + 1]
  <2>6. a \in Int /\ f[n + 1] \in Int /\ Congruent(f[n + 1], a)
    <3>1. a \in Int /\ f[n + 1] \in Int
      BY <1>0, <1>4, <2>4, <2>5
    <3> QED BY <2>5, <3>1, CongruentRests
  <2>7. CASE n = 0
    <3>1. f[0] = 0 /\ g[0] = 0 /\ p[0] = 1
      BY <1>1, <1>2, <1>3 DEF HashSteps, PowerSteps
    <3>2. a = u[1]
      BY <1>0, <1>4, <2>7, <3>1
    <3>3. Congruent(f[1], u[1]) /\ f[1] \in Int
      BY <2>6, <2>7, <3>2
    <3>4. Congruent(f[1] * 1 + (-u[1]), u[1] * 1 + (-u[1]))
      <4>1. -u[1] \in Int /\ 1 \in Int
        BY <1>4
      <4> QED BY <1>4, <3>3, <4>1, CongruentSteps
    <3>5. f[1] * 1 + (-u[1]) = f[1] - u[1] * p[0] /\ u[1] * 1 + (-u[1]) = g[0]
      BY <1>4, <3>1, <3>3
    <3> QED BY <2>3, <2>7, <3>4, <3>5
  <2>8. CASE n # 0
    <3>1. n - 1 \in 0 .. k - 1 /\ n \in 1 .. k /\ n \in 1 .. k - 1 /\ (n - 1) + 1 = n
      BY <1>0, <2>3, <2>8
    <3>2. Congruent(f[n] - u[1] * p[n - 1], g[n - 1])
      BY <2>3, <3>1
    <3>3. /\ g[n] = (g[n - 1] * BASE + v[n]) % PRIME /\ v[n] = u[n + 1]
          /\ p[n] = p[n - 1] * BASE
          /\ g[n] \in Int /\ g[n - 1] \in Int /\ p[n] \in Int /\ p[n - 1] \in Int
      <4>1. g[n] = (g[n - 1] * BASE + v[n]) % PRIME
        BY <1>2, <3>1 DEF HashSteps
      <4>2. p[n] = p[n - 1] * BASE
        BY <1>3, <3>1 DEF PowerSteps
      <4>3. n \in 0 .. k /\ n - 1 \in 0 .. k
        BY <3>1
      <4> QED BY <1>4, <2>3, <3>1, <4>1, <4>2, <4>3
    <3> DEFINE b == f[n] - u[1] * p[n - 1]
               c == g[n - 1] * BASE + u[n + 1]
    <3>4. b \in Int /\ c \in Int
      BY <1>0, <1>4, <2>5, <3>3
    <3>5. Congruent(b * BASE + u[n + 1], c)
      <4> HIDE DEF b
      <4>1. Congruent(b, g[n - 1])
        BY <3>2 DEF b
      <4>2. \A w, y, z, d \in Int : Congruent(w, y) => Congruent(w * z + d, y * z + d)
        BY CongruentSteps
      <4> QED BY <1>0, <2>5, <3>3, <3>4, <4>1, <4>2, Zenon
    <3>6. Congruent(g[n], c)
      BY <3>3, <3>4, CongruentRests
    <3>7. b * BASE + u[n + 1] = a * 1 + (-(u[1] * p[n])) /\ -(u[1] * p[n]) \in Int
      BY <1>0, <1>4, <2>5, <3>3
    <3>8. Congruent(f[n + 1] * 1 + (-(u[1] * p[n])), a * 1 + (-(u[1] * p[n])))
      <4> HIDE DEF a
      <4>1. 1 \in Int
        OBVIOUS
      <4>2. \A w, y, z, d \in Int : Congruent(w, y) => Congruent(w * z + d, y * z + d)
        BY CongruentSteps
      <4> QED BY <2>6, <3>7, <4>1, <4>2, Zenon
    <3>9. f[n + 1] * 1 + (-(u[1] * p[n])) = f[n + 1] - u[1] * p[n]
            /\ f[n + 1] - u[1] * p[n] \in Int
      BY <1>4, <2>6, <3>3
    <3>10. Congruent(f[n + 1] - u[1] * p[n], c)
      <4> DEFINE d == f[n + 1] - u[1] * p[n]
                 e == b * BASE + u[n + 1]
      <4>1. d \in Int /\ e \in Int
        BY <1>0, <2>5, <3>4, <3>9
      <4>2. Congruent(d, e)
        BY <3>7, <3>8, <3>9
      <4>3. Congruent(e, c)
        BY <3>5
      <4> HIDE DEF c, d, e
      <4>4. Congruent(d, c)
        BY <3>4, <4>1, <4>2, <4>3, CongruentSteps
      <4> QED BY <4>4 DEF d
    <3>11. Congruent(f[n + 1] - u[1] * p[n], g[n])
      <4> DEFINE d == f[n + 1] - u[1] * p[n]
      <4>1. d \in Int /\ Congruent(d, c)
        BY <3>9, <3>10
      <4> HIDE DEF c, d
      <4>2. Congruent(c, g[n])
        BY <3>3, <3>4, <3>6, CongruentSteps
      <4>3. Congruent(d, g[n])
        BY <3>3, <3>4, <4>1, <4>2, CongruentSteps
      <4> QED BY <4>3 DEF d
    <3> QED BY <2>3, <3>11
  <2> QED BY <2>7, <2>8
<1> DEFINE t == Power(k - 1) % PRIME
           d == f[k] - u[1] * t
           e == g[k - 1] * BASE + v[k]
<1>6. /\ p[k - 1] \in Int /\ g[k - 1] \in Int /\ f[k] \in Int /\ t \in Int
      /\ Congruent(t, p[k - 1]) /\ Congruent(p[k - 1], t)
  <2>1. p[k - 1] \in Int /\ g[k - 1] \in Int /\ f[k] \in Int
    BY <1>0, <1>4
  <2>2. t \in 0 .. PRIME - 1 /\ Congruent(t, p[k - 1])
    BY <1>3, <2>1, CongruentRests
  <2> HIDE DEF t
  <2>3. t \in Int
    BY <2>2
  <2> QED BY <2>1, <2>2, <2>3, CongruentSteps
<1>7. Congruent(d, g[k - 1])
  <2> DEFINE b == f[k] - u[1] * p[k - 1]
  <2>1. Congruent(b, g[k - 1])
    <3>1. k - 1 \in 0 .. k - 1 /\ (k - 1) + 1 = k
      BY <1>0
    <3>2. Congruent(f[(k - 1) + 1] - u[1] * p[k - 1], g[k - 1])
      BY <1>5, <3>1
    <3> QED BY <3>1, <3>2
  <2>2. Congruent(d, b)
    <3>1. \A w, y, z, c \in Int : Congruent(w, y) => Congruent(z - c * w, z - c * y)
      BY CongruentSteps
    <3> HIDE DEF t
    <3> QED BY <1>4, <1>6, <3>1, Zenon
  <2>3. b \in Int /\ d \in Int
    <3> HIDE DEF t
    <3> QED BY <1>4, <1>6
  <2>4. \A w, y, z \in Int : Congruent(w, y) /\ Congruent(y, z) => Congruent(w, z)
    BY CongruentSteps
  <2> HIDE DEF b, d
  <2> QED BY <1>6, <2>1, <2>2, <2>3, <2>4, Zenon
<1>8. d \in Int /\ e \in Int /\ d * BASE + v[k] \in Int
  <2>1. d \in Int
    <3> HIDE DEF t
    <3> QED BY <1>4, <1>6
  <2> HIDE DEF d
  <2> QED BY <1>0, <1>4, <1>6, <2>1
<1>9. Congruent(d * BASE + v[k], e)
  <2> HIDE DEF d
  <2>1. \A w, y, z, c \in Int : Congruent(w, y) => Congruent(w * z + c, y * z + c)
    BY CongruentSteps
  <2> QED BY <1>0, <1>4, <1>6, <1>7, <1>8, <2>1, Zenon
<1>10. (d * BASE + v[k]) % PRIME = e % PRIME
  <2> HIDE DEF d, e
  <2> QED BY <1>8, <1>9, CongruentRests
<1>11. g[k] = e % PRIME
  BY <1>0, <1>2 DEF HashSteps
<1> QED BY <1>1, <1>2, <1>10, <1>11

-----------------------------------------------------------------------------
(* The hashed search is an exact one                                       *)

\* The hash of the k bytes from offset i of s.
Hash(s, i, k) == FirstHash([m \in 1 .. k |-> s[i + m]], k)

LEMMA HashOfStart ==
  ASSUME NEW k \in Nat, NEW s \in Seq(Nat), k <= Len(s)
  PROVE  FirstHash(s, k) = Hash(s, 0, k)
<1> DEFINE w == [m \in 1 .. k |-> s[0 + m]]
<1>1. \A m \in 1 .. k : s[m] \in Nat /\ w[m] = s[m]
  OBVIOUS
<1> HIDE DEF w
<1>2. FirstHash(s, k) = FirstHash(w, k)
  BY <1>1, HashOfSame
<1> QED BY <1>2 DEF Hash, w

LEMMA HashRolls ==
  ASSUME NEW k \in Nat \ {0}, NEW s \in Seq(Nat), NEW i \in Nat, i + 1 + k <= Len(s)
  PROVE  ((Hash(s, i, k) - s[i + 1] * (Power(k - 1) % PRIME)) * BASE + s[i + 1 + k]) % PRIME
           = Hash(s, i + 1, k)
<1> DEFINE u == [m \in 1 .. k |-> s[i + m]]
           v == [m \in 1 .. k |-> s[(i + 1) + m]]
<1>1. \A m \in 1 .. k : u[m] \in Nat /\ v[m] \in Nat
  <2>1. \A m \in 1 .. k : i + m \in 1 .. Len(s) /\ (i + 1) + m \in 1 .. Len(s)
    OBVIOUS
  <2> QED BY <2>1
<1>2. \A m \in 1 .. k - 1 : v[m] = u[m + 1]
  <2>1. \A m \in 1 .. k - 1 : m \in 1 .. k /\ m + 1 \in 1 .. k /\ (i + 1) + m = i + (m + 1)
    OBVIOUS
  <2> QED BY <2>1
<1>3. u[1] = s[i + 1] /\ v[k] = s[i + 1 + k]
  OBVIOUS
<1>4. FirstHash(u, k) = Hash(s, i, k) /\ FirstHash(v, k) = Hash(s, i + 1, k)
  BY DEF Hash
<1> HIDE DEF u, v
<1>5. ((FirstHash(u, k) - u[1] * (Power(k - 1) % PRIME)) * BASE + v[k]) % PRIME
        = FirstHash(v, k)
  BY <1>1, <1>2, RollIs
<1> QED BY <1>3, <1>4, <1>5

LEMMA HashOfRun ==
  ASSUME nee \in Seq(Nat), hay \in Seq(Nat), NEW k \in Nat, NEW i \in Nat, NEW j \in Nat,
         i + k <= Len(nee), j + k <= Len(hay), SameBytes(k, i, j)
  PROVE  Hash(nee, i, k) = Hash(hay, j, k)
<1> DEFINE u == [m \in 1 .. k |-> nee[i + m]]
           v == [m \in 1 .. k |-> hay[j + m]]
<1>1. \A m \in 1 .. k : u[m] \in Nat /\ v[m] = u[m]
  <2>1. \A m \in 1 .. k : i + m \in 1 .. Len(nee)
    BY LengthsAreNat
  <2>2. \A m \in 1 .. k : nee[i + m] = hay[j + m]
    BY DEF SameBytes
  <2>3. \A m \in 1 .. k : nee[i + m] \in Nat
    BY <2>1
  <2>4. \A m \in 1 .. k : u[m] = nee[i + m] /\ v[m] = hay[j + m]
    OBVIOUS
  <2> QED BY <2>2, <2>3, <2>4, Zenon
<1> HIDE DEF u, v
<1>2. FirstHash(u, k) = FirstHash(v, k)
  BY <1>1, HashOfSame
<1> QED BY <1>2 DEF Hash, u, v

Has(list, j) == \E q \in 1 .. Len(list) : list[q] = j

LEMMA EnterHas ==
  ASSUME NEW table, NEW k, Fits(table, k), NEW x, NEW j \in 0 .. Len(hay) - k
  PROVE  \A y, o : Has(Listed(Enter(table, x, j), y), o)
                     <=> Has(Listed(table, y), o) \/ (y = x /\ o = j)
<1> DEFINE list == Listed(table, x)
           more == Append(list, j)
           e == Enter(table, x, j)
<1>1. list \in Seq(0 .. Len(hay) - k)
  BY ListedFits
<1>2. /\ DOMAIN e = DOMAIN table \cup {x} /\ e[x] = more
      /\ \A y \in DOMAIN table : y # x => e[y] = table[y]
  BY DEF Enter
<1>3. Listed(e, x) = more /\ \A y : y # x => Listed(e, y) = Listed(table, y)
  BY <1>2 DEF Listed
<1>4. \A o : Has(more, o) <=> Has(list, o) \/ o = j
  <2> DEFINE S == 0 .. Len(hay) - k
  <2>1. list \in Seq(S) /\ j \in S
    BY <1>1
  <2> HIDE DEF S, list
  <2>2. /\ Len(list) \in Nat /\ Len(more) = Len(list) + 1 /\ more[Len(list) + 1] = j
        /\ \A q \in 1 .. Len(list) : more[q] = list[q]
    BY <2>1
  <2>3. \A q : q \in 1 .. Len(list) + 1 <=> q \in 1 .. Len(list) \/ q = Len(list) + 1
    BY <2>2
  <2> HIDE DEF more
  <2> QED BY <2>2, <2>3 DEF Has
<1> HIDE DEF e, more
<1>5. \A y, o : Has(Listed(e, y), o) <=> Has(Listed(table, y), o) \/ (y = x /\ o = j)
  BY <1>3, <1>4
<1> QED BY <1>5 DEF e

\* The table has every window so far under its hash, the rolled hash is that of
\* the window it stands for, and no window of the needle that has been passed is
\* anywhere in the file.
HashInv ==
  /\ pc = "index" =>
       /\ h = Hash(hay, at - mid, mid)
       /\ \A j \in 0 .. at - mid : Has(Listed(idx, Hash(hay, j, mid)), j)
  /\ pc = "probe" =>
       /\ at <= Len(nee) - mid + 1
       /\ at <= Len(nee) - mid => h = Hash(nee, at, mid)
       /\ \A j \in 0 .. Len(hay) - mid : Has(Listed(idx, Hash(hay, j, mid)), j)
       /\ \A i \in 0 .. at - 1 : \A j \in 0 .. Len(hay) - mid : ~SameBytes(mid, i, j)

\* What can be said of the state while a length is being tried.
LEMMA Trying ==
  ASSUME ScanInv
  PROVE  /\ nee \in Seq(Nat) /\ hay \in Seq(Nat) /\ Len(nee) \in Nat /\ Len(hay) \in Nat
         /\ lo <= hi => mid \in Nat \ {0} /\ mid <= Len(hay) /\ mid <= Len(nee)
<1>1. /\ nee \in Seq(Nat) /\ hay \in Seq(Nat) /\ Len(nee) \in Nat /\ Len(hay) \in Nat
      /\ Shorter \in Nat /\ Shorter <= Len(nee) /\ Shorter <= Len(hay)
  BY LengthsAreNat DEF ScanInv, RangeInv
<1> QED BY <1>1, MidIsBetween DEF ScanInv, RangeInv

\* A window that has no verified candidate is nowhere in the file.
LEMMA NoneVerified ==
  ASSUME ScanInv, HashInv, pc = "probe", at <= Len(nee) - mid, Verified = {},
         NEW j \in 0 .. Len(hay) - mid
  PROVE  ~SameBytes(mid, at, j)
<1> SUFFICES ASSUME SameBytes(mid, at, j) PROVE FALSE
  OBVIOUS
<1>1. lo <= hi /\ at \in Nat
  BY DEF ScanInv
<1>2. nee \in Seq(Nat) /\ hay \in Seq(Nat) /\ mid \in Nat /\ Len(nee) \in Nat /\ Len(hay) \in Nat
  BY <1>1, Trying
<1>3. at + mid <= Len(nee) /\ j + mid <= Len(hay) /\ j \in Nat
  BY <1>1, <1>2
<1>4. h = Hash(hay, j, mid)
  BY <1>1, <1>2, <1>3, HashOfRun DEF HashInv
<1>5. Has(Listed(idx, h), j)
  BY <1>4 DEF HashInv
<1>6. PICK q \in 1 .. Len(Listed(idx, h)) : Listed(idx, h)[q] = j
  BY <1>5 DEF Has
<1>7. q \in Verified
  BY <1>6 DEF Verified
<1> QED BY <1>7

LEMMA HashStep == ScanInv /\ HashInv /\ [Next]_vars => HashInv'
<1> SUFFICES ASSUME ScanInv, HashInv, [Next]_vars PROVE HashInv'
  OBVIOUS
<1>0. nee' = nee /\ hay' = hay
  BY DEF Next, Step, StartIndex, IndexWindow, IndexDone,
     Match, NextWindow, NoMatch, Return, Finished, vars, searchVars, Succeed, Fail
<1>1. /\ nee \in Seq(Nat) /\ hay \in Seq(Nat) /\ Len(nee) \in Nat /\ Len(hay) \in Nat
      /\ lo <= hi => mid \in Nat \ {0} /\ mid <= Len(hay) /\ mid <= Len(nee)
  BY Trying
<1>2. ASSUME UNCHANGED searchVars PROVE mid' = mid /\ top' = top
  BY <1>2 DEF searchVars, mid, top
<1>3. CASE StartIndex
  <2>1. /\ lo <= hi /\ UNCHANGED searchVars /\ h' = FirstHash(hay, mid)
        /\ idx' = Enter(<<>>, h', 0) /\ at' = mid /\ pc' = "index"
    BY <1>3 DEF StartIndex
  <2>2. h' = Hash(hay, 0, mid)
    BY <1>1, <2>1, HashOfStart
  <2>3. Fits(<<>>, mid) /\ 0 \in 0 .. Len(hay) - mid
    BY <1>1, <2>1 DEF Fits
  <2>4. Has(Listed(idx', h'), 0)
    BY <2>1, <2>3, EnterHas
  <2>5. at' - mid' = 0
    BY <1>1, <1>2, <2>1
  <2>6. \A j \in 0 .. at' - mid' : j = 0
    BY <2>5
  <2> QED BY <1>0, <1>2, <2>1, <2>2, <2>4, <2>5, <2>6 DEF HashInv
<1>4. CASE IndexWindow
  <2>1. /\ pc = "index" /\ at < Len(hay) /\ UNCHANGED searchVars /\ pc' = pc /\ at' = at + 1
        /\ h' = Roll(h, hay[at - mid + 1], hay[at + 1])
        /\ idx' = Enter(idx, h', at - mid + 1)
    BY <1>4 DEF IndexWindow
  <2>2. lo <= hi /\ Fits(idx, mid) /\ at \in mid .. Len(hay)
    BY <2>1 DEF ScanInv
  <2>3. mid \in Nat \ {0} /\ mid <= Len(hay)
    BY <1>1, <2>2
  <2> DEFINE i == at - mid
  <2>4. /\ i \in Nat /\ i + 1 + mid <= Len(hay) /\ i + 1 + mid = at + 1
        /\ i + 1 \in 0 .. Len(hay) - mid /\ at - mid + 1 = i + 1
    BY <1>1, <2>1, <2>2, <2>3
  <2>5. h = Hash(hay, i, mid) /\ \A j \in 0 .. i : Has(Listed(idx, Hash(hay, j, mid)), j)
    BY <2>1 DEF HashInv
  <2> HIDE DEF i
  <2>6. h' = Hash(hay, i + 1, mid)
    <3>1. ((Hash(hay, i, mid) - hay[i + 1] * (Power(mid - 1) % PRIME)) * BASE
             + hay[i + 1 + mid]) % PRIME = Hash(hay, i + 1, mid)
      BY <1>1, <2>3, <2>4, HashRolls
    <3>2. h' = ((h - hay[i + 1] * (Power(mid - 1) % PRIME)) * BASE + hay[at + 1]) % PRIME
      BY <2>1, <2>4 DEF Roll, top
    <3> QED BY <2>4, <2>5, <3>1, <3>2
  <2>7. \A y, o : Has(Listed(idx', y), o) <=> Has(Listed(idx, y), o) \/ (y = h' /\ o = i + 1)
    <3>1. idx' = Enter(idx, h', i + 1)
      BY <2>1, <2>4
    <3> QED BY <2>2, <2>4, <3>1, EnterHas
  <2>8. \A j \in 0 .. i + 1 : Has(Listed(idx', Hash(hay, j, mid)), j)
    <3>1. \A j \in 0 .. i + 1 : j \in 0 .. i \/ j = i + 1
      BY <2>4
    <3> QED BY <2>5, <2>6, <2>7, <3>1
  <2>9. at' - mid' = i + 1
    <3>1. mid' = mid /\ at' = at + 1 /\ at \in Int
      BY <1>2, <2>1, <2>2, <2>3
    <3> QED BY <2>3, <3>1 DEF i
  <2> QED BY <1>0, <1>2, <2>1, <2>6, <2>8, <2>9 DEF HashInv
<1>5. CASE IndexDone
  <2>1. /\ pc = "index" /\ at = Len(hay) /\ UNCHANGED <<searchVars, idx>> /\ pc' = "probe"
        /\ h' = FirstHash(nee, mid) /\ at' = 0
    BY <1>5 DEF IndexDone
  <2>2. lo <= hi /\ UNCHANGED searchVars
    BY <2>1 DEF ScanInv
  <2>3. mid \in Nat /\ mid <= Len(nee)
    BY <1>1, <2>2
  <2>4. h' = Hash(nee, 0, mid)
    BY <1>1, <2>1, <2>3, HashOfStart
  <2>5. \A j \in 0 .. Len(hay) - mid : Has(Listed(idx, Hash(hay, j, mid)), j)
    BY <2>1 DEF HashInv
  <2>6. at' <= Len(nee) - mid + 1 /\ \A i \in 0 .. at' - 1 : FALSE
    BY <1>1, <2>1, <2>3
  <2> QED BY <1>0, <1>2, <2>1, <2>2, <2>4, <2>5, <2>6 DEF HashInv
<1>6. CASE NextWindow
  <2>1. /\ pc = "probe" /\ at <= Len(nee) - mid /\ Verified = {} /\ at' = at + 1
        /\ UNCHANGED searchVars /\ idx' = idx /\ pc' = pc
        /\ h' = IF at' <= Len(nee) - mid THEN Roll(h, nee[at + 1], nee[at' + mid]) ELSE h
    BY <1>6 DEF NextWindow
  <2>2. lo <= hi /\ at \in Nat
    BY <2>1 DEF ScanInv
  <2>3. mid \in Nat \ {0} /\ mid <= Len(nee)
    BY <1>1, <2>2
  <2>4. ASSUME at + 1 <= Len(nee) - mid PROVE h' = Hash(nee, at + 1, mid)
    <3>1. at + 1 + mid <= Len(nee)
      BY <1>1, <2>2, <2>3, <2>4
    <3>2. ((Hash(nee, at, mid) - nee[at + 1] * (Power(mid - 1) % PRIME)) * BASE
             + nee[at + 1 + mid]) % PRIME = Hash(nee, at + 1, mid)
      BY <1>1, <2>2, <2>3, <3>1, HashRolls
    <3>3. h = Hash(nee, at, mid)
      BY <2>1 DEF HashInv
    <3>4. h' = ((h - nee[at + 1] * (Power(mid - 1) % PRIME)) * BASE + nee[at + 1 + mid]) % PRIME
      BY <2>1, <2>4 DEF Roll, top
    <3> QED BY <3>2, <3>3, <3>4
  <2>5. \A j \in 0 .. Len(hay) - mid : ~SameBytes(mid, at, j)
    BY <2>1, NoneVerified
  <2>6. \A i \in 0 .. at' - 1 : i \in 0 .. at - 1 \/ i = at
    BY <2>1, <2>2
  <2>7. \A i \in 0 .. at' - 1 : \A j \in 0 .. Len(hay) - mid : ~SameBytes(mid, i, j)
    BY <2>1, <2>5, <2>6 DEF HashInv
  <2>8. \A i, j : SameBytes(mid, i, j)' <=> SameBytes(mid, i, j)
    BY <1>0, <1>2, <2>1 DEF SameBytes
  <2>9. at' <= Len(nee) - mid + 1
    BY <1>1, <2>1, <2>2, <2>3
  <2>10. \A j \in 0 .. Len(hay) - mid : Has(Listed(idx, Hash(hay, j, mid)), j)
    BY <2>1 DEF HashInv
  <2> QED BY <1>0, <1>2, <2>1, <2>4, <2>7, <2>8, <2>9, <2>10 DEF HashInv
<1>7. CASE Match \/ NoMatch \/ Return
  <2>1. pc' \in {"bisect", "returned"}
    BY <1>7 DEF Match, NoMatch, Return
  <2> QED BY <2>1 DEF HashInv
<1>8. CASE UNCHANGED vars
  <2>1. UNCHANGED searchVars /\ UNCHANGED <<idx, h, at, pc>>
    BY <1>8 DEF vars
  <2>2. \A i, j : SameBytes(mid, i, j)' <=> SameBytes(mid, i, j)
    BY <1>0, <1>2, <2>1 DEF SameBytes
  <2> QED BY <1>0, <1>2, <2>1, <2>2 DEF HashInv
<1> QED BY <1>3, <1>4, <1>5, <1>6, <1>7, <1>8 DEF Next, Step, Finished

\* Every step of the hashed search is a step of the bisection over exact answers,
\* or leaves what that has to say as it was.
LEMMA SearchIsMade == ScanInv /\ HashInv /\ [Next]_vars => [Search]_searchVars
<1> SUFFICES ASSUME ScanInv, HashInv, [Next]_vars PROVE [Search]_searchVars
  OBVIOUS
<1>1. CASE Match
  <2>1. lo <= hi /\ Fits(idx, mid) /\ at \in Nat /\ at <= Len(nee) - mid
    BY <1>1 DEF Match, ScanInv
  <2> DEFINE list == Listed(idx, h)
             S == 0 .. Len(hay) - mid
  <2>2. PICK q \in Verified : Succeed(at, list[q])
    BY <1>1 DEF Match
  <2>3. q \in 1 .. Len(list) /\ SameBytes(mid, at, list[q])
    BY <2>2 DEF Verified
  <2>4. list \in Seq(S)
    BY <2>1, ListedFits
  <2>5. list[q] \in S
    <3> HIDE DEF S, list
    <3> QED BY <2>3, <2>4
  <2> HIDE DEF list
  <2>6. <<at, list[q]>> \in Common(mid)
    <3>1. at \in 0 .. Len(nee) - mid
      BY <2>1, Trying
    <3> QED BY <2>3, <2>5, <3>1 DEF Common
  <2>7. \E p \in Common(mid) : Succeed(p[1], p[2])
    <3>1. <<at, list[q]>>[1] = at /\ <<at, list[q]>>[2] = list[q]
      OBVIOUS
    <3> QED BY <2>2, <2>6, <3>1
  <2> QED BY <2>1, <2>7 DEF Search
<1>2. CASE NoMatch
  <2>1. pc = "probe" /\ at > Len(nee) - mid /\ Fail /\ lo <= hi /\ at \in Nat
    BY <1>2 DEF NoMatch, ScanInv
  <2>2. Common(mid) = {}
    <3> SUFFICES ASSUME NEW p \in Common(mid) PROVE FALSE
      OBVIOUS
    <3>1. p[1] \in 0 .. Len(nee) - mid /\ p[2] \in 0 .. Len(hay) - mid
            /\ SameBytes(mid, p[1], p[2])
      BY DEF Common
    <3>2. p[1] \in 0 .. at - 1
      BY <2>1, <3>1, Trying
    <3> QED BY <2>1, <3>1, <3>2 DEF HashInv
  <2> QED BY <2>1, <2>2 DEF Search
<1>3. CASE StartIndex \/ IndexWindow \/ IndexDone \/ NextWindow \/ Return \/ UNCHANGED vars
  <2>1. UNCHANGED searchVars
    BY <1>3 DEF StartIndex, IndexWindow, IndexDone, NextWindow, Return, vars
  <2> QED BY <2>1
<1> QED BY <1>1, <1>2, <1>3 DEF Next, Step, Finished

\* However the windows collide, what match_at_length finds with its rolled hash is
\* what comparing every window with every other would find.
THEOREM HashingIsExact == Spec => ImplementsSearch
<1>1. Init => SearchInit /\ HashInv
  BY DEF Init, HashInv
<1> QED BY <1>1, ScanBegins, ScanGoesOn, HashStep, SearchIsMade, PTL
        DEF Spec, ImplementsSearch, SearchSpec

\* So the run that prefix_scan.py prints is a longest common one, for every needle,
\* file, base and modulus.
THEOREM LongestIsFound == Spec => []LongestRun
BY HashingIsExact, BisectionIsRight, PTL DEF ImplementsSearch

-----------------------------------------------------------------------------
(* The search comes to its end                                             *)

\* No answer for one length takes as many steps as this.
Answer == Len(hay) + Len(nee) + 4

\* Windows of the needle that are not tried yet.
Untried == IF at <= Len(nee) - mid THEN ((Len(nee) - mid) - at) + 1 ELSE 0

\* What is left to do: an answer for every length still in question, and of the
\* answer in progress the bytes to index and the windows to try.
Left ==
  CASE pc = "bisect" -> ((hi - lo) + 1) * Answer + 1
    [] pc = "index"  -> (hi - lo) * Answer + ((Len(hay) - at) + Len(nee) + 3)
    [] pc = "probe"  -> (hi - lo) * Answer + (Untried + 2)
    [] OTHER         -> 0

LEMMA Times ==
  ASSUME NEW c \in Nat, NEW y \in Nat
  PROVE  /\ y * c \in Nat
         /\ (y + 1) * c = y * c + c
         /\ \A z \in Nat : z <= y => z * c <= y * c
<1>1. \A v, w \in Nat : v * w \in Nat /\ (v + 1) * w = v * w + w
  OBVIOUS
<1>2. ASSUME NEW z \in Nat, z <= y PROVE z * c <= y * c
  <2>1. y - z \in Nat
    BY <1>2
  <2>2. \A v, w, x \in Int : (v + x) * w = v * w + x * w
    OBVIOUS
  <2>3. y * c = z * c + (y - z) * c
    <3>1. y = z + (y - z)
      OBVIOUS
    <3> QED BY <2>1, <2>2, <3>1
  <2>4. (y - z) * c \in Nat /\ z * c \in Nat
    BY <1>1, <2>1
  <2>5. \A v, w \in Nat : v <= v + w
    OBVIOUS
  <2> QED BY <2>3, <2>4, <2>5
<1> QED BY <1>1, <1>2

\* The state as far as the measure looks at it.
LEMMA Remaining ==
  ASSUME ScanInv
  PROVE  /\ Len(nee) \in Nat /\ Len(hay) \in Nat /\ Answer \in Nat
         /\ pc \in {"bisect", "index", "probe", "returned"}
         /\ pc = "bisect" => (hi - lo) + 1 \in Nat
         /\ pc \in {"index", "probe"} => /\ hi - lo \in Nat
                                         /\ mid \in Nat \ {0} /\ mid <= Len(hay)
         /\ pc = "index" => at \in Nat /\ Len(hay) - at \in Nat /\ mid <= at
         /\ pc = "probe" => Untried \in Nat
<1>1. Len(nee) \in Nat /\ Len(hay) \in Nat /\ lo \in Nat /\ hi \in Nat /\ lo <= hi + 1
  BY Trying DEF ScanInv, RangeInv
<1>2. pc \in {"index", "probe"} => lo <= hi /\ mid \in Nat \ {0} /\ mid <= Len(hay)
  BY Trying DEF ScanInv
<1>3. pc = "index" => at \in Nat /\ Len(hay) - at \in Nat /\ mid <= at
  BY <1>1, <1>2 DEF ScanInv
<1>4. pc = "probe" => Untried \in Nat
  BY <1>1, <1>2 DEF ScanInv, Untried
<1>5. (hi - lo) + 1 \in Nat /\ (lo <= hi => hi - lo \in Nat)
  BY <1>1
<1> QED BY <1>1, <1>2, <1>3, <1>4, <1>5 DEF Answer, ScanInv

LEMMA LeftIsNat == ScanInv => Left \in Nat
<1> SUFFICES ASSUME ScanInv PROVE Left \in Nat
  OBVIOUS
<1>1. \A c, y \in Nat : y * c \in Nat
  OBVIOUS
<1>2. CASE pc = "bisect"
  <2>1. ((hi - lo) + 1) * Answer \in Nat
    BY <1>1, <1>2, Remaining
  <2> QED BY <1>2, <2>1 DEF Left
<1>3. CASE pc = "index"
  <2>1. (hi - lo) * Answer \in Nat /\ (Len(hay) - at) + Len(nee) + 3 \in Nat
    BY <1>1, <1>3, Remaining
  <2> QED BY <1>3, <2>1 DEF Left
<1>4. CASE pc = "probe"
  <2>1. (hi - lo) * Answer \in Nat /\ Untried + 2 \in Nat
    BY <1>1, <1>4, Remaining
  <2> QED BY <1>4, <2>1 DEF Left
<1>5. CASE pc = "returned"
  BY <1>5 DEF Left
<1> QED BY <1>2, <1>3, <1>4, <1>5, Remaining

LEMMA LeftShrinks == ScanInv /\ Step => Left' < Left
<1> SUFFICES ASSUME ScanInv, Step PROVE Left' < Left
  OBVIOUS
<1>0. nee' = nee /\ hay' = hay /\ Answer' = Answer
  BY DEF Step, StartIndex, IndexWindow, IndexDone, Match, NextWindow, NoMatch, Return,
         searchVars, Succeed, Fail, Answer
<1>1. Len(nee) \in Nat /\ Len(hay) \in Nat /\ Answer \in Nat
  BY Remaining
<1>2. \A v, w : v \in Int /\ w \in Int => v * w \in Int
  OBVIOUS
<1>3. ASSUME UNCHANGED searchVars
      PROVE  lo' = lo /\ hi' = hi /\ mid' = mid
  BY <1>3 DEF searchVars, mid
\* Within an answer the lengths in question stay, and what is left of it shrinks.
<1>4. ASSUME pc \in {"index", "probe"}, NEW y \in Nat, NEW z \in Nat, z < y,
             Left = (hi - lo) * Answer + y, Left' = (hi - lo) * Answer + z
      PROVE  Left' < Left
  <2>1. (hi - lo) * Answer \in Nat
    BY <1>4, <1>1, Remaining, Times
  <2> QED BY <1>4, <2>1
\* The end of an answer takes at least the length that was asked for.
<1>5. ASSUME pc = "probe", pc' = "bisect", (hi' - lo') + 1 \in Nat, (hi' - lo') + 1 <= hi - lo
      PROVE  Left' < Left
  <2>1. hi - lo \in Nat /\ Untried \in Nat
    BY <1>5, Remaining
  <2>2. ((hi' - lo') + 1) * Answer <= (hi - lo) * Answer
    BY <1>1, <1>5, <2>1, Times
  <2>3. (hi - lo) * Answer \in Nat /\ ((hi' - lo') + 1) * Answer \in Nat
    BY <1>1, <1>5, <2>1, Times
  <2>4. Left = (hi - lo) * Answer + (Untried + 2) /\ Left' = ((hi' - lo') + 1) * Answer + 1
    BY <1>0, <1>5 DEF Left
  <2> QED BY <2>1, <2>2, <2>3, <2>4
<1>6. CASE StartIndex
  <2>1. pc = "bisect" /\ lo <= hi /\ UNCHANGED searchVars /\ at' = mid /\ pc' = "index"
    BY <1>6 DEF StartIndex
  <2>2. /\ lo \in Nat /\ hi \in Nat /\ hi - lo \in Nat
        /\ mid \in Nat \ {0} /\ mid <= Len(hay)
    BY <2>1, Trying DEF ScanInv, RangeInv
  <2> DEFINE rest == (hi - lo) * Answer
  <2>3. rest \in Nat /\ ((hi - lo) + 1) * Answer = rest + Answer
    BY <1>1, <2>2, Times
  <2>4. Left = rest + Answer + 1
    BY <2>1, <2>3 DEF Left
  <2>5. Left' = rest + ((Len(hay) - mid) + Len(nee) + 3)
    BY <1>0, <1>3, <2>1 DEF Left
  <2> HIDE DEF rest
  <2> QED BY <1>1, <2>2, <2>3, <2>4, <2>5 DEF Answer
<1>7. CASE IndexWindow
  <2>1. pc = "index" /\ at < Len(hay) /\ UNCHANGED searchVars /\ at' = at + 1 /\ pc' = "index"
    BY <1>7 DEF IndexWindow
  <2>2. at \in Nat
    BY <2>1, Remaining
  <2>3. /\ Left = (hi - lo) * Answer + ((Len(hay) - at) + Len(nee) + 3)
        /\ Left' = (hi - lo) * Answer + ((Len(hay) - (at + 1)) + Len(nee) + 3)
    BY <1>0, <1>3, <2>1 DEF Left
  <2>4. /\ (Len(hay) - at) + Len(nee) + 3 \in Nat
        /\ (Len(hay) - (at + 1)) + Len(nee) + 3 \in Nat
        /\ (Len(hay) - (at + 1)) + Len(nee) + 3 < (Len(hay) - at) + Len(nee) + 3
    BY <1>1, <2>1, <2>2
  <2> QED BY <1>4, <2>1, <2>3, <2>4
<1>8. CASE IndexDone
  <2>1. pc = "index" /\ at = Len(hay) /\ UNCHANGED searchVars /\ at' = 0 /\ pc' = "probe"
    BY <1>8 DEF IndexDone
  <2>2. mid \in Nat \ {0}
    BY <2>1, Remaining
  <2>3. /\ Left = (hi - lo) * Answer + ((Len(hay) - at) + Len(nee) + 3)
        /\ Left' = (hi - lo) * Answer + (Untried' + 2)
    BY <1>0, <1>3, <2>1 DEF Left
  <2>4. Untried' \in Nat /\ Untried' <= Len(nee)
    <3>1. Untried' = IF 0 <= Len(nee) - mid THEN ((Len(nee) - mid) - 0) + 1 ELSE 0
      BY <1>0, <1>3, <2>1 DEF Untried
    <3> QED BY <1>1, <2>2, <3>1
  <2>5. /\ (Len(hay) - at) + Len(nee) + 3 \in Nat /\ Untried' + 2 \in Nat
        /\ Untried' + 2 < (Len(hay) - at) + Len(nee) + 3
    <3>1. (Len(hay) - at) + Len(nee) + 3 = Len(nee) + 3
      BY <1>1, <2>1
    <3>2. \A x, y \in Nat : x <= y => x + 2 \in Nat /\ y + 3 \in Nat /\ x + 2 < y + 3
      OBVIOUS
    <3> QED BY <1>1, <2>4, <3>1, <3>2
  <2> QED BY <1>4, <2>1, <2>3, <2>5
<1>9. CASE NextWindow
  <2>1. /\ pc = "probe" /\ at <= Len(nee) - mid /\ UNCHANGED searchVars
        /\ at' = at + 1 /\ pc' = "probe"
    BY <1>9 DEF NextWindow
  <2>2. mid \in Nat \ {0} /\ at \in Nat
    BY <2>1, Remaining DEF ScanInv
  <2>3. /\ Left = (hi - lo) * Answer + (Untried + 2)
        /\ Left' = (hi - lo) * Answer + (Untried' + 2)
    BY <1>0, <1>3, <2>1 DEF Left
  <2>4. Untried' \in Nat /\ Untried \in Nat /\ Untried' < Untried
    <3>1. /\ Untried = ((Len(nee) - mid) - at) + 1
          /\ Untried' = IF at + 1 <= Len(nee) - mid THEN ((Len(nee) - mid) - (at + 1)) + 1 ELSE 0
      BY <1>0, <1>3, <2>1 DEF Untried
    <3> QED BY <1>1, <2>1, <2>2, <3>1
  <2>5. Untried + 2 \in Nat /\ Untried' + 2 \in Nat /\ Untried' + 2 < Untried + 2
    <3>1. \A x, y \in Nat : x < y => x + 2 \in Nat /\ y + 2 \in Nat /\ x + 2 < y + 2
      OBVIOUS
    <3> QED BY <2>4, <3>1
  <2> QED BY <1>4, <2>1, <2>3, <2>5
<1>10. CASE Match \/ NoMatch
  <2>1. /\ pc = "probe" /\ pc' = "bisect"
        /\ (lo' = mid + 1 /\ hi' = hi) \/ (lo' = lo /\ hi' = mid - 1)
    BY <1>10 DEF Match, NoMatch, Succeed, Fail
  <2>2. lo \in Nat /\ hi \in Nat /\ mid \in Nat /\ lo <= mid /\ mid <= hi
    BY <2>1, MidIsBetween DEF ScanInv, RangeInv
  <2> HIDE DEF mid
  <2>3. (hi' - lo') + 1 \in Nat /\ (hi' - lo') + 1 <= hi - lo
    BY <2>1, <2>2
  <2> QED BY <1>5, <2>1, <2>3
<1>11. CASE Return
  <2>1. pc = "bisect" /\ Left' = 0
    BY <1>11 DEF Return, Left
  <2>2. ((hi - lo) + 1) * Answer \in Nat
    BY <1>1, <2>1, Remaining, Times
  <2> QED BY <2>1, <2>2 DEF Left
<1> QED BY <1>6, <1>7, <1>8, <1>9, <1>10, <1>11 DEF Step

\* The search cannot go on for ever: each of its steps leaves less to do, because an
\* answer is given after one pass over the file and one over the needle and takes
\* the length that was asked for out of question, whether it is yes or no.
THEOREM StepsRunOut == Spec => [](Left \in Nat) /\ [][Step => Left' < Left]_vars
<1>1. ScanInv => Left \in Nat
  BY LeftIsNat
<1>2. ScanInv /\ [Next]_vars => [Step => Left' < Left]_vars
  BY LeftShrinks
<1> QED BY <1>1, <1>2, ScanBegins, ScanGoesOn, PTL DEF Spec

=============================================================================
