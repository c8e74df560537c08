--------------------------- MODULE LineageProofs ---------------------------
(***************************************************************************)
(* What TLAPS proves of the ring site report, of the listing or comparison *)
(* that follows it up and of the comparison of bytes after that, for every *)
(* executable, section and set of instructions.                            *)
(***************************************************************************)
EXTENDS Xarch, FiniteSetTheorems, WellFoundedInduction, TLAPS

(* The translations of an address                                          *)

LEMMA SmallestThere ==
  ASSUME NEW S, S \subseteq Nat, S # {}
  PROVE  \E x \in S : \A y \in S : x <= y
<1>1. \E x \in S : \A y \in S : ~(<<y, x>> \in OpToRel(<, Nat))
  BY WFMin, NatLessThanWellFounded
<1>2. \A x, y \in Nat : <<y, x>> \notin OpToRel(<, Nat) => x <= y
  BY DEF OpToRel
<1>3. PICK x \in S : \A y \in S : ~(<<y, x>> \in OpToRel(<, Nat))
  BY <1>1
<1>4. \A y \in S : x <= y
  BY <1>2, <1>3
<1> QED BY <1>4

LEMMA LargestThere ==
  ASSUME NEW N \in Nat, NEW S, S \subseteq 1 .. N, S # {}
  PROVE  \E x \in S : \A y \in S : y <= x
<1> DEFINE T == {N - x : x \in S}
<1>1. T \subseteq Nat /\ T # {}
  <2>1. \A x \in S : x \in Nat /\ x <= N
    OBVIOUS
  <2>2. \A x \in S : N - x \in Nat
    BY <2>1
  <2>3. PICK x \in S : TRUE
    OBVIOUS
  <2>4. N - x \in T
    OBVIOUS
  <2> QED BY <2>2, <2>4
<1>2. PICK z \in T : \A y \in T : z <= y
  BY <1>1, SmallestThere
<1>3. PICK x \in S : z = N - x
  OBVIOUS
<1>4. ASSUME NEW y \in S PROVE y <= x
  <2>1. N - y \in T
    OBVIOUS
  <2>2. N - x <= N - y
    BY <1>2, <1>3, <2>1
  <2>3. x \in Nat /\ y \in Nat
    OBVIOUS
  <2> QED BY <2>2, <2>3
<1> QED BY <1>4

\* A translation gives a whole number, or nothing.
LEMMA PlaceType ==
  ASSUME NEW t \in Seq(Heads), NEW v \in Int
  PROVE  /\ First(t, v) \in Int \cup {Nowhere}
         /\ Last(t, v) \in Int \cup {Nowhere}
<1> DEFINE S == Holding(t, v)
<1>1. S \subseteq 1 .. Len(t) /\ Len(t) \in Nat
  BY DEF Holding
<1>2. CASE S = {}
  BY <1>2 DEF First, Last
<1>3. CASE S # {}
  <2>1. ASSUME NEW k \in S PROVE Place(t[k], v) \in Int
    <3>1. k \in 1 .. Len(t)
      BY <1>1
    <3>2. t[k] \in Heads
      BY <3>1
    <3> QED BY <3>2 DEF Place, Heads
  <2>2. \E k \in S : \A m \in S : k <= m
    BY <1>1, <1>3, SmallestThere
  <2>3. \E k \in S : \A m \in S : m <= k
    BY <1>1, <1>3, LargestThere
  <2>4. (CHOOSE k \in S : \A m \in S : k <= m) \in S
    BY <2>2
  <2>5. (CHOOSE k \in S : \A m \in S : m <= k) \in S
    BY <2>3
  <2> QED BY <2>1, <2>4, <2>5, <1>3 DEF First, Last
<1> QED BY <1>2, <1>3

\* Where no address is in two segments the first and the last are one.
LEMMA OneHolds ==
  ASSUME NEW t \in Seq(Heads), NEW v \in Int, Disjoint(t),
         NEW k \in DOMAIN t, Holds(t[k], v)
  PROVE  First(t, v) = Place(t[k], v) /\ Last(t, v) = Place(t[k], v)
<1>1. Holding(t, v) = {k}
  <2>1. ASSUME NEW m \in DOMAIN t, Holds(t[m], v), m # k PROVE FALSE
    <3>1. t[m] \in Heads /\ t[k] \in Heads
      BY <2>1
    <3>2. t[k].va + t[k].size <= t[m].va \/ t[m].va + t[m].size <= t[k].va
      BY <2>1 DEF Disjoint, Holds
    <3>3. /\ t[k].va <= v /\ v < t[k].va + t[k].size
          /\ t[m].va <= v /\ v < t[m].va + t[m].size
      BY <2>1 DEF Holds
    <3>4. {t[k].va, t[k].size, t[m].va, t[m].size} \subseteq Nat
      BY <3>1 DEF Heads
    <3> QED BY <3>2, <3>3, <3>4
  <2> QED BY <2>1 DEF Holding
<1>2. k \in Nat
  OBVIOUS
<1>3. (CHOOSE x \in {k} : \A m \in {k} : x <= m) = k
  OBVIOUS
<1>4. (CHOOSE x \in {k} : \A m \in {k} : m <= x) = k
  OBVIOUS
<1> QED BY <1>1, <1>3, <1>4 DEF First, Last

LEMMA MappedType ==
  ASSUME NEW e, IsExe(e), NEW v \in Nat
  PROVE  Whereabouts(e, v) \in Int \cup {Nowhere}
<1>1. e.heads \in Seq(Heads) /\ e.org \in Nat /\ TEXT \in Nat
  BY PlaceAssumption DEF IsExe
<1>2. Last(e.heads, v) \in Int \cup {Nowhere} /\ First(e.heads, v) \in Int \cup {Nowhere}
  BY <1>1, PlaceType
<1>3. CASE e.kind = "dol"
  BY <1>2, <1>3 DEF Whereabouts, DolOffset
<1>4. CASE e.kind = "elf"
  BY <1>2, <1>4 DEF Whereabouts, Mapped
<1>5. CASE e.kind = "psx"
  BY <1>1, <1>5 DEF Whereabouts, Mapped
<1>6. CASE e.kind \notin {"dol", "elf", "psx"}
  BY <1>6 DEF Whereabouts, Mapped
<1> QED BY <1>3, <1>4, <1>5, <1>6

LEMMA WordType ==
  ASSUME NEW e, IsExe(e), NEW o \in Int, Readable(e, o)
  PROVE  WordAt(e, o) \in Word
<1>1. e.data \in Seq(Word) /\ Len(e.data) \in Nat
  BY DEF IsExe
<1>2. Whence(e, o) \in Nat
  BY <1>1 DEF Readable, Whence, Bytes, WIDTH
<1>3. Whence(e, o) \div 4 + 1 \in 1 .. Len(e.data)
  BY <1>1, <1>2 DEF Readable, Bytes, WIDTH
<1> QED BY <1>1, <1>3 DEF WordAt, WIDTH

\* What words returns is as many words as were asked for.
LEMMA WordsType ==
  ASSUME NEW e, IsExe(e), NEW v \in Nat, n \in Nat, CanRead(e, v)
  PROVE  Words(e, v) \in Seq(Word) /\ Len(Words(e, v)) = n
<1> DEFINE o == Whereabouts(e, v)
<1>1. o \in Int
  BY MappedType, PlaceAssumption DEF CanRead
<1>2. ASSUME NEW d \in 1 .. n PROVE WordAt(e, o + WIDTH * (d - 1)) \in Word
  <2>1. d - 1 \in 0 .. n - 1
    OBVIOUS
  <2>2. Readable(e, o + WIDTH * (d - 1))
    BY <2>1 DEF CanRead
  <2>3. o + WIDTH * (d - 1) \in Int
    BY <1>1 DEF WIDTH
  <2> QED BY <2>2, <2>3, WordType
<1>3. Words(e, v) \in [1 .. n -> Word]
  BY <1>2 DEF Words
<1> QED BY <1>3

-----------------------------------------------------------------------------
(* Types                                                                   *)

\* A site in hand is behind the start of the section.
BaseInv == \A x \in 1 .. Len(hits) : hits[x] >= survey.base

\* Nothing has been read while the report is made, nothing compared before both
\* routines have been read, and what has been read is n words long.
ReadInv ==
  /\ wa = <<>> \/ Len(wa) = n
  /\ pc \in {"scan", "sites", "walk", "sited"} => wa = <<>>
  /\ pc \in {"scan", "sites", "walk", "sited", "words"} =>
       wb = <<>> /\ l = 0 /\ ident = 0 /\ sameOp = 0 /\ run = 0 /\ bestRun = 0

TypeInv == TypeOK /\ BaseInv /\ ReadInv

LEMMA TypeInit == Init => TypeInv
<1> SUFFICES ASSUME Init PROVE TypeInv
  OBVIOUS
<1>1. IsSurvey(survey)
  BY SurveyAssumption DEF Init, ScanInit
<1>2. IsExe(other.exe) /\ other.at \in Nat
  BY <1>1 DEF Init, IsSurvey, exe
<1>3. ScanTypeOK
  BY <1>1, WordAssumption DEF Init, ScanInit, ScanTypeOK
<1> QED BY <1>2, <1>3 DEF Init, ScanInit, TypeInv, TypeOK, BaseInv, ReadInv

\* Where a walk ends is an address.
LEMMA StartType ==
  ASSUME TypeInv, StepBack
  PROVE  a' \in Nat /\ a' >= survey.base /\ a' + AfterReturn \in Nat /\ tries' \in 0 .. Limit
BY WordAssumption, SMTT(30) DEF TypeInv, TypeOK, ScanTypeOK, StepBack, AfterReturn, WIDTH, IsSurvey

LEMMA SeqFacts ==
  ASSUME NEW S, NEW s \in Seq(S), NEW e \in S
  PROVE  /\ Len(s) \in Nat
         /\ Append(s, e) \in Seq(S)
         /\ Len(Append(s, e)) = Len(s) + 1
OBVIOUS

LEMMA ScanTypeStep ==
  ASSUME TypeInv, ScanStep
  PROVE  ScanTypeOK' /\ BaseInv' /\ Len(starts') >= Len(starts)
         /\ pc' \in {"scan", "sites", "walk", "sited", "failed"}
<1> DEFINE Starts == Nat \cup {Unknown}
<1>0. /\ IsSurvey(survey) /\ survey.base \in Nat
      /\ i \in Nat /\ hits \in Seq(Nat) /\ Len(hits) \in Nat
      /\ h \in Nat /\ 1 <= h /\ h <= Len(hits) + 1
      /\ a \in Int /\ tries \in 0 .. Limit /\ Limit \in Nat
      /\ starts \in Seq(Starts) /\ Len(starts) = h - 1
      /\ pc = "walk" => h <= Len(hits) /\ a \in Nat /\ a >= survey.base
      /\ BaseInv
  <2>1. IsSurvey(survey) /\ survey.base \in Nat
    BY DEF TypeInv, TypeOK, ScanTypeOK, IsSurvey
  <2>2. hits \in Seq(Nat) /\ Len(hits) \in Nat
    BY SeqFacts DEF TypeInv, TypeOK, ScanTypeOK
  <2> QED BY <2>1, <2>2, WordAssumption DEF TypeInv, TypeOK, ScanTypeOK
<1>1. survey' = survey /\ IsSurvey(survey')
  BY <1>0 DEF ScanStep, ScanFails, PassWord, Site, ScanDone, TakeSite, NoReturn, PreviousReturn,
              WalkBack, SitesDone, Found, scanVars
<1> DEFINE Facts ==
             /\ i' \in Nat /\ hits' \in Seq(Nat) /\ Len(hits') \in Nat
             /\ h' \in Nat /\ 1 <= h' /\ h' <= Len(hits') + 1
             /\ a' \in Int /\ tries' \in 0 .. Limit
             /\ starts' \in Seq(Starts) /\ Len(starts') = h' - 1 /\ h' >= h
             /\ pc' = "walk" => h' <= Len(hits') /\ a' \in Nat /\ a' >= survey.base
             /\ \A x \in 1 .. Len(hits') : hits'[x] >= survey.base
             /\ pc' \in {"scan", "sites", "walk", "sited", "failed"}
<1>2. ASSUME Facts
      PROVE  ScanTypeOK' /\ BaseInv' /\ Len(starts') >= Len(starts)
             /\ pc' \in {"scan", "sites", "walk", "sited", "failed"}
  <2>1. Len(starts') >= Len(starts)
    <3>1. Len(starts) = h - 1 /\ h \in Nat
      BY <1>0
    <3>2. Len(starts') = h' - 1 /\ h' >= h /\ h' \in Nat
      BY <1>2
    <3>3. \A x, y \in Nat : x >= y => x - 1 >= y - 1
      OBVIOUS
    <3>4. h' - 1 >= h - 1
      BY <3>1, <3>2, <3>3
    <3> QED BY <3>1, <3>2, <3>4, Zenon
  <2>2. ScanTypeOK'
    BY <1>1, <1>2 DEF ScanTypeOK
  <2>3. BaseInv'
    BY <1>1, <1>2 DEF BaseInv
  <2> QED BY <1>2, <2>1, <2>2, <2>3
<1> HIDE DEF Starts
<1>3. CASE ScanFails \/ ScanDone \/ SitesDone
  <2>1. UNCHANGED <<i, hits, h, a, tries, starts>> /\ pc' \in {"failed", "sites", "sited"}
    BY <1>3 DEF ScanFails, ScanDone, SitesDone, scanVars
  <2>2. Facts
    BY <1>0, <2>1 DEF BaseInv
  <2> QED BY <1>2, <2>2
<1>4. CASE PassWord
  <2>1. UNCHANGED <<hits, h, a, tries, starts>> /\ pc' = "scan" /\ i' = i + 4
    BY <1>4 DEF PassWord, InScan, WIDTH
  <2>2. Facts
    BY <1>0, <2>1 DEF BaseInv
  <2> QED BY <1>2, <2>2
<1>5. CASE Site
  <2>1. UNCHANGED <<h, a, tries, starts>> /\ pc' = "scan" /\ i' = i + 4
        /\ hits' = Append(hits, survey.base + i)
    BY <1>5 DEF Site, InScan, WIDTH
  <2>2. survey.base + i \in Nat /\ survey.base + i >= survey.base
    BY <1>0
  <2>3. hits' \in Seq(Nat) /\ Len(hits') = Len(hits) + 1
    BY <1>0, <2>1, <2>2, SeqFacts
  <2>4. \A x \in 1 .. Len(hits') : hits'[x] >= survey.base
    BY <1>0, <2>1, <2>2, <2>3 DEF BaseInv
  <2>5. Facts
    BY <1>0, <2>1, <2>3, <2>4
  <2> QED BY <1>2, <2>5
<1>6. CASE TakeSite
  <2>1. UNCHANGED <<i, hits, h, starts>> /\ a' = hits[h] /\ tries' = 0 /\ h <= Len(hits)
        /\ pc' = "walk"
    BY <1>6 DEF TakeSite
  <2>2. hits[h] \in Nat /\ hits[h] >= survey.base
    BY <1>0, <2>1 DEF BaseInv
  <2>3. Facts
    BY <1>0, <2>1, <2>2 DEF BaseInv
  <2> QED BY <1>2, <2>3
<1>7. CASE NoReturn
  <2>1. UNCHANGED <<i, hits>> /\ h' = h + 1 /\ pc' = "sites" /\ starts' = Append(starts, Unknown)
        /\ pc = "walk"
    BY <1>7 DEF NoReturn, Found
  <2>2. \/ a' = a /\ tries' = tries
        \/ a' = a - 4 /\ tries' = tries + 1 /\ tries < Limit
    BY <1>7 DEF NoReturn, WIDTH
  <2>3. a' \in Int /\ tries' \in 0 .. Limit
    BY <1>0, <2>2
  <2>4. starts' \in Seq(Starts) /\ Len(starts') = h
    <3>1. Unknown \in Starts
      BY DEF Starts
    <3> QED BY <1>0, <2>1, <3>1, SeqFacts
  <2>5. Facts
    BY <1>0, <2>1, <2>3, <2>4 DEF BaseInv
  <2> QED BY <1>2, <2>5
<1>8. CASE PreviousReturn
  <2>1. UNCHANGED <<i, hits>> /\ h' = h + 1 /\ pc' = "sites"
        /\ starts' = Append(starts, a' + AfterReturn) /\ pc = "walk" /\ StepBack
    BY <1>8 DEF PreviousReturn, StepBack, Found
  <2>2. a' \in Int /\ tries' \in 0 .. Limit /\ a' + AfterReturn \in Nat
    BY <2>1, StartType
  <2>3. starts' \in Seq(Starts) /\ Len(starts') = h
    <3>1. a' + AfterReturn \in Starts
      BY <2>2 DEF Starts
    <3> QED BY <1>0, <2>1, <3>1, SeqFacts
  <2>4. Facts
    BY <1>0, <2>1, <2>2, <2>3 DEF BaseInv
  <2> QED BY <1>2, <2>4
<1>9. CASE WalkBack
  <2>1. UNCHANGED <<i, hits, h, starts, pc>> /\ pc = "walk" /\ StepBack
    BY <1>9 DEF WalkBack, StepBack
  <2>2. a' \in Nat /\ a' >= survey.base /\ tries' \in 0 .. Limit
    BY <2>1, StartType
  <2>3. Facts
    BY <1>0, <2>1, <2>2 DEF BaseInv
  <2> QED BY <1>2, <2>3
<1> QED BY <1>3, <1>4, <1>5, <1>6, <1>7, <1>8, <1>9 DEF ScanStep

LEMMA TypeStep == TypeInv /\ [Next]_vars => TypeInv'
<1> SUFFICES ASSUME TypeInv, [Next]_vars PROVE TypeInv'
  OBVIOUS
<1> DEFINE Same == UNCHANGED <<survey, i, hits, h, a, tries, starts>>
           Sums == UNCHANGED <<l, ident, sameOp, run, bestRun>>
<1>0. ReadInv /\ TypeOK /\ ScanTypeOK /\ BaseInv
  BY DEF TypeInv, TypeOK
<1>1. ASSUME Same, pc' # "walk" PROVE ScanTypeOK' /\ BaseInv'
  BY <1>0, <1>1 DEF ScanTypeOK, BaseInv
<1>2. CASE Scan
  <2>1. pc \in {"scan", "sites", "walk"} /\ ScanStep
        /\ UNCHANGED <<site, n, other, wa, wb>> /\ Sums
    BY <1>2 DEF Scan, ScanStep, ScanFails, PassWord, Site, ScanDone, TakeSite, NoReturn,
                PreviousReturn, WalkBack, SitesDone, InScan, StepBack, readVars, sumVars
  <2>2. ScanTypeOK' /\ BaseInv' /\ Len(starts') >= Len(starts)
        /\ pc' \in {"scan", "sites", "walk", "sited", "failed"}
    BY <2>1, ScanTypeStep
  <2>3. Len(starts) \in Nat /\ Len(starts') \in Nat
    BY <1>0, <2>2, SeqFacts DEF ScanTypeOK
  <2>4. site' \in 0 .. Len(starts')
    BY <1>0, <2>1, <2>2, <2>3 DEF TypeOK
  <2>5. ReadInv'
    BY <1>0, <2>1, <2>2 DEF ReadInv
  <2> QED BY <1>0, <2>1, <2>2, <2>4, <2>5 DEF TypeInv, TypeOK
<1>3. CASE PickRoutine
  <2>1. Same /\ Sums /\ pc = "sited" /\ pc' = "words" /\ UNCHANGED <<wa, wb>>
    BY <1>3 DEF PickRoutine, scanVars, sumVars
  <2>2. n' \in Nat
    BY <1>3, LineageAssumption DEF PickRoutine
  <2>3. other' \in Others
    BY <1>3 DEF PickRoutine
  <2>4. IsExe(other.exe)' /\ other'.at \in Nat
    BY <2>3, LineageAssumption
  <2>5. site' \in 1 .. Len(starts) /\ starts[site'] # Unknown
    BY <1>3 DEF PickRoutine
  <2>6. Len(starts) \in Nat /\ starts' = starts
    BY <1>0, <2>1 DEF ScanTypeOK
  <2>7. site' \in 0 .. Len(starts') /\ site' > 0 /\ starts'[site'] # Unknown
    BY <2>5, <2>6
  <2>8. ReadInv'
    BY <1>0, <2>1 DEF ReadInv
  <2> QED BY <1>0, <2>1, <2>2, <2>4, <2>7, <2>8, <1>1 DEF TypeInv, TypeOK
<1>4. CASE ReadRoutine
  <2>1. Same /\ Sums /\ pc = "words" /\ pc' \in {"compared", "words"}
        /\ UNCHANGED <<site, n, other, wb>>
    BY <1>4 DEF ReadRoutine, scanVars, sumVars
  <2>2. starts[site] \in Nat
    BY <1>0, <2>1 DEF TypeOK, ScanTypeOK
  <2>3. wa' \in Seq(Word) /\ Len(wa') = n
    BY <1>0, <1>4, <2>2, WordsType DEF ReadRoutine, TypeOK, ScanTypeOK, IsSurvey, exe
  <2>4. ReadInv'
    BY <1>0, <2>1, <2>3 DEF ReadInv
  <2> QED BY <1>0, <2>1, <2>3, <2>4, <1>1 DEF TypeInv, TypeOK
<1>5. CASE ReadOther
  <2>1. Same /\ Sums /\ pc = "words" /\ pc' = "compare" /\ wa # <<>>
        /\ UNCHANGED <<site, n, other, wa>>
    BY <1>5 DEF ReadOther, scanVars, sumVars
  <2>2. wb' \in Seq(Word) /\ Len(wb') = n
    BY <1>0, <1>5, WordsType DEF ReadOther, TypeOK
  <2>3. Len(wa') = n /\ l' = 0
    BY <1>0, <2>1 DEF ReadInv
  <2>4. ReadInv'
    BY <2>1, <2>3 DEF ReadInv
  <2> QED BY <1>0, <2>1, <2>2, <2>3, <2>4, <1>1 DEF TypeInv, TypeOK
<1>6. CASE ReadFails
  <2>1. Same /\ Sums /\ pc' = "failed" /\ UNCHANGED <<site, n, other, wa, wb>>
    BY <1>6 DEF ReadFails, scanVars, readVars, sumVars
  <2> QED BY <1>0, <2>1, <1>1 DEF TypeInv, TypeOK, ReadInv
<1>7. CASE Identical \/ SameOpcode \/ Different
  <2>1. Same /\ pc = "compare" /\ pc' = "compare" /\ UNCHANGED <<site, n, other, wa, wb>>
        /\ l < n /\ l' = l + 1
    BY <1>7 DEF Identical, SameOpcode, Different, InLoop, scanVars, readVars
  <2>2. {ident', sameOp', run', bestRun'} \subseteq Nat
    <3>1. {ident, sameOp, run, bestRun} \subseteq Nat
      BY <1>0 DEF TypeOK
    <3>2. ident' \in {ident, ident + 1} /\ sameOp' \in {sameOp, sameOp + 1}
          /\ run' \in {0, run + 1} /\ bestRun' \in {bestRun, run'}
      BY <1>7 DEF Identical, SameOpcode, Different, Greater
    <3> QED BY <3>1, <3>2
  <2>3. l' \in Nat /\ l' <= n
    BY <1>0, <2>1 DEF TypeOK
  <2>4. ReadInv'
    BY <1>0, <2>1 DEF ReadInv
  <2> QED BY <1>0, <2>1, <2>2, <2>3, <2>4, <1>1 DEF TypeInv, TypeOK
<1>8. CASE Compared
  <2>1. Same /\ Sums /\ pc' = "compared" /\ UNCHANGED <<site, n, other, wa, wb>>
    BY <1>8 DEF Compared, scanVars, readVars, sumVars
  <2> QED BY <1>0, <2>1, <1>1 DEF TypeInv, TypeOK, ReadInv
<1>9. CASE UNCHANGED vars
  <2>1. Same /\ Sums /\ pc' = pc /\ UNCHANGED <<site, n, other, wa, wb>>
    BY <1>9 DEF vars, scanVars, readVars, sumVars
  <2>2. ScanTypeOK' /\ BaseInv' /\ ReadInv'
    BY <1>0, <2>1 DEF ScanTypeOK, BaseInv, ReadInv
  <2> QED BY <1>0, <2>1, <2>2 DEF TypeInv, TypeOK
<1> QED BY <1>2, <1>3, <1>4, <1>5, <1>6, <1>7, <1>8, <1>9 DEF Next, Terminal

\* No word outside the file is read, no walk leaves the section unnoticed, and a
\* comparison stays within the words read.
THEOREM TypeCorrect == Spec => []TypeOK
<1>1. TypeInv => TypeOK
  BY DEF TypeInv
<1> QED BY <1>1, TypeInit, TypeStep, PTL DEF Spec

-----------------------------------------------------------------------------
(* The comparison                                                          *)

\* The run in progress is the longest that ends here, the best the longest so
\* far, and only identical words make either.
LongestSoFar ==
  /\ run <= l
  /\ SameWords(wa, wb, l - run + 1, run)
  /\ run = l \/ wa[l - run] # wb[l - run]
  /\ \E x \in 1 .. l + 1 : x + bestRun <= l + 1 /\ SameWords(wa, wb, x, bestRun)
  /\ \A x, m \in Nat \ {0} : x + m <= l + 1 /\ SameWords(wa, wb, x, m) => m <= bestRun
  /\ run <= bestRun /\ bestRun <= ident /\ ident <= sameOp /\ sameOp <= l
  /\ ident = l => run = l

CompareInv ==
  pc = "compare" \/ (pc = "compared" /\ wb # <<>>) =>
    LongestSoFar /\ (pc = "compared" => l = n)

LEMMA LongerRun ==
  ASSUME TypeInv, LongestSoFar, Identical
  PROVE  LongestSoFar'
<1>1. /\ l \in Nat /\ run \in Nat /\ bestRun \in Nat /\ ident \in Nat /\ sameOp \in Nat
      /\ run <= l /\ run <= bestRun /\ bestRun <= ident /\ ident <= sameOp /\ sameOp <= l
  BY DEF TypeInv, TypeOK, LongestSoFar
<1>2. /\ l' = l + 1 /\ run' = run + 1 /\ ident' = ident + 1 /\ sameOp' = sameOp + 1
      /\ bestRun' = IF bestRun > run + 1 THEN bestRun ELSE run + 1
      /\ wa' = wa /\ wb' = wb /\ wa[l + 1] = wb[l + 1]
  BY DEF Identical, InLoop, Greater, readVars
<1>4. l' - run' = l - run
  BY <1>1, <1>2
<1>5. SameWords(wa, wb, l - run + 1, run + 1)
  BY <1>1, <1>2 DEF LongestSoFar, SameWords
<1>6. SameWords(wa', wb', l' - run' + 1, run')
  BY <1>2, <1>4, <1>5
<1>7. run' = l' \/ wa'[l' - run'] # wb'[l' - run']
  BY <1>1, <1>2, <1>4 DEF LongestSoFar
<1>8. \E x \in 1 .. l' + 1 : x + bestRun' <= l' + 1 /\ SameWords(wa', wb', x, bestRun')
  <2>1. CASE bestRun > run + 1
    <3>1. PICK x \in 1 .. l + 1 : x + bestRun <= l + 1 /\ SameWords(wa, wb, x, bestRun)
      BY DEF LongestSoFar
    <3>2. x \in 1 .. l' + 1 /\ x + bestRun' <= l' + 1
      BY <1>1, <1>2, <2>1, <3>1
    <3>3. SameWords(wa', wb', x, bestRun')
      BY <1>2, <2>1, <3>1
    <3> QED BY <3>2, <3>3
  <2>2. CASE ~(bestRun > run + 1)
    <3>1. bestRun' = run + 1
      BY <1>2, <2>2
    <3>2. l - run + 1 \in 1 .. l' + 1 /\ l - run + 1 + bestRun' <= l' + 1
      BY <1>1, <1>2, <3>1
    <3>3. SameWords(wa', wb', l - run + 1, bestRun')
      BY <1>2, <1>5, <3>1
    <3> QED BY <3>2, <3>3
  <2> QED BY <2>1, <2>2
<1>9. ASSUME NEW x \in Nat \ {0}, NEW m \in Nat \ {0}, x + m <= l' + 1, SameWords(wa', wb', x, m)
      PROVE  m <= bestRun'
  <2>1. SameWords(wa, wb, x, m)
    BY <1>2, <1>9
  <2>2. CASE x + m <= l + 1
    <3>1. m <= bestRun
      BY <2>1, <2>2 DEF LongestSoFar
    <3> QED BY <1>1, <1>2, <3>1
  <2>3. CASE x + m = l + 2
    <3>1. ~(x <= l - run)
      <4>1. SUFFICES ASSUME x <= l - run PROVE FALSE
        OBVIOUS
      <4>2. l - run \in x .. x + m - 1
        BY <1>1, <2>3, <4>1
      <4>3. wa[l - run] = wb[l - run]
        BY <2>1, <4>2 DEF SameWords
      <4>4. run # l
        BY <1>1, <4>1
      <4> QED BY <4>3, <4>4 DEF LongestSoFar
    <3> QED BY <1>1, <1>2, <2>3, <3>1
  <2> QED BY <1>1, <1>2, <1>9, <2>2, <2>3
<1>10. run' <= bestRun' /\ bestRun' <= ident' /\ ident' <= sameOp' /\ sameOp' <= l'
  BY <1>1, <1>2
<1>11. run' <= l' /\ (ident' = l' => run' = l')
  BY <1>1, <1>2 DEF LongestSoFar
<1> QED BY <1>6, <1>7, <1>8, <1>9, <1>10, <1>11 DEF LongestSoFar

LEMMA RunBroken ==
  ASSUME TypeInv, LongestSoFar, SameOpcode \/ Different
  PROVE  LongestSoFar'
<1>1. /\ l \in Nat /\ run \in Nat /\ bestRun \in Nat /\ ident \in Nat /\ sameOp \in Nat
      /\ run <= l /\ run <= bestRun /\ bestRun <= ident /\ ident <= sameOp /\ sameOp <= l
  BY DEF TypeInv, TypeOK, LongestSoFar
<1>2. /\ l' = l + 1 /\ run' = 0 /\ ident' = ident /\ sameOp' \in {sameOp, sameOp + 1}
      /\ bestRun' = bestRun
      /\ wa' = wa /\ wb' = wb /\ wa[l + 1] # wb[l + 1]
  BY DEF SameOpcode, Different, InLoop, readVars
<1>4. SameWords(wa', wb', l' - run' + 1, run') /\ wa'[l' - run'] # wb'[l' - run']
  <2>1. l' - run' = l + 1
    BY <1>1, <1>2
  <2>2. SameWords(wa, wb, l + 2, 0)
    BY <1>1 DEF SameWords
  <2>3. l' - run' + 1 = l + 2
    BY <1>1, <2>1
  <2> QED BY <1>2, <2>1, <2>2, <2>3
<1>5. \E x \in 1 .. l' + 1 : x + bestRun' <= l' + 1 /\ SameWords(wa', wb', x, bestRun')
  <2>1. PICK x \in 1 .. l + 1 : x + bestRun <= l + 1 /\ SameWords(wa, wb, x, bestRun)
    BY DEF LongestSoFar
  <2>2. x \in 1 .. l' + 1 /\ x + bestRun' <= l' + 1
    BY <1>1, <1>2, <2>1
  <2> QED BY <1>2, <2>1, <2>2
<1>6. ASSUME NEW x \in Nat \ {0}, NEW m \in Nat \ {0}, x + m <= l' + 1, SameWords(wa', wb', x, m)
      PROVE  m <= bestRun'
  <2>1. SameWords(wa, wb, x, m)
    BY <1>2, <1>6
  <2>2. x + m <= l + 1
    <3>1. SUFFICES ASSUME x + m = l + 2 PROVE FALSE
      BY <1>1, <1>2, <1>6
    <3>2. l + 1 \in x .. x + m - 1
      BY <1>1, <3>1
    <3> QED BY <1>2, <2>1, <3>2 DEF SameWords
  <2>3. m <= bestRun
    BY <2>1, <2>2 DEF LongestSoFar
  <2> QED BY <1>2, <2>3
<1>7. run' <= bestRun' /\ bestRun' <= ident' /\ ident' <= sameOp' /\ sameOp' <= l'
  BY <1>1, <1>2
<1>8. run' <= l' /\ ident' # l'
  BY <1>1, <1>2
<1> QED BY <1>4, <1>5, <1>6, <1>7, <1>8 DEF LongestSoFar

LEMMA CompareStep == TypeInv /\ CompareInv /\ [Next]_vars => CompareInv'
<1> SUFFICES ASSUME TypeInv, CompareInv, [Next]_vars PROVE CompareInv'
  OBVIOUS
<1> DEFINE Sums == UNCHANGED <<l, ident, sameOp, run, bestRun>>
<1>0. TypeOK /\ ReadInv
  BY DEF TypeInv
<1>1. CASE ReadOther
  <2>1. pc = "words" /\ pc' = "compare" /\ Sums
    BY <1>1 DEF ReadOther, sumVars
  <2>2. l' = 0 /\ run' = 0 /\ bestRun' = 0 /\ ident' = 0 /\ sameOp' = 0
    BY <1>0, <2>1 DEF ReadInv
  <2>3. LongestSoFar'
    BY <2>2 DEF LongestSoFar, SameWords
  <2> QED BY <2>1, <2>3 DEF CompareInv
<1>2. CASE Identical
  <2>1. pc = "compare" /\ pc' = "compare"
    BY <1>2 DEF Identical, InLoop
  <2> QED BY <1>2, <2>1, LongerRun DEF CompareInv
<1>3. CASE SameOpcode \/ Different
  <2>1. pc = "compare" /\ pc' = "compare"
    BY <1>3 DEF SameOpcode, Different, InLoop
  <2> QED BY <1>3, <2>1, RunBroken DEF CompareInv
<1>4. ASSUME Sums, UNCHANGED <<n, wa, wb>>,
             pc' = pc \/ (pc = "compare" /\ pc' = "compared" /\ l = n)
      PROVE  CompareInv'
  BY <1>4 DEF CompareInv, LongestSoFar, SameWords
<1>5. CASE Compared
  BY <1>4, <1>5 DEF Compared, readVars, sumVars
<1>6. CASE UNCHANGED vars
  BY <1>4, <1>6 DEF vars, readVars, sumVars
<1>7. ASSUME pc' \notin {"compare", "compared"} PROVE CompareInv'
  BY <1>7 DEF CompareInv
<1>8. CASE Scan
  <2>1. pc' \notin {"compare", "compared"}
    BY <1>8, <1>0, ScanTypeStep DEF Scan
  <2> QED BY <1>7, <2>1
<1>9. CASE PickRoutine \/ ReadFails
  BY <1>7, <1>9 DEF PickRoutine, ReadFails
<1>10. CASE ReadRoutine
  <2>1. wb' = <<>> /\ pc' \in {"compared", "words"}
    BY <1>0, <1>10 DEF ReadRoutine, ReadInv
  <2> QED BY <2>1 DEF CompareInv
<1> QED BY <1>1, <1>2, <1>3, <1>5, <1>6, <1>8, <1>9, <1>10 DEF Next, Terminal

\* The run of identical words that the report prints is the longest there is, for
\* every two routines and every number of words.
THEOREM LongestRunOfWords == Spec => []LongestIdentical
<1>1. Init => CompareInv
  BY DEF Init, ScanInit, CompareInv
<1>2. TypeInv /\ CompareInv => LongestIdentical
  <2> SUFFICES ASSUME TypeInv, CompareInv, pc = "compared", wb # <<>>
               PROVE  /\ \E x \in 1 .. n + 1 : x + bestRun <= n + 1 /\ SameWords(wa, wb, x, bestRun)
                      /\ \A x \in 1 .. n, m \in 1 .. n :
                           x + m <= n + 1 /\ SameWords(wa, wb, x, m) => m <= bestRun
                      /\ bestRun <= ident /\ ident <= sameOp /\ sameOp <= n
                      /\ ident = n <=> bestRun = n
    BY DEF LongestIdentical
  <2>1. LongestSoFar /\ l = n /\ {n, ident, sameOp, run, bestRun} \subseteq Nat
    BY DEF CompareInv, TypeInv, TypeOK
  <2>2. ident = n <=> bestRun = n
    BY <2>1 DEF LongestSoFar
  <2>3. \A x \in 1 .. n, m \in 1 .. n : x + m <= n + 1 /\ SameWords(wa, wb, x, m) => m <= bestRun
    BY <2>1 DEF LongestSoFar
  <2> QED BY <2>1, <2>2, <2>3 DEF LongestSoFar
<1> QED BY <1>1, <1>2, TypeInit, TypeStep, CompareStep, PTL DEF Spec

-----------------------------------------------------------------------------
(* The report                                                              *)

Sites == {v \in Section : IsSite(Scanned(v))}

\* What has been scanned is accounted for, and the scan ends with the section.
ScanInv ==
  /\ i % 4 = 0
  /\ \A x \in 1 .. Len(hits) : hits[x] \in Sites /\ hits[x] < survey.base + i
  /\ \A x, y \in 1 .. Len(hits) : x < y => hits[x] < hits[y]
  /\ \A v \in Sites : v < survey.base + i => \E x \in 1 .. Len(hits) : hits[x] = v
  /\ pc \notin {"scan", "failed"} => i >= survey.size - 3

LEMMA Survey ==
  ASSUME TypeInv
  PROVE  /\ survey.base \in Nat /\ survey.size \in Nat /\ survey.base % 4 = 0
         /\ i \in Nat /\ hits \in Seq(Nat) /\ Len(hits) \in Nat
         /\ \A v \in Section : v \in Nat /\ survey.base <= v /\ v % 4 = 0
                               /\ v <= survey.base + survey.size - 4
<1>1. survey.base \in Nat /\ survey.size \in Nat /\ survey.base % 4 = 0
  BY DEF TypeInv, TypeOK, ScanTypeOK, IsSurvey, WIDTH
<1>2. i \in Nat /\ hits \in Seq(Nat) /\ Len(hits) \in Nat
  BY DEF TypeInv, TypeOK, ScanTypeOK
<1>3. \A v \in Section : v \in Nat /\ survey.base <= v /\ v % 4 = 0
                         /\ v <= survey.base + survey.size - 4
  BY <1>1 DEF Section, WIDTH
<1> QED BY <1>1, <1>2, <1>3

LEMMA FrozenStep ==
  ASSUME [Next]_vars
  PROVE  /\ survey' = survey /\ Section' = Section /\ Sites' = Sites
         /\ \A v : Scanned(v)' = Scanned(v)
<1>1. survey' = survey
  BY DEF Next, vars, Scan, ScanStep, ScanFails, PassWord, Site, ScanDone, TakeSite, NoReturn,
         PreviousReturn, WalkBack, SitesDone, Found, PickRoutine, ReadRoutine, ReadOther, ReadFails,
         Identical, SameOpcode, Different, Compared, Terminal
<1>2. Section' = Section /\ \A v : Scanned(v)' = Scanned(v)
  BY <1>1 DEF Section, Scanned, exe
<1>3. Sites' = Sites
  BY <1>2 DEF Sites, IsSite
<1> QED BY <1>1, <1>2, <1>3

\* No multiple of four lies strictly between two neighbours.
LEMMA Neighbours ==
  ASSUME NEW x \in Int, NEW y \in Int, x % 4 = 0, y % 4 = 0, x < y + 4
  PROVE  x <= y
OBVIOUS

LEMMA FoursAdd ==
  ASSUME NEW x \in Int, NEW y \in Int, x % 4 = 0, y % 4 = 0
  PROVE  (x + y) % 4 = 0 /\ (x - y) % 4 = 0
OBVIOUS

LEMMA ScanInvStep == TypeInv /\ ScanInv /\ [Next]_vars => ScanInv'
<1> SUFFICES ASSUME TypeInv, ScanInv, [Next]_vars PROVE ScanInv'
  OBVIOUS
<1>0. /\ survey' = survey /\ Sites' = Sites /\ Sites \subseteq Section
      /\ survey.base \in Nat /\ survey.size \in Nat /\ survey.base % 4 = 0
      /\ i \in Nat /\ hits \in Seq(Nat) /\ Len(hits) \in Nat
      /\ \A v \in Section : v \in Nat /\ survey.base <= v /\ v % 4 = 0
                            /\ v <= survey.base + survey.size - 4
  BY Survey, FrozenStep DEF Sites
<1>at. survey.base + i \in Nat /\ (survey.base + i) % 4 = 0
  <2>1. survey.base \in Nat /\ i \in Nat /\ survey.base % 4 = 0 /\ i % 4 = 0
    BY <1>0 DEF ScanInv
  <2>2. \A x, y \in Nat : x % 4 = 0 /\ y % 4 = 0 => x + y \in Nat /\ (x + y) % 4 = 0
    BY FoursAdd
  <2> QED BY <2>1, <2>2
<1>1. CASE PassWord
  <2>1. i' = i + 4 /\ hits' = hits /\ pc' = "scan" /\ ~IsSite(Scanned(survey.base + i))
    BY <1>1 DEF PassWord, InScan, WIDTH
  <2>2. \A v \in Sites : v < survey.base + i + 4 => v < survey.base + i
    <3>1. SUFFICES ASSUME NEW v \in Sites, v < survey.base + i + 4 PROVE v < survey.base + i
      OBVIOUS
    <3>2. v <= survey.base + i
      <4>1. v \in Int /\ v % 4 = 0
        BY <1>0, <3>1
      <4>2. survey.base + i \in Int /\ (survey.base + i) % 4 = 0
        BY <1>at
      <4> QED BY <3>1, <4>1, <4>2, Neighbours
    <3>3. v # survey.base + i
      BY <2>1, <3>1 DEF Sites
    <3> QED BY <1>0, <3>2, <3>3
  <2> QED BY <1>0, <2>1, <2>2 DEF ScanInv
<1>2. CASE Site
  <2>1. /\ i' = i + 4 /\ hits' = Append(hits, survey.base + i) /\ pc' = "scan"
        /\ IsSite(Scanned(survey.base + i)) /\ i < survey.size - 3
    BY <1>2 DEF Site, InScan, WIDTH
  <2>2. survey.base + i \in Sites /\ (survey.base + i) % 4 = 0 /\ survey.base + i \in Nat
    <3>1. (survey.base + i) % 4 = 0 /\ survey.base + i \in Nat
      BY <1>at
    <3>2. survey.base + i \in survey.base .. survey.base + survey.size - 4
      BY <1>0, <2>1
    <3> QED BY <2>1, <3>1, <3>2 DEF Sites, Section, WIDTH
  <2>3. /\ Len(hits') = Len(hits) + 1 /\ hits'[Len(hits) + 1] = survey.base + i
        /\ \A x \in 1 .. Len(hits) : hits'[x] = hits[x]
    BY <1>0, <2>1, <2>2
  <2>4. \A x \in 1 .. Len(hits') : hits'[x] \in Sites /\ hits'[x] < survey.base + i + 4
    <3>1. SUFFICES ASSUME NEW x \in 1 .. Len(hits') 
                   PROVE hits'[x] \in Sites /\ hits'[x] < survey.base + i + 4
      OBVIOUS
    <3>2. CASE x = Len(hits) + 1
      BY <1>0, <2>2, <2>3, <3>2
    <3>3. CASE x \in 1 .. Len(hits)
      <4>1. hits'[x] \in Sites /\ hits'[x] < survey.base + i
        BY <2>3, <3>3 DEF ScanInv
      <4> QED BY <1>0, <4>1
    <3> QED BY <1>0, <2>3, <3>2, <3>3
  <2>5. ASSUME NEW x \in 1 .. Len(hits'), NEW y \in 1 .. Len(hits'), x < y
        PROVE  hits'[x] < hits'[y]
    <3>1. x \in 1 .. Len(hits)
      BY <1>0, <2>3, <2>5
    <3>2. CASE y = Len(hits) + 1
      BY <2>3, <3>1, <3>2 DEF ScanInv
    <3>3. CASE y \in 1 .. Len(hits)
      BY <2>3, <2>5, <3>1, <3>3 DEF ScanInv
    <3> QED BY <1>0, <2>3, <3>2, <3>3
  <2>6. ASSUME NEW v \in Sites, v < survey.base + i + 4
        PROVE  \E x \in 1 .. Len(hits') : hits'[x] = v
    <3>1. v \in Int /\ v % 4 = 0 /\ survey.base + i \in Int
      BY <1>0
    <3>2. v <= survey.base + i
      BY <2>2, <2>6, <3>1, Neighbours
    <3>3. CASE v = survey.base + i
      <4>1. Len(hits) + 1 \in 1 .. Len(hits')
        BY <1>0, <2>3
      <4> QED BY <2>3, <3>3, <4>1
    <3>4. CASE v < survey.base + i
      <4>1. PICK x \in 1 .. Len(hits) : hits[x] = v
        BY <3>4 DEF ScanInv
      <4>2. x \in 1 .. Len(hits')
        BY <1>0, <2>3
      <4> QED BY <2>3, <4>1, <4>2
    <3> QED BY <3>1, <3>2, <3>3, <3>4
  <2>7. i' % 4 = 0 /\ survey.base + i + 4 = survey'.base + i'
    BY <1>0, <2>1 DEF ScanInv
  <2> QED BY <1>0, <2>1, <2>4, <2>5, <2>6, <2>7 DEF ScanInv
<1>3. CASE ScanDone
  <2>1. i' = i /\ hits' = hits /\ i >= survey.size - 3
    BY <1>0, <1>3 DEF ScanDone, InScan, scanVars
  <2> QED BY <1>0, <2>1 DEF ScanInv
<1>4. ASSUME i' = i, hits' = hits, pc' = "failed" \/ pc \notin {"scan", "failed"} \/ pc' = pc
      PROVE  ScanInv'
  BY <1>0, <1>4 DEF ScanInv
<1>5. CASE Scan /\ ~(PassWord \/ Site \/ ScanDone)
  <2>1. /\ i' = i /\ hits' = hits
        /\ pc' = "failed" \/ pc \notin {"scan", "failed"}
    BY <1>5 DEF Scan, ScanStep, ScanFails, TakeSite, NoReturn, PreviousReturn, WalkBack, StepBack,
                SitesDone, Found, scanVars
  <2> QED BY <1>4, <2>1
<1>6. CASE ~Scan
  <2>1. /\ i' = i /\ hits' = hits
        /\ pc' = pc \/ pc \notin {"scan", "failed"}
    BY <1>6 DEF Next, vars, PickRoutine, ReadRoutine, ReadOther, ReadFails, Identical, SameOpcode,
                Different, Compared, Terminal, InLoop, scanVars
  <2> QED BY <1>4, <2>1
<1> QED BY <1>1, <1>2, <1>3, <1>5, <1>6

\* What the last column of the report says of a site at w.
Reported(s, w) ==
  IF s = Unknown
  THEN Returns(w - WIDTH * Limit, w) = {}
  ELSE /\ Scanned(s - AfterReturn) = Return
       /\ Returns(s - AfterReturn, w) = {s - AfterReturn}

StartsInv == \A x \in 1 .. Len(starts) : Reported(starts[x], hits[x])

\* The walk has met no return on the way from the site.
WalkInv == pc = "walk" => a = hits[h] - 4 * tries /\ Returns(a, hits[h]) = {}

SiteInv == ScanInv /\ StartsInv /\ WalkInv

LEMMA Restated ==
  ASSUME survey' = survey
  PROVE  /\ (\A x \in 1 .. Len(starts') : Reported(starts'[x], hits'[x])) => StartsInv'
         /\ (pc' = "walk" => a' = hits'[h'] - 4 * tries' /\ Returns(a', hits'[h']) = {}) => WalkInv'
BY DEF StartsInv, WalkInv, Reported, Returns, Section, Scanned, exe, AfterReturn

\* What a step of the walk looks at.
LEMMA OneBack ==
  ASSUME TypeInv, SiteInv, pc = "walk"
  PROVE  /\ h \in 1 .. Len(hits) /\ hits[h] \in Section /\ hits[h] \in Nat
         /\ survey.base \in Nat /\ survey.base % 4 = 0 /\ Limit \in Nat /\ tries \in 0 .. Limit
         /\ a \in Nat /\ a % 4 = 0 /\ a >= survey.base /\ a <= hits[h]
         /\ a = hits[h] - 4 * tries /\ Returns(a, hits[h]) = {}
<1>1. h \in 1 .. Len(hits) /\ a \in Nat /\ a >= survey.base
      /\ Limit \in Nat /\ tries \in 0 .. Limit /\ tries \in Nat
  BY Survey, WordAssumption DEF TypeInv, TypeOK, ScanTypeOK
<1>2. hits[h] \in Section /\ hits[h] \in Nat /\ hits[h] % 4 = 0
  BY <1>1, Survey DEF SiteInv, ScanInv, Sites
<1>3. a = hits[h] - 4 * tries /\ Returns(a, hits[h]) = {}
  BY DEF SiteInv, WalkInv
<1>4. a % 4 = 0 /\ a <= hits[h]
  BY <1>1, <1>2, <1>3
<1> QED BY <1>1, <1>2, <1>3, <1>4, Survey

LEMMA WordsBetween ==
  ASSUME TypeInv, NEW c \in Int, NEW w \in Int, c % 4 = 0, Returns(c, w) = {}
  PROVE  \A r \in Section : r > c - 4 /\ r < w => Scanned(r) # Return
<1> SUFFICES ASSUME NEW r \in Section, r > c - 4, r < w, Scanned(r) = Return PROVE FALSE
  OBVIOUS
<1>1. r \in Int /\ r % 4 = 0
  BY Survey
<1>2. c < r + 4
  BY <1>1
<1>3. c <= r
  BY <1>1, <1>2, Neighbours
<1> QED BY <1>3 DEF Returns

LEMMA SiteInvStep == TypeInv /\ SiteInv /\ [Next]_vars => SiteInv'
<1> SUFFICES ASSUME TypeInv, SiteInv, [Next]_vars PROVE SiteInv'
  OBVIOUS
<1>0. /\ survey' = survey /\ ScanInv'
      /\ hits \in Seq(Nat) /\ Len(hits) \in Nat /\ Len(starts) = h - 1 /\ Len(starts) \in Nat
      /\ h \in 1 .. Len(hits) + 1
  <2>1. hits \in Seq(Nat) /\ Len(hits) \in Nat
    BY Survey
  <2>2. Len(starts) = h - 1 /\ h \in 1 .. Len(hits) + 1
    BY DEF TypeInv, TypeOK, ScanTypeOK
  <2> QED BY <2>1, <2>2, FrozenStep, ScanInvStep DEF SiteInv
<1>1. ASSUME UNCHANGED <<hits, starts>>, pc' # "walk" \/ UNCHANGED <<h, a, tries, pc>>
      PROVE  SiteInv'
  <2>1. \A x \in 1 .. Len(starts') : Reported(starts'[x], hits'[x])
    BY <1>1 DEF SiteInv, StartsInv
  <2>2. pc' = "walk" => a' = hits'[h'] - 4 * tries' /\ Returns(a', hits'[h']) = {}
    BY <1>1 DEF SiteInv, WalkInv
  <2> QED BY <1>0, <2>1, <2>2, Restated DEF SiteInv
<1>2. ASSUME NEW s, hits' = hits, starts' = Append(starts, s), pc' = "sites",
             starts \in Seq(Nat \cup {Unknown}), s \in Nat \cup {Unknown}, h <= Len(hits),
             Reported(s, hits[h])
      PROVE  SiteInv'
  <2>1. Len(starts') = h /\ starts'[h] = s /\ \A x \in 1 .. h - 1 : starts'[x] = starts[x]
    BY <1>0, <1>2
  <2>2. ASSUME NEW x \in 1 .. Len(starts') PROVE Reported(starts'[x], hits'[x])
    <3>1. CASE x = h
      BY <1>2, <2>1, <3>1
    <3>2. CASE x # h
      <4>1. x \in 1 .. h - 1 /\ x \in 1 .. Len(starts)
        BY <1>0, <2>1, <3>2
      <4> QED BY <1>2, <2>1, <4>1 DEF SiteInv, StartsInv
    <3> QED BY <3>1, <3>2
  <2> QED BY <1>0, <1>2, <2>2, Restated DEF SiteInv
<1>3. starts \in Seq(Nat \cup {Unknown}) /\ survey.base \in Nat
  BY Survey DEF TypeInv, TypeOK, ScanTypeOK
<1>4. CASE Site
  <2>1. starts' = starts /\ hits' = Append(hits, survey.base + i) /\ pc' = "scan"
        /\ survey.base + i \in Nat
    BY <1>4, Survey DEF Site, InScan
  <2>2. ASSUME NEW x \in 1 .. Len(starts') PROVE Reported(starts'[x], hits'[x])
    <3>1. x \in 1 .. Len(starts) /\ x \in 1 .. Len(hits)
      BY <1>0, <2>1
    <3>2. hits'[x] = hits[x]
      BY <1>0, <2>1, <3>1
    <3> QED BY <2>1, <3>1, <3>2 DEF SiteInv, StartsInv
  <2> QED BY <1>0, <2>1, <2>2, Restated DEF SiteInv
<1>5. CASE TakeSite
  <2>1. UNCHANGED <<hits, h, starts>> /\ a' = hits[h] /\ tries' = 0 /\ h <= Len(hits)
    BY <1>5 DEF TakeSite
  <2>2. \A x \in 1 .. Len(starts') : Reported(starts'[x], hits'[x])
    BY <2>1 DEF SiteInv, StartsInv
  <2>3. hits[h] \in Nat
    BY <1>0, <2>1
  <2>4. Returns(hits[h], hits[h]) = {}
    BY <2>3, Survey DEF Returns
  <2>5. a' = hits'[h'] - 4 * tries' /\ Returns(a', hits'[h']) = {}
    BY <2>1, <2>3, <2>4
  <2> QED BY <1>0, <2>2, <2>5, Restated DEF SiteInv
<1>6. CASE NoReturn
  <2>1. /\ pc = "walk" /\ hits' = hits /\ starts' = Append(starts, Unknown) /\ pc' = "sites"
        /\ tries = Limit \/ (tries < Limit /\ a - 4 < survey.base)
    BY <1>6 DEF NoReturn, Found, WIDTH
  <2>2. Returns(hits[h] - 4 * Limit, hits[h]) = {}
    <3>1. CASE tries = Limit
      BY <2>1, <3>1, OneBack
    <3>2. CASE a - 4 < survey.base
      <4>1. \A r \in Section : r < hits[h] => Scanned(r) # Return
        <5>1. \A r \in Section : r > a - 4 /\ r < hits[h] => Scanned(r) # Return
          <6>1. a \in Int /\ hits[h] \in Int /\ a % 4 = 0 /\ Returns(a, hits[h]) = {}
            BY <2>1, OneBack
          <6> QED BY <6>1, WordsBetween
        <5>2. \A r \in Section : r >= survey.base /\ r \in Nat
          BY Survey
        <5>3. \A r \in Section : r > a - 4
          BY <2>1, <3>2, <5>2, OneBack
        <5> QED BY <5>1, <5>3
      <4> QED BY <4>1 DEF Returns
    <3> QED BY <2>1, <3>1, <3>2
  <2>3. Reported(Unknown, hits[h])
    BY <2>2 DEF Reported, WIDTH
  <2>4. h <= Len(hits)
    BY <2>1, OneBack
  <2> QED BY <1>2, <1>3, <2>1, <2>3, <2>4
<1>7. CASE StepBack /\ (PreviousReturn \/ WalkBack)
  <2>1. pc = "walk" /\ tries < Limit /\ a - 4 >= survey.base /\ a' = a - 4 /\ tries' = tries + 1
    BY <1>7 DEF StepBack, WIDTH
  <2>2. h \in 1 .. Len(hits) /\ hits[h] \in Section /\ hits[h] \in Nat /\ survey.base \in Nat
        /\ a \in Nat /\ a % 4 = 0 /\ a <= hits[h] /\ a = hits[h] - 4 * tries /\ tries \in Nat
    BY <2>1, OneBack
  <2>3. a' \in Nat /\ a' % 4 = 0 /\ a' >= survey.base /\ a' < hits[h]
    BY <2>1, <2>2
  <2>4. a' \in Section
    <3>1. hits[h] <= survey.base + survey.size - 4 /\ survey.size \in Nat
      BY <2>2, Survey
    <3>2. a' \in survey.base .. survey.base + survey.size - 4
      BY <2>2, <2>3, <3>1
    <3> QED BY <2>3, <3>2 DEF Section, WIDTH
  <2>5. \A r \in Section : r > a' /\ r < hits[h] => Scanned(r) # Return
    <3>1. \A r \in Section : r > a - 4 /\ r < hits[h] => Scanned(r) # Return
      BY <2>1, OneBack, WordsBetween
    <3> QED BY <2>1, <3>1
  <2>6. Returns(a', hits[h]) = {r \in {a'} : Scanned(r) = Return}
    <3>1. \A r \in Section : r \in Nat
      BY Survey
    <3>2. ASSUME NEW r \in Returns(a', hits[h]) PROVE r \in {a'} /\ Scanned(r) = Return
      <4>1. r \in Section /\ a' <= r /\ r < hits[h] /\ Scanned(r) = Return
        BY <3>2 DEF Returns
      <4> QED BY <2>3, <2>5, <3>1, <4>1
    <3>3. Scanned(a') = Return => a' \in Returns(a', hits[h])
      BY <2>3, <2>4 DEF Returns
    <3> QED BY <3>2, <3>3
  <2>7. CASE PreviousReturn
    <3>1. /\ hits' = hits /\ starts' = Append(starts, a' + AfterReturn) /\ pc' = "sites"
          /\ Scanned(a') = Return
      BY <2>7 DEF PreviousReturn, Found
    <3>2. PICK r : r = a'
      OBVIOUS
    <3>3. PICK s : s = r + AfterReturn
      OBVIOUS
    <3>4. s = a' + AfterReturn
      BY <3>2, <3>3, Zenon
    <3>5. s \in Nat /\ s - AfterReturn = r
      <4>1. AfterReturn \in Nat
        BY DEF AfterReturn, WIDTH
      <4>2. r \in Nat
        BY <2>3, <3>2
      <4> QED BY <3>3, <4>1, <4>2
    <3>6. Scanned(r) = Return /\ Returns(r, hits[h]) = {r}
      BY <2>6, <3>1, <3>2
    <3>7. Reported(s, hits[h])
      BY <3>5, <3>6, WordAssumption DEF Reported
    <3>8. h <= Len(hits)
      BY <2>2
    <3>9. starts' = Append(starts, s)
      BY <3>1, <3>4, Zenon
    <3> QED BY <1>2, <1>3, <3>1, <3>5, <3>7, <3>8, <3>9
  <2>8. CASE WalkBack
    <3>1. UNCHANGED <<hits, h, starts, pc>> /\ Scanned(a') # Return
      BY <2>8 DEF WalkBack
    <3>2. \A x \in 1 .. Len(starts') : Reported(starts'[x], hits'[x])
      BY <3>1 DEF SiteInv, StartsInv
    <3>3. a' = hits'[h'] - 4 * tries' /\ Returns(a', hits'[h']) = {}
      <4>1. a - 4 = hits[h] - 4 * (tries + 1)
        BY <2>2
      <4>2. Returns(a', hits[h]) = {}
        BY <2>6, <3>1
      <4> QED BY <2>1, <3>1, <4>1, <4>2
    <3> QED BY <1>0, <3>2, <3>3, Restated DEF SiteInv
  <2> QED BY <1>7, <2>7, <2>8
<1>8. CASE ScanFails \/ PassWord \/ ScanDone \/ SitesDone
  <2>1. UNCHANGED <<hits, starts>> /\ pc' # "walk"
    BY <1>8 DEF ScanFails, PassWord, ScanDone, SitesDone, InScan, scanVars
  <2> QED BY <1>1, <2>1
<1>9. CASE ~ScanStep
  <2>1. UNCHANGED <<hits, starts, h, a, tries>> /\ (pc' # "walk" \/ pc' = pc)
    BY <1>9 DEF Next, Scan, vars, PickRoutine, ReadRoutine, ReadOther, ReadFails, Identical,
                SameOpcode, Different, Compared, Terminal, InLoop, scanVars
  <2> QED BY <1>1, <2>1
<1> QED BY <1>4, <1>5, <1>6, <1>7, <1>8, <1>9 DEF ScanStep, PreviousReturn, WalkBack

LEMMA SiteInit == Init => SiteInv
<1> SUFFICES ASSUME Init PROVE SiteInv
  OBVIOUS
<1>1. i = 0 /\ hits = <<>> /\ starts = <<>> /\ pc = "scan"
  BY DEF Init, ScanInit
<1>2. \A v \in Sites : ~(v < survey.base + 0)
  <2>1. survey.base \in Nat /\ \A v \in Section : v \in Nat /\ survey.base <= v
    BY TypeInit, Survey
  <2> QED BY <2>1 DEF Sites
<1>3. StartsInv /\ WalkInv
  BY <1>1 DEF StartsInv, WalkInv
<1>4. ScanInv
  BY <1>1, <1>2 DEF ScanInv
<1> QED BY <1>3, <1>4 DEF SiteInv

\* A report that names no site has looked at every word of the section, and the
\* routine it names for one is where the walk says.
THEOREM SitesReported == Spec => []SitesAreReported
<1>1. TypeInv /\ SiteInv => SitesAreReported
  <2> SUFFICES ASSUME TypeInv, SiteInv, pc \notin {"scan", "failed"} PROVE SitesAreReported
    BY DEF SitesAreReported
  <2>1. \A x, y \in 1 .. Len(hits) : x < y => hits[x] < hits[y]
    BY DEF SiteInv, ScanInv
  <2>2. ASSUME NEW v \in Section
        PROVE  IsSite(Scanned(v)) <=> \E x \in 1 .. Len(hits) : hits[x] = v
    <3>1. v < survey.base + i
      BY Survey DEF SiteInv, ScanInv
    <3>2. v \in Sites <=> IsSite(Scanned(v))
      BY DEF Sites
    <3> QED BY <3>1, <3>2 DEF SiteInv, ScanInv
  <2> QED BY <2>1, <2>2 DEF SitesAreReported, SiteInv, StartsInv, Reported
<1> QED BY <1>1, TypeInit, TypeStep, SiteInit, SiteInvStep, PTL DEF Spec

-----------------------------------------------------------------------------
(* From the report to the comparison                                       *)

\* A line that is followed up is one of a finished report, and what has been
\* read of its routine is what the file holds there.
FollowInv ==
  site > 0 =>
    /\ pc \notin {"scan", "sites", "walk"}
    /\ starts[site] # Unknown
    /\ wa # <<>> => CanRead(exe, starts[site]) /\ wa = Words(exe, starts[site])

LEMMA FollowStep == TypeInv /\ FollowInv /\ [Next]_vars => FollowInv'
<1> SUFFICES ASSUME TypeInv, FollowInv, [Next]_vars PROVE FollowInv'
  OBVIOUS
<1>0. survey' = survey /\ site \in Nat
  <2>1. Len(starts) \in Nat
    BY SeqFacts DEF TypeInv, TypeOK, ScanTypeOK
  <2> QED BY <2>1, FrozenStep DEF TypeInv, TypeOK
<1>1. CASE Scan
  <2>1. pc \in {"scan", "sites", "walk"} /\ site' = site
    BY <1>1 DEF Scan, ScanStep, ScanFails, PassWord, Site, ScanDone, TakeSite, NoReturn,
                PreviousReturn, WalkBack, SitesDone, InScan, StepBack, readVars
  <2> QED BY <1>0, <2>1 DEF FollowInv
<1>2. CASE PickRoutine
  <2>1. pc = "sited" /\ pc' = "words" /\ wa' = wa /\ starts' = starts
        /\ starts[site'] # Unknown
    BY <1>2 DEF PickRoutine, scanVars
  <2>2. wa = <<>>
    BY <2>1 DEF TypeInv, ReadInv
  <2> QED BY <2>1, <2>2 DEF FollowInv
<1>3. CASE ReadRoutine
  <2>1. /\ UNCHANGED <<starts, site, n>> /\ pc' \in {"compared", "words"} /\ pc = "words"
        /\ CanRead(exe, starts[site]) /\ wa' = Words(exe, starts[site])
    BY <1>3 DEF ReadRoutine, scanVars
  <2> QED BY <1>0, <2>1 DEF FollowInv, CanRead, Words, exe
<1>4. CASE ReadOther \/ ReadFails \/ Identical \/ SameOpcode \/ Different \/ Compared
           \/ UNCHANGED vars
  <2>1. UNCHANGED <<starts, site, n, wa>>
        /\ (pc' = pc \/ pc' \in {"compare", "failed", "compared"})
    BY <1>4 DEF ReadOther, ReadFails, Identical, SameOpcode, Different, Compared, InLoop, vars,
                scanVars, readVars, sumVars
  <2> QED BY <1>0, <2>1 DEF FollowInv, CanRead, Words, exe
<1> QED BY <1>1, <1>2, <1>3, <1>4 DEF Next, Terminal

\* The routine of a site starts in the section, a whole number of words away.
LEMMA RoutineFacts ==
  ASSUME TypeInv, SiteInv, FollowInv, site > 0, starts[site] <= hits[site]
  PROVE  /\ hits[site] \in Nat /\ starts[site] \in Nat
         /\ survey.base \in Nat /\ survey.off \in Nat /\ survey.base <= starts[site]
         /\ (hits[site] - starts[site]) % 4 = 0
         /\ IsSite(Scanned(hits[site]))
<1>1. site \in 1 .. Len(starts) /\ site \in 1 .. Len(hits) /\ starts[site] \in Nat
  <2>1. Len(starts) = h - 1 /\ h \in 1 .. Len(hits) + 1 /\ site \in 0 .. Len(starts)
        /\ starts \in Seq(Nat \cup {Unknown})
    BY DEF TypeInv, TypeOK, ScanTypeOK
  <2>2. Len(hits) \in Nat /\ Len(starts) \in Nat
    BY <2>1, Survey
  <2>3. site \in 1 .. Len(starts) /\ site \in 1 .. Len(hits)
    BY <2>1, <2>2
  <2> QED BY <2>1, <2>3 DEF FollowInv
<1>2. hits[site] \in Section /\ IsSite(Scanned(hits[site]))
  BY <1>1 DEF SiteInv, ScanInv, Sites
<1>3. starts[site] - AfterReturn \in Section
  <2>1. starts[site] # Unknown
    BY <1>1, WordAssumption
  <2>2. starts[site] - AfterReturn \in Returns(starts[site] - AfterReturn, hits[site])
    BY <1>1, <2>1 DEF SiteInv, StartsInv, Reported
  <2> QED BY <2>2 DEF Returns
<1>4. AfterReturn \in {4, 8}
  BY DEF AfterReturn, WIDTH
<1>5. survey.base <= starts[site] - AfterReturn /\ (starts[site] - AfterReturn) % 4 = 0
      /\ hits[site] \in Nat /\ hits[site] % 4 = 0 /\ survey.base \in Nat
  BY <1>2, <1>3, Survey
<1>6. survey.base <= starts[site] /\ starts[site] % 4 = 0
  BY <1>1, <1>4, <1>5
<1>7. (hits[site] - starts[site]) % 4 = 0
  <2>1. \A x, y \in Nat : x % 4 = 0 /\ y % 4 = 0 => (x - y) % 4 = 0
    BY FoursAdd
  <2> QED BY <1>1, <1>5, <1>6, <2>1
<1>8. survey.off \in Nat
  BY DEF TypeInv, TypeOK, ScanTypeOK, IsSurvey
<1> QED BY <1>1, <1>2, <1>5, <1>6, <1>7, <1>8

\* Every tool that finds the routine at all finds it where the scan has.
LEMMA OnePlace ==
  ASSUME TypeInv, SiteInv, FollowInv, Aligned, site > 0, starts[site] <= hits[site]
  PROVE  LET v == starts[site]
             o == survey.off + v - survey.base
         IN  /\ exe.kind # "dol" => Mapper(exe, v) = o /\ Mapped(exe, v) \in {o, Nowhere}
             /\ exe.kind = "elf" => ReadsFrom(exe, v) = Mapped(exe, v)
             /\ exe.kind = "dol" => DolOffset(exe, v) \in {o, Nowhere}
<1> DEFINE v == starts[site]
           o == survey.off + v - survey.base
           t == Segments(exe)
<1>1. v \in Nat /\ hits[site] \in Nat /\ survey.base \in Nat /\ survey.off \in Nat
      /\ survey.base <= v /\ v <= hits[site]
  BY RoutineFacts
<1>2. IsExe(exe) /\ exe.heads \in Seq(Heads) /\ exe.sects \in Seq(Heads) /\ t \in Seq(Heads)
      /\ exe.kind \in Kinds
  BY DEF TypeInv, TypeOK, ScanTypeOK, IsSurvey, IsExe, Segments, exe
<1>3. CASE exe.kind = "psx"
  BY <1>1, <1>3, PlaceAssumption DEF Aligned, Mapper, Mapped
<1>4. CASE exe.kind = "raw"
  BY <1>1, <1>4 DEF Aligned, Mapper, Mapped
<1>5. CASE exe.kind \in {"elf", "dol"}
  <2>1. /\ Disjoint(t)
        /\ \E k \in DOMAIN t : t[k].va = survey.base /\ t[k].off = survey.off
                               /\ Holds(t[k], hits[site])
    BY <1>5 DEF Aligned
  <2>2. PICK k \in DOMAIN t : t[k].va = survey.base /\ t[k].off = survey.off
                              /\ Holds(t[k], hits[site])
    BY <2>1
  <2>3. t[k] \in Heads
    BY <1>2, <2>2
  <2>4. Holds(t[k], v)
    BY <1>1, <2>2, <2>3 DEF Holds, Heads
  <2>5. Place(t[k], v) = o
    BY <2>2 DEF Place
  <2>6. First(t, v) = o /\ Last(t, v) = o
    BY <1>1, <1>2, <2>1, <2>4, <2>5, OneHolds
  <2>7. CASE \E x \in DOMAIN exe.heads : exe.heads[x].load
    <3>1. t = exe.heads
      BY <2>7 DEF Segments
    <3> QED BY <1>5, <2>6, <3>1 DEF Mapper, Mapped, ReadsFrom, DolOffset
  <2>8. CASE ~(\E x \in DOMAIN exe.heads : exe.heads[x].load)
    <3>1. Holding(exe.heads, v) = {}
      BY <2>8 DEF Holding, Holds
    <3>2. First(exe.heads, v) = Nowhere /\ Last(exe.heads, v) = Nowhere
      BY <3>1 DEF First, Last
    <3> QED BY <1>5, <2>6, <3>2 DEF Mapper, Mapped, ReadsFrom, DolOffset
  <2> QED BY <2>7, <2>8
<1> QED BY <1>2, <1>3, <1>4, <1>5 DEF Kinds

\* The routine that one tool reports is the one that the others read, and the
\* site is in it where the report says.
THEOREM SiteInRoutine == Spec => []SiteIsCompared
<1>1. Init => FollowInv
  BY DEF Init, FollowInv
<1>2. TypeInv /\ SiteInv /\ FollowInv => SiteIsCompared
  <2> SUFFICES ASSUME TypeInv, SiteInv, FollowInv, site > 0, Aligned, starts[site] <= hits[site]
               PROVE  LET s == starts[site]
                          d == (hits[site] - s) \div WIDTH
                      IN  /\ exe.kind # "dol" => Mapper(exe, s) = survey.off + s - survey.base
                          /\ exe.kind # "dol" => Mapped(exe, s) \in {Mapper(exe, s), Nowhere}
                          /\ exe.kind = "elf" => ReadsFrom(exe, s) = Mapped(exe, s)
                          /\ wa # <<>> /\ d < n =>
                               wa[d + 1] = Scanned(hits[site]) /\ IsSite(wa[d + 1])
    BY DEF SiteIsCompared
  <2> DEFINE s == starts[site]
             o == survey.off + s - survey.base
  <2>1. s \in Nat /\ hits[site] \in Nat /\ survey.base \in Nat /\ survey.off \in Nat
        /\ s <= hits[site] /\ (hits[site] - s) % 4 = 0 /\ IsSite(Scanned(hits[site]))
    BY RoutineFacts
  <2>2. PICK d \in Nat : d = (hits[site] - s) \div 4 /\ 4 * d = hits[site] - s
    BY <2>1
  <2>3. ASSUME wa # <<>>, d < n PROVE wa[d + 1] = Scanned(hits[site])
    <3>1. wa = Words(exe, s) /\ Whereabouts(exe, s) # Nowhere /\ n \in Nat
      BY <2>3 DEF FollowInv, CanRead, TypeInv, TypeOK
    <3>2. Whereabouts(exe, s) = o
      BY <3>1, OnePlace DEF Whereabouts
    <3>3. d + 1 \in 1 .. n /\ d + 1 - 1 = d
      BY <2>2, <2>3, <3>1
    <3>4. wa[d + 1] = WordAt(exe, o + 4 * d)
      <4> HIDE DEF o
      <4>1. \A x \in 1 .. n : Words(exe, s)[x] = WordAt(exe, Whereabouts(exe, s) + 4 * (x - 1))
        BY DEF Words, WIDTH
      <4>2. PICK x \in 1 .. n : x = d + 1 /\ x - 1 = d
        BY <3>3
      <4>3. wa[x] = WordAt(exe, o + 4 * (x - 1))
        BY <3>1, <3>2, <4>1, Zenon
      <4> QED BY <4>2, <4>3, Zenon
    <3>5. o + 4 * d = survey.off + hits[site] - survey.base
      <4>1. PICK x, y, z, u \in Nat : x = survey.off /\ y = s /\ z = survey.base /\ u = hits[site]
        BY <2>1
      <4>2. 4 * d = u - y
        BY <2>2, <4>1
      <4>3. x + y - z + 4 * d = x + u - z
        BY <4>2
      <4> QED BY <4>1, <4>3
    <3> QED BY <3>4, <3>5 DEF Scanned
  <2> QED BY <2>1, <2>2, <2>3, OnePlace DEF WIDTH
<1> QED BY <1>1, <1>2, TypeInit, TypeStep, SiteInit, SiteInvStep, FollowStep, PTL DEF Spec

-----------------------------------------------------------------------------
(* The listing                                                             *)

\* Whoever lists a routine has left the report as it was.
THEOREM ListingFollowsReport == FollowSpec => Spec
<1>1. FollowInit => Init
  BY DEF FollowInit
<1>2. [FollowNext]_followVars => [Next]_vars
  BY DEF FollowNext, followVars
<1> QED BY <1>1, <1>2, PTL DEF FollowSpec, Spec

\* A finished report has a line for every site.
SitedInv == pc = "sited" => Len(starts) = Len(hits)

LEMMA SitedStep == TypeInv /\ SitedInv /\ [Next]_vars => SitedInv'
<1> SUFFICES ASSUME TypeInv, SitedInv, [Next]_vars, pc' = "sited" PROVE Len(starts') = Len(hits')
  BY DEF SitedInv
<1>1. CASE SitesDone
  <2>1. h > Len(hits) /\ starts' = starts /\ hits' = hits
    BY <1>1 DEF SitesDone, scanVars
  <2>2. h \in 1 .. Len(hits) + 1 /\ Len(starts) = h - 1 /\ Len(hits) \in Nat
    BY Survey DEF TypeInv, TypeOK, ScanTypeOK
  <2> QED BY <2>1, <2>2
<1>2. CASE UNCHANGED vars
  BY <1>2 DEF SitedInv, vars, scanVars
<1>3. CASE ~SitesDone /\ ~UNCHANGED vars
  BY <1>3 DEF Next, Scan, ScanStep, ScanFails, PassWord, Site, ScanDone, TakeSite, NoReturn,
              PreviousReturn, WalkBack, StepBack, Found, InScan, PickRoutine, ReadRoutine, ReadOther,
              ReadFails, Identical, SameOpcode, Different, Compared, InLoop, Terminal
<1> QED BY <1>1, <1>2, <1>3

\* Where the reader's interest began, and how far find_prologue has looked.
BackInv ==
  /\ lpc # "idle" => pc = "sited"
  /\ lpc \in {"back", "none", "found"} => seen \in 1 .. Len(hits)
  /\ lpc = "back" =>
       /\ back \in Int /\ back % 4 = 0 /\ back <= OffsetOf(seen)
       /\ \A q \in Near : q <= back
  /\ lpc = "none" => Near = {}
  /\ lpc = "found" => back \in Near /\ \A q \in Near : q <= back

LEMMA SiteOffsets ==
  ASSUME TypeInv, SiteInv, NEW x \in 1 .. Len(hits)
  PROVE  OffsetOf(x) \in Nat /\ OffsetOf(x) % 4 = 0
<1>1. hits[x] \in Section
  BY DEF SiteInv, ScanInv, Sites
<1>2. survey.off \in Nat /\ survey.off % 4 = 0
  BY DEF TypeInv, TypeOK, ScanTypeOK, IsSurvey, WIDTH
<1>3. hits[x] \in Nat /\ hits[x] % 4 = 0 /\ survey.base <= hits[x]
      /\ survey.base \in Nat /\ survey.base % 4 = 0
  BY <1>1, Survey
<1>4. \A p, q, r \in Nat : p % 4 = 0 /\ q % 4 = 0 /\ r % 4 = 0 /\ r <= q
        => p + q - r \in Nat /\ (p + q - r) % 4 = 0
  OBVIOUS
<1> QED BY <1>2, <1>3, <1>4 DEF OffsetOf

LEMMA BackStep == TypeInv /\ SiteInv /\ BackInv /\ [FollowNext]_followVars => BackInv'
<1> SUFFICES ASSUME TypeInv, SiteInv, BackInv, [FollowNext]_followVars PROVE BackInv'
  OBVIOUS
<1>1. CASE Next /\ lpc = "idle" /\ UNCHANGED listVars
  BY <1>1 DEF BackInv, listVars
<1>2. ASSUME UNCHANGED vars
      PROVE  UNCHANGED <<survey, hits, starts, pc>>
             /\ \A x : OffsetOf(x)' = OffsetOf(x)
             /\ (seen' = seen => Near' = Near)
  BY <1>2 DEF vars, scanVars, OffsetOf, Near, exe
<1>3. CASE UNCHANGED <<vars, lpc, seen, back>>
  BY <1>2, <1>3 DEF BackInv, OffsetOf
<1>4. CASE AskPrologue /\ UNCHANGED vars
  <2>1. /\ pc' = "sited" /\ lpc' = "back" /\ hits' = hits
        /\ seen' \in 1 .. Len(hits)
    BY <1>2, <1>4 DEF AskPrologue
  <2>2. OffsetOf(seen') \in Nat /\ OffsetOf(seen') % 4 = 0
    BY <2>1, SiteOffsets
  <2>3. back' = OffsetOf(seen') /\ back' \in Int /\ back' % 4 = 0
    BY <1>4, <2>2 DEF AskPrologue
  <2>4. OffsetOf(seen)' = back'
    BY <1>2, <1>4, <2>3 DEF OffsetOf, vars, scanVars
  <2>5. \A q \in Near' : q <= back'
    BY <2>4 DEF Near
  <2>6. back' <= OffsetOf(seen)'
    BY <2>3, <2>4
  <2>7. seen' \in 1 .. Len(hits')
    BY <2>1
  <2> QED BY <2>1, <2>3, <2>5, <2>6, <2>7 DEF BackInv
<1>5. CASE NoPrologueHere /\ UNCHANGED vars
  <2>1. /\ lpc = "back" /\ UNCHANGED <<lpc, seen>> /\ back' = back - 4
        /\ WordAt(exe, back) \notin Prologues
    BY <1>5 DEF NoPrologueHere, InReach, WIDTH
  <2>2. /\ pc = "sited" /\ seen \in 1 .. Len(hits) /\ back \in Int /\ back % 4 = 0
        /\ back <= OffsetOf(seen) /\ \A q \in Near : q <= back
    BY <2>1 DEF BackInv
  <2>3. OffsetOf(seen) \in Nat
    BY <2>2, SiteOffsets
  <2>4. \A q \in Near : q <= back - 4
    <3>1. SUFFICES ASSUME NEW q \in Near PROVE q <= back - 4
      OBVIOUS
    <3>2. q \in Nat /\ q % 4 = 0 /\ q # back /\ q <= back
      BY <2>1, <2>2, <2>3 DEF Near, WIDTH
    <3> QED BY <2>2, <3>2
  <2>5. back' \in Int /\ back' % 4 = 0 /\ back' <= OffsetOf(seen)
    BY <2>1, <2>2, <2>3
  <2>6. OffsetOf(seen)' = OffsetOf(seen) /\ Near' = Near /\ hits' = hits /\ pc' = pc
    BY <1>2, <1>5, <2>1 DEF OffsetOf
  <2> QED BY <2>1, <2>2, <2>4, <2>5, <2>6 DEF BackInv
<1>6. CASE PrologueFound /\ UNCHANGED vars
  <2>1. /\ lpc = "back" /\ lpc' = "found" /\ UNCHANGED <<seen, back>> /\ back >= 0
        /\ OffsetOf(seen) - back < Reach /\ WordAt(exe, back) \in Prologues
    BY <1>6 DEF PrologueFound, InReach
  <2>2. /\ pc = "sited" /\ seen \in 1 .. Len(hits) /\ back \in Int /\ back % 4 = 0
        /\ back <= OffsetOf(seen) /\ \A q \in Near : q <= back
    BY <2>1 DEF BackInv
  <2>3. back \in Near
    BY <2>1, <2>2, SiteOffsets DEF Near, WIDTH
  <2> QED BY <1>2, <1>6, <2>1, <2>2, <2>3 DEF BackInv
<1>7. CASE NoneFound /\ UNCHANGED vars
  <2>1. /\ lpc = "back" /\ lpc' = "none" /\ UNCHANGED <<seen, back>>
        /\ ~(back >= 0 /\ OffsetOf(seen) - back < Reach)
    BY <1>7 DEF NoneFound, InReach
  <2>2. /\ pc = "sited" /\ seen \in 1 .. Len(hits) /\ back \in Int /\ \A q \in Near : q <= back
    BY <2>1 DEF BackInv
  <2>3. Near = {}
    <3>1. SUFFICES ASSUME NEW q \in Near PROVE FALSE
      OBVIOUS
    <3>2. OffsetOf(seen) \in Nat /\ Reach \in Nat
      BY <2>2, SiteOffsets, ListingAssumption
    <3>3. q \in Nat /\ q <= back /\ OffsetOf(seen) - q < Reach
      BY <2>2, <3>2 DEF Near
    <3> QED BY <2>1, <2>2, <3>2, <3>3
  <2> QED BY <1>2, <1>7, <2>1, <2>2, <2>3 DEF BackInv
<1>8. CASE (ListRoutine \/ ListPrologue) /\ UNCHANGED vars
  <2>1. lpc' \in {"unmapped", "list"} /\ pc' = pc /\ (pc = "sited" \/ lpc # "idle")
    BY <1>8, <1>2 DEF ListRoutine, ListPrologue, List
  <2> QED BY <2>1 DEF BackInv
<1>9. CASE Line /\ UNCHANGED vars
  BY <1>3, <1>9 DEF Line
<1>10. CASE ListDone /\ UNCHANGED vars
  <2>1. lpc' \in {"failed", "listed"} /\ pc' = pc /\ lpc # "idle"
    BY <1>2, <1>10 DEF ListDone
  <2> QED BY <2>1 DEF BackInv
<1>11. CASE ListEnd /\ UNCHANGED vars
  BY <1>3, <1>11 DEF ListEnd, listVars
<1>12. CASE UNCHANGED followVars
  BY <1>3, <1>12 DEF followVars, listVars
<1> QED BY <1>1, <1>4, <1>5, <1>6, <1>7, <1>8, <1>9, <1>10, <1>11, <1>12 DEF FollowNext, ListStep

\* find_prologue finds the nearest prologue in front of the site, in the routine
\* that ring_sites.py names if that has one within reach.
THEOREM NearestPrologue == FollowSpec => []PrologueIsNearest
<1>1. FollowInit => TypeInv /\ SiteInv /\ SitedInv /\ BackInv
  <2> SUFFICES ASSUME FollowInit PROVE TypeInv /\ SiteInv /\ SitedInv /\ BackInv
    OBVIOUS
  <2>1. Init /\ pc = "scan" /\ lpc = "idle"
    BY DEF FollowInit, Init, ScanInit
  <2> QED BY <2>1, TypeInit, SiteInit DEF SitedInv, BackInv
<1>2. [FollowNext]_followVars => [Next]_vars
  BY DEF FollowNext, followVars
<1>3. TypeInv /\ SiteInv /\ SitedInv /\ BackInv => PrologueIsNearest
  <2> SUFFICES ASSUME TypeInv, SiteInv, SitedInv, BackInv, lpc = "found", starts[seen] # Unknown,
                      NEW q \in Near, survey.off + starts[seen] - survey.base <= q
               PROVE  survey.off + starts[seen] - survey.base <= back
    BY DEF PrologueIsNearest, BackInv
  <2>1. seen \in 1 .. Len(hits) /\ Len(starts) = Len(hits) /\ back \in Near /\ q <= back
    BY DEF BackInv, SitedInv
  <2>2. starts[seen] \in Nat
    <3>1. starts \in Seq(Nat \cup {Unknown})
      BY DEF TypeInv, TypeOK, ScanTypeOK
    <3> QED BY <2>1, <3>1
  <2>3. survey.off \in Nat /\ survey.base \in Nat
    BY DEF TypeInv, TypeOK, ScanTypeOK, IsSurvey
  <2>4. q \in Int /\ back \in Int
    BY <2>1 DEF Near
  <2> DEFINE s == survey.off + starts[seen] - survey.base
  <2>5. s \in Int
    BY <2>2, <2>3
  <2>6. s <= q
    OBVIOUS
  <2> HIDE DEF s
  <2>7. s <= back
    BY <2>1, <2>4, <2>5, <2>6
  <2> QED BY <2>7 DEF s
<1> QED BY <1>1, <1>2, <1>3, TypeStep, SiteInvStep, SitedStep, BackStep, PTL DEF FollowSpec

\* What has been listed so far, whatever the headers are.
ListTypeOK ==
  /\ lines \in Seq([at : Int, off : Int, word : Word])
  /\ lpc = "idle" => back = Nowhere
  /\ lpc \in {"back", "found"} => back \in Int /\ exe.kind # "dol"
  /\ lpc \in {"list", "listed", "failed"} =>
       /\ asked \in Int /\ Offset(asked) \in Int
       /\ pos = Offset(asked) + 4 * Len(lines)
       /\ back # Nowhere => back \in Int /\ exe.kind # "dol" /\ asked = AddressOf(exe, back)
  /\ lpc \notin {"list", "listed", "failed"} => lines = <<>>

\* Line x of a listing, whose word is that at its offset.
IsLine(e, x) ==
  LET p == Offset(asked) + 4 * (x - 1)
  IN  e = [at   |-> IF exe.kind = "dol" THEN asked + 4 * (x - 1) ELSE AddressOf(exe, p),
           off  |-> p,
           word |-> WordAt(exe, p)]

LinesInv == \A x \in 1 .. Len(lines) : IsLine(lines[x], x)

LEMMA AddressType ==
  ASSUME NEW e, IsExe(e), NEW p \in Int
  PROVE  AddressOf(e, p) \in Int
<1> DEFINE t == e.heads
           S == {k \in DOMAIN t : InFile(t[k], p)}
<1>1. t \in Seq(Heads) /\ e.org \in Nat /\ TEXT \in Nat
  BY PlaceAssumption DEF IsExe
<1>2. CASE e.kind = "elf" /\ S # {}
  <2>1. S \subseteq Nat
    BY <1>1
  <2>2. \E x \in S : \A y \in S : x <= y
    BY <1>2, <2>1, SmallestThere
  <2>3. PICK k : k = CHOOSE x \in S : \A y \in S : x <= y
    OBVIOUS
  <2>4. k \in S
    BY <2>2, <2>3
  <2>5. t[k] \in Heads
    BY <1>1, <2>4
  <2>6. AddressOf(e, p) = t[k].va + p - t[k].off
    BY <1>2, <2>3 DEF AddressOf
  <2> QED BY <2>5, <2>6 DEF Heads
<1>3. CASE e.kind = "psx"
  BY <1>1, <1>3 DEF AddressOf
<1>4. CASE e.kind # "psx" /\ ~(e.kind = "elf" /\ S # {})
  BY <1>4 DEF AddressOf
<1> QED BY <1>2, <1>3, <1>4

LEMMA OffsetType ==
  ASSUME IsExe(exe), NEW v \in Int
  PROVE  Offset(v) \in Int \cup {Nowhere}
<1>1. exe.heads \in Seq(Heads) /\ exe.org \in Nat /\ TEXT \in Nat
  BY PlaceAssumption DEF IsExe
<1>2. Last(exe.heads, v) \in Int \cup {Nowhere} /\ First(exe.heads, v) \in Int \cup {Nowhere}
  BY <1>1, PlaceType
<1>3. CASE exe.kind \in {"dol", "elf"}
  BY <1>2, <1>3 DEF Offset, DolOffset, Sought
<1>4. CASE exe.kind = "psx"
  BY <1>1, <1>4 DEF Offset, Sought
<1>5. CASE exe.kind \notin {"dol", "elf", "psx"}
  BY <1>5 DEF Offset, Sought
<1> QED BY <1>3, <1>4, <1>5

LEMMA LinesStep == TypeInv /\ SiteInv /\ ListTypeOK /\ LinesInv /\ [FollowNext]_followVars
                     => ListTypeOK' /\ LinesInv'
<1> SUFFICES ASSUME TypeInv, SiteInv, ListTypeOK, LinesInv, [FollowNext]_followVars
             PROVE  ListTypeOK' /\ LinesInv'
  OBVIOUS
<1>0. exe' = exe /\ survey' = survey /\ IsExe(exe)
      /\ (\A v : Offset(v)' = Offset(v)) /\ (\A p : WordAt(exe, p)' = WordAt(exe, p))
      /\ (\A p : AddressOf(exe, p)' = AddressOf(exe, p))
  <2>1. [Next]_vars
    BY DEF FollowNext, followVars
  <2>2. survey' = survey /\ exe' = exe
    BY <2>1, FrozenStep DEF exe
  <2>3. IsExe(exe)
    BY DEF TypeInv, TypeOK, ScanTypeOK, IsSurvey, exe
  <2> QED BY <2>2, <2>3 DEF Offset
<1>1. ASSUME UNCHANGED <<back, asked, pos, lines>>,
             \/ lpc' = lpc
             \/ lpc = "list" /\ lpc' \in {"listed", "failed"}
             \/ lpc = "back" /\ lpc' \in {"found", "none"}
      PROVE  ListTypeOK' /\ LinesInv'
  <2>1. LinesInv'
    BY <1>0, <1>1 DEF LinesInv, IsLine
  <2>2. Offset(asked)' = Offset(asked) /\ AddressOf(exe, back)' = AddressOf(exe, back)
    BY <1>0, <1>1 DEF Offset
  <2>3. ListTypeOK'
    BY <1>0, <1>1, <2>2 DEF ListTypeOK
  <2> QED BY <2>1, <2>3
<1>2. CASE Next /\ lpc = "idle" /\ UNCHANGED listVars
  BY <1>1, <1>2 DEF listVars
<1>3. CASE (PrologueFound \/ NoneFound \/ ListDone \/ ListEnd) /\ UNCHANGED vars
  BY <1>1, <1>3 DEF PrologueFound, NoneFound, ListDone, ListEnd, InReach, listVars
<1>4. CASE UNCHANGED followVars
  BY <1>1, <1>4 DEF followVars, listVars
<1>5. ASSUME lines' = lines, lines = <<>>,
             \/ lpc' = "unmapped"
             \/ lpc' = "back" /\ back' \in Int /\ exe.kind # "dol"
      PROVE  ListTypeOK' /\ LinesInv'
  <2>1. lines' \in Seq([at : Int, off : Int, word : Word]) /\ Len(lines') = 0
    BY <1>5
  <2>2. LinesInv'
    BY <2>1 DEF LinesInv
  <2>3. ListTypeOK'
    BY <1>0, <1>5, <2>1 DEF ListTypeOK
  <2> QED BY <2>2, <2>3
<1>6. CASE AskPrologue /\ UNCHANGED vars
  <2>1. /\ lpc = "idle" /\ lpc' = "back" /\ exe.kind # "dol" /\ lines' = lines
        /\ seen' \in 1 .. Len(hits) /\ back' = OffsetOf(seen')
    BY <1>6 DEF AskPrologue
  <2>2. OffsetOf(seen') \in Nat
    BY <2>1, SiteOffsets
  <2>3. back' \in Int
    BY <2>1, <2>2
  <2>4. lines = <<>>
    BY <2>1 DEF ListTypeOK
  <2> QED BY <1>5, <2>1, <2>3, <2>4
<1>7. CASE NoPrologueHere /\ UNCHANGED vars
  <2>1. /\ lpc = "back" /\ lpc' = "back" /\ lines' = lines /\ back' = back - 4
    BY <1>7 DEF NoPrologueHere, InReach, WIDTH
  <2>2. lines = <<>> /\ back' \in Int /\ exe.kind # "dol"
    BY <2>1 DEF ListTypeOK
  <2> QED BY <1>5, <2>1, <2>2
<1>8. ASSUME NEW v \in Int, List(v), lines = <<>>,
             back # Nowhere => back \in Int /\ exe.kind # "dol" /\ v = AddressOf(exe, back)
      PROVE  ListTypeOK' /\ LinesInv'
  <2>1. asked' = v /\ back' = back /\ lines' = lines
    BY <1>8 DEF List
  <2>2. CASE Offset(v) = Nowhere
    BY <1>5, <1>8, <2>1, <2>2 DEF List
  <2>3. CASE Offset(v) # Nowhere
    <3>1. lpc' = "list" /\ pos' = Offset(v) /\ Offset(v) \in Int
      BY <1>0, <1>8, <2>3, OffsetType DEF List
    <3>2. Offset(asked)' = Offset(v)
      BY <1>0, <2>1 DEF Offset
    <3>3. AddressOf(exe, back)' = AddressOf(exe, back)
      BY <1>0, <2>1
    <3>4. lines' \in Seq([at : Int, off : Int, word : Word]) /\ Len(lines') = 0
      BY <1>8, <2>1
    <3>5. pos' = Offset(v) + 4 * Len(lines')
      BY <3>1, <3>4
    <3>6. LinesInv'
      BY <3>4 DEF LinesInv
    <3>7. back' # Nowhere => back' \in Int /\ exe'.kind # "dol" /\ asked' = AddressOf(exe, back)'
      BY <1>0, <1>8, <2>1, <3>3
    <3>8. ListTypeOK'
      BY <3>1, <3>2, <3>4, <3>5, <3>7, <2>1 DEF ListTypeOK
    <3> QED BY <3>6, <3>8
  <2> QED BY <2>2, <2>3
<1>9. CASE ListRoutine /\ UNCHANGED vars
  <2>1. /\ lpc = "idle" /\ seen' \in 1 .. Len(starts) /\ starts[seen'] # Unknown
        /\ List(starts[seen'])
    BY <1>9 DEF ListRoutine
  <2>2. starts[seen'] \in Int
    <3>1. starts \in Seq(Nat \cup {Unknown})
      BY DEF TypeInv, TypeOK, ScanTypeOK
    <3> QED BY <2>1, <3>1
  <2>3. lines = <<>> /\ back = Nowhere
    BY <2>1 DEF ListTypeOK
  <2> QED BY <1>8, <2>1, <2>2, <2>3
<1>10. CASE ListPrologue /\ UNCHANGED vars
  <2>1. lpc = "found" /\ List(AddressOf(exe, back))
    BY <1>10 DEF ListPrologue
  <2>2. lines = <<>> /\ back \in Int /\ exe.kind # "dol"
    BY <2>1 DEF ListTypeOK
  <2>3. AddressOf(exe, back) \in Int
    BY <1>0, <2>2, AddressType
  <2> QED BY <1>8, <2>1, <2>2, <2>3
<1>11. CASE Line /\ UNCHANGED vars
  <2> DEFINE new == [at |-> Labelled, off |-> pos, word |-> WordAt(exe, pos)]
  <2>1. /\ lpc = "list" /\ lpc' = "list" /\ UNCHANGED <<back, asked>> /\ pos' = pos + 4
        /\ Readable(exe, pos) /\ lines' = Append(lines, new)
    BY <1>11 DEF Line, WIDTH
  <2>2. /\ asked \in Int /\ Offset(asked) \in Int /\ pos = Offset(asked) + 4 * Len(lines)
        /\ lines \in Seq([at : Int, off : Int, word : Word]) /\ Len(lines) \in Nat
        /\ back # Nowhere => back \in Int /\ exe.kind # "dol" /\ asked = AddressOf(exe, back)
    BY <2>1 DEF ListTypeOK
  <2>3. pos \in Int
    BY <2>2
  <2>4. WordAt(exe, pos) \in Word /\ AddressOf(exe, pos) \in Int
    BY <1>0, <2>1, <2>3, WordType, AddressType
  <2>5. Labelled \in Int
    BY <2>2, <2>4 DEF Labelled, WIDTH
  <2>6. new \in [at : Int, off : Int, word : Word]
    BY <2>3, <2>4, <2>5
  <2>7. /\ lines' \in Seq([at : Int, off : Int, word : Word]) /\ Len(lines') = Len(lines) + 1
        /\ lines'[Len(lines) + 1] = new
        /\ \A x \in 1 .. Len(lines) : lines'[x] = lines[x]
    <3> HIDE DEF new
    <3> QED BY <2>1, <2>2, <2>6
  <2>8. Offset(asked)' = Offset(asked) /\ AddressOf(exe, back)' = AddressOf(exe, back)
    BY <1>0, <2>1 DEF Offset
  <2>9. IsLine(new, Len(lines) + 1)
    <3>1. Len(lines) + 1 - 1 = Len(lines)
      BY <2>2
    <3> QED BY <2>2, <3>1 DEF IsLine, Labelled, WIDTH
  <2>10. ASSUME NEW x \in 1 .. Len(lines') PROVE IsLine(lines'[x], x)
    <3>1. CASE x = Len(lines) + 1
      BY <2>7, <2>9, <3>1
    <3>2. CASE x # Len(lines) + 1
      <4>1. x \in 1 .. Len(lines)
        BY <2>2, <2>7, <3>2
      <4> QED BY <2>7, <4>1 DEF LinesInv
    <3> QED BY <3>1, <3>2
  <2>11. LinesInv'
    BY <1>0, <2>1, <2>10 DEF LinesInv, IsLine, Offset
  <2>12. pos' = Offset(asked) + 4 * Len(lines')
    BY <2>1, <2>2, <2>7
  <2>13. ListTypeOK'
    BY <1>0, <2>1, <2>2, <2>7, <2>8, <2>12 DEF ListTypeOK
  <2> QED BY <2>11, <2>13
<1> QED BY <1>2, <1>3, <1>4, <1>6, <1>7, <1>9, <1>10, <1>11 DEF FollowNext, ListStep

\* Where no offset is in two segments the first that has it is the one.
LEMMA OneInFile ==
  ASSUME NEW e, IsExe(e), e.kind = "elf", Apart(e.heads), NEW p \in Int,
         NEW k \in DOMAIN e.heads, InFile(e.heads[k], p)
  PROVE  AddressOf(e, p) = e.heads[k].va + p - e.heads[k].off
<1> DEFINE t == e.heads
           S == {x \in DOMAIN t : InFile(t[x], p)}
<1>1. t \in Seq(Heads)
  BY DEF IsExe
<1>2. S = {k}
  <2>1. ASSUME NEW m \in DOMAIN t, InFile(t[m], p), m # k PROVE FALSE
    <3>1. t[m] \in Heads /\ t[k] \in Heads
      BY <1>1, <2>1
    <3>2. t[k].off + t[k].size <= t[m].off \/ t[m].off + t[m].size <= t[k].off
      BY <2>1 DEF Apart, InFile
    <3>3. /\ t[k].off <= p /\ p < t[k].off + t[k].size
          /\ t[m].off <= p /\ p < t[m].off + t[m].size
      BY <2>1 DEF InFile
    <3>4. {t[k].off, t[k].size, t[m].off, t[m].size} \subseteq Nat
      BY <3>1 DEF Heads
    <3> QED BY <3>2, <3>3, <3>4
  <2> QED BY <2>1
<1>3. k \in Nat
  BY <1>1
<1>4. (CHOOSE x \in {k} : \A y \in {k} : x <= y) = k
  BY <1>3
<1> QED BY <1>2, <1>4 DEF AddressOf

\* A listing is of the address it was asked for, and its lines have the addresses
\* and words that the comparison would read, for every executable whose segments
\* overlap neither in memory nor in the file.
THEOREM ListingIsOfAddress == FollowSpec => []ListingAgrees
<1>1. FollowInit => TypeInv /\ SiteInv /\ ListTypeOK /\ LinesInv
  <2> SUFFICES ASSUME FollowInit PROVE TypeInv /\ SiteInv /\ ListTypeOK /\ LinesInv
    OBVIOUS
  <2>1. Init /\ lpc = "idle" /\ lines = <<>> /\ back = Nowhere
    BY DEF FollowInit
  <2> QED BY <2>1, TypeInit, SiteInit DEF ListTypeOK, LinesInv
<1>2. [FollowNext]_followVars => [Next]_vars
  BY DEF FollowNext, followVars
<1>3. TypeInv /\ ListTypeOK /\ LinesInv => ListingAgrees
  <2> SUFFICES ASSUME TypeInv, ListTypeOK, LinesInv, lines # <<>>,
                      Disjoint(exe.heads), Apart(exe.heads)
               PROVE  /\ \A x \in DOMAIN lines :
                           LET v == asked + WIDTH * (x - 1)
                           IN  InSegment(v) =>
                                 /\ lines[x].at = v
                                 /\ lines[x].off = Whereabouts(exe, v)
                                 /\ lines[x].word = WordAt(exe, Whereabouts(exe, v))
                      /\ back # Nowhere
                           /\ (exe.kind = "psx"
                                 \/ \E k \in DOMAIN exe.heads : InFile(exe.heads[k], back))
                           => lines[1].off = back
    BY DEF ListingAgrees
  <2> DEFINE t == exe.heads
  <2>1. /\ IsExe(exe) /\ t \in Seq(Heads) /\ exe.org \in Nat /\ TEXT \in Nat /\ exe.kind \in Kinds
        /\ Nowhere \notin Int
    BY PlaceAssumption DEF TypeInv, TypeOK, ScanTypeOK, IsSurvey, IsExe, exe
  <2>2. /\ asked \in Int /\ Offset(asked) \in Int
        /\ back # Nowhere => back \in Int /\ exe.kind # "dol" /\ asked = AddressOf(exe, back)
        /\ DOMAIN lines = 1 .. Len(lines) /\ Len(lines) \in Nat /\ 1 \in DOMAIN lines
    BY DEF ListTypeOK
  <2>3. \A v \in Int, k \in DOMAIN t :
          Holds(t[k], v) => First(t, v) = Place(t[k], v) /\ Last(t, v) = Place(t[k], v)
    BY <2>1, OneHolds
  <2>4. ASSUME NEW x \in DOMAIN lines, InSegment(asked + 4 * (x - 1))
        PROVE  /\ lines[x].at = asked + 4 * (x - 1)
               /\ lines[x].off = Whereabouts(exe, asked + 4 * (x - 1))
               /\ lines[x].word = WordAt(exe, Whereabouts(exe, asked + 4 * (x - 1)))
    <3>1. PICK v \in Int : v = asked + 4 * (x - 1)
      BY <2>2
    <3>2. PICK p \in Int : p = Offset(asked) + 4 * (x - 1)
      BY <2>2
    <3>3. /\ lines[x].at = IF exe.kind = "dol" THEN v ELSE AddressOf(exe, p)
          /\ lines[x].off = p
          /\ lines[x].word = WordAt(exe, p)
      BY <2>2, <3>1, <3>2 DEF LinesInv, IsLine
    <3>4. p = Offset(asked) + v - asked
      BY <2>2, <3>1, <3>2
    <3>5. SUFFICES p = Whereabouts(exe, v) /\ (exe.kind # "dol" => AddressOf(exe, p) = v)
      BY <3>1, <3>3
    <3>6. CASE exe.kind = "psx"
      <4>1. Offset(asked) = TEXT + asked - exe.org
        BY <2>1, <2>2, <3>6 DEF Offset, Sought
      <4>2. p = TEXT + v - exe.org
        BY <2>1, <2>2, <3>4, <4>1
      <4>3. AddressOf(exe, p) = exe.org + p - TEXT
        BY <3>6 DEF AddressOf
      <4>4. Whereabouts(exe, v) = TEXT + v - exe.org
        BY <3>6 DEF Whereabouts, Mapped
      <4> QED BY <2>1, <4>2, <4>3, <4>4
    <3>7. CASE exe.kind \in {"elf", "dol"}
      <4>1. PICK k \in DOMAIN t : Holds(t[k], asked) /\ Holds(t[k], v)
        BY <2>4, <3>1, <3>7 DEF InSegment
      <4>2. t[k] \in Heads
        BY <2>1, <4>1
      <4>3. Offset(asked) = Place(t[k], asked) /\ Whereabouts(exe, v) = Place(t[k], v)
        BY <2>2, <2>3, <3>7, <4>1 DEF Offset, Sought, DolOffset, Whereabouts, Mapped
      <4>4. p = t[k].off + v - t[k].va
        BY <2>2, <3>4, <4>2, <4>3 DEF Place, Heads
      <4>5. InFile(t[k], p)
        BY <4>1, <4>2, <4>4 DEF InFile, Holds, Heads
      <4>6. exe.kind = "elf" => AddressOf(exe, p) = t[k].va + p - t[k].off
        BY <2>1, <4>5, OneInFile
      <4>7. t[k].va + p - t[k].off = v
        BY <4>2, <4>4 DEF Heads
      <4> QED BY <3>7, <4>3, <4>4, <4>6, <4>7 DEF Place
    <3>8. CASE exe.kind = "raw"
      BY <2>1, <2>2, <3>8 DEF Offset, Sought
    <3> QED BY <2>1, <3>6, <3>7, <3>8 DEF Kinds
  <2>5. ASSUME back # Nowhere,
               exe.kind = "psx" \/ \E k \in DOMAIN t : InFile(t[k], back)
        PROVE  lines[1].off = back
    <3>1. lines[1].off = Offset(asked)
      BY <2>2 DEF LinesInv, IsLine
    <3>2. back \in Int /\ exe.kind # "dol" /\ asked = AddressOf(exe, back)
      BY <2>2, <2>5
    <3>3. CASE exe.kind = "psx"
      <4>1. Offset(asked) = TEXT + asked - exe.org
        BY <2>1, <2>2, <3>3 DEF Offset, Sought
      <4>2. asked = exe.org + back - TEXT
        BY <3>2, <3>3 DEF AddressOf
      <4> QED BY <2>1, <3>1, <3>2, <4>1, <4>2
    <3>4. CASE exe.kind = "elf"
      <4>1. PICK k \in DOMAIN t : InFile(t[k], back)
        BY <2>5, <3>4
      <4>2. t[k] \in Heads
        BY <2>1, <4>1
      <4>3. asked = t[k].va + back - t[k].off
        BY <2>1, <3>2, <3>4, <4>1, OneInFile
      <4>4. Holds(t[k], asked)
        BY <3>2, <4>1, <4>2, <4>3 DEF InFile, Holds, Heads
      <4>5. Offset(asked) = t[k].off + asked - t[k].va
        BY <2>2, <2>3, <3>4, <4>4 DEF Offset, Sought, Place
      <4> QED BY <3>1, <3>2, <4>2, <4>3, <4>5 DEF Heads
    <3>5. CASE exe.kind = "raw"
      BY <2>1, <2>2, <3>5 DEF Offset, Sought
    <3> QED BY <2>1, <3>2, <3>3, <3>4, <3>5 DEF Kinds
  <2> QED BY <2>4, <2>5 DEF WIDTH
<1> QED BY <1>1, <1>2, <1>3, TypeStep, SiteInvStep, LinesStep, PTL DEF FollowSpec

-----------------------------------------------------------------------------
(* One more comparison                                                     *)

\* Comparing the bytes of two routines as well leaves the scan, the comparison of
\* words and the listing alone: the theorems above hold while it is done.
THEOREM MeasuringFollowsReport == MeasureSpec => FollowSpec
<1>1. MeasureInit => FollowInit
  BY DEF MeasureInit
<1>2. [MeasureNext]_<<followVars, xarchVars>> => [FollowNext]_followVars
  BY DEF MeasureNext
<1> QED BY <1>1, <1>2, PTL DEF MeasureSpec, FollowSpec

-----------------------------------------------------------------------------
(* The bytes of a routine                                                  *)

\* xarch.py too finds a whole number or nothing.
LEMMA XPlaceType ==
  ASSUME NEW e, IsExe(e), NEW v \in Nat
  PROVE  XPlace(e, v) \in Int \cup {Nowhere}
<1>1. e.heads \in Seq(Heads) /\ e.org \in Nat /\ TEXT \in Nat
  BY PlaceAssumption DEF IsExe
<1>2. Last(e.heads, v) \in Int \cup {Nowhere} /\ First(e.heads, v) \in Int \cup {Nowhere}
  BY <1>1, PlaceType
<1>3. CASE e.kind = "dol"
  BY <1>2, <1>3 DEF XPlace, Arch, DolOffset
<1>4. CASE e.kind = "elf"
  BY <1>2, <1>4 DEF XPlace, Arch
<1>5. CASE e.kind = "psx"
  BY <1>1, <1>5 DEF XPlace, Arch
<1>6. CASE e.kind \notin {"dol", "elf", "psx"}
  BY <1>6 DEF XPlace, Arch
<1> QED BY <1>3, <1>4, <1>5, <1>6

\* A MIPS routine is read by both tools at one place.
LEMMA SamePlace ==
  ASSUME NEW e, NEW v, e.kind # "dol"
  PROVE  XPlace(e, v) = Whereabouts(e, v) /\ Loaded(e, v) = Words(e, v)
<1>1. XPlace(e, v) = Whereabouts(e, v)
  <2>1. CASE e.kind = "elf"
    BY <2>1 DEF XPlace, Arch, Whereabouts, Mapped
  <2>2. CASE e.kind = "psx"
    BY <2>2 DEF XPlace, Arch, Whereabouts, Mapped
  <2>3. CASE e.kind \notin {"elf", "psx"}
    BY <2>3 DEF XPlace, Arch, Whereabouts, Mapped
  <2> QED BY <2>1, <2>2, <2>3
<1> QED BY <1>1 DEF Loaded, Words

LEMMA ListIs ==
  ASSUME NEW S, NEW k \in Nat, NEW f \in [1 .. k -> S]
  PROVE  f \in Seq(S) /\ Len(f) = k
OBVIOUS

LEMMA ItemOf ==
  ASSUME NEW S, NEW s \in Seq(S), NEW k \in 1 .. Len(s)
  PROVE  s[k] \in S
OBVIOUS

LEMMA SameList ==
  ASSUME NEW S, NEW s \in Seq(S), NEW t \in Seq(S), Len(s) = Len(t),
         \A k \in 1 .. Len(s) : s[k] = t[k]
  PROVE  s = t
OBVIOUS

\* A file is the bytes of its words, one after the other.
LEMMA FileIs ==
  ASSUME NEW e, IsExe(e)
  PROVE  /\ Bytes(e) \in Nat
         /\ File(e) \in Seq(0 .. 255) /\ Len(File(e)) = Bytes(e)
         /\ \A y \in 1 .. Bytes(e) :
              File(e)[y] = Coded[e.data[(y - 1) \div 4 + 1]][((y - 1) % 4) + 1]
<1>1. e.data \in Seq(Word) /\ Len(e.data) \in Nat /\ Bytes(e) = 4 * Len(e.data)
  BY DEF IsExe, Bytes, WIDTH
<1>2. ASSUME NEW y \in 1 .. Bytes(e)
      PROVE  Coded[e.data[(y - 1) \div 4 + 1]][((y - 1) % 4) + 1] \in 0 .. 255
  <2>1. (y - 1) \div 4 + 1 \in 1 .. Len(e.data) /\ ((y - 1) % 4) + 1 \in 1 .. 4
    BY <1>1
  <2>2. e.data[(y - 1) \div 4 + 1] \in Word
    BY <1>1, <2>1
  <2>3. \A w \in Word : Coded[w] \in Seq(0 .. 255) /\ Len(Coded[w]) = 4
    BY XarchAssumption DEF WIDTH
  <2>4. ASSUME NEW w \in Word, NEW k \in 1 .. 4 PROVE Coded[w][k] \in 0 .. 255
    BY <2>3, ItemOf
  <2> QED BY <2>1, <2>2, <2>4
<1>3. Bytes(e) \in Nat
  BY <1>1
<1>4. File(e) \in [1 .. Bytes(e) -> 0 .. 255]
  BY <1>2 DEF File, WIDTH
<1>5. File(e) \in Seq(0 .. 255) /\ Len(File(e)) = Bytes(e)
  BY <1>3, <1>4, ListIs
<1> QED BY <1>3, <1>5 DEF File, WIDTH

-----------------------------------------------------------------------------
(* Windows                                                                 *)

\* A slice that is inside is as long as asked for, and holds what is there.
LEMMA Slice ==
  ASSUME NEW S, NEW s \in Seq(S), NEW x \in 0 .. Len(s), NEW y \in x .. Len(s)
  PROVE  /\ SubSeq(s, x + 1, y) \in Seq(S)
         /\ Len(SubSeq(s, x + 1, y)) = y - x
         /\ \A k \in 1 .. y - x : SubSeq(s, x + 1, y)[k] = s[x + k]
<1>1. Len(s) \in Nat
  OBVIOUS
<1>2. x \in Nat /\ y \in Nat /\ x <= y /\ y <= Len(s)
  BY <1>1
<1> QED BY <1>2

LEMMA SliceType ==
  ASSUME NEW S, NEW s \in Seq(S), NEW x \in 0 .. Len(s), NEW y \in 0 .. Len(s)
  PROVE  SubSeq(s, x + 1, y) \in Seq(S)
<1>1. Len(s) \in Nat
  OBVIOUS
<1>2. CASE x <= y
  BY <1>1, <1>2, Slice
<1>3. CASE y < x
  BY <1>1, <1>3
<1> QED BY <1>1, <1>2, <1>3

\* A window of a slice is one of the whole.
LEMMA WindowsOfSlice ==
  ASSUME NEW S, NEW s \in Seq(S), NEW x \in 0 .. Len(s), NEW y \in 0 .. Len(s), NEW m \in Nat
  PROVE  Windows(SubSeq(s, x + 1, y), m) \subseteq Windows(s, m)
<1> DEFINE t == SubSeq(s, x + 1, y)
<1>0. Len(s) \in Nat /\ x \in Nat /\ y \in Nat
  OBVIOUS
<1>1. CASE x <= y
  <2>1. t \in Seq(S) /\ Len(t) = y - x /\ \A k \in 1 .. y - x : t[k] = s[x + k]
    BY <1>0, <1>1, Slice
  <2> HIDE DEF t
  <2>2. ASSUME NEW z \in 0 .. Len(t) - m
        PROVE  SubSeq(t, z + 1, z + m) \in Windows(s, m)
    <3> DEFINE u == SubSeq(t, z + 1, z + m)
               w == SubSeq(s, x + z + 1, x + z + m)
    <3>1. z \in 0 .. Len(t) /\ z + m \in z .. Len(t) /\ x + z \in 0 .. Len(s) - m
          /\ x + z \in 0 .. Len(s) /\ x + z + m \in x + z .. Len(s)
      BY <1>0, <1>1, <2>1
    <3>2. u \in Seq(S) /\ Len(u) = m /\ \A k \in 1 .. m : u[k] = t[z + k]
      BY <2>1, <3>1, Slice
    <3>3. w \in Seq(S) /\ Len(w) = m /\ \A k \in 1 .. m : w[k] = s[x + z + k]
      BY <3>1, Slice
    <3>4. \A k \in 1 .. m : z + k \in 1 .. y - x /\ x + (z + k) = x + z + k
      BY <1>0, <1>1, <2>1
    <3>5. \A k \in 1 .. m : u[k] = w[k]
      BY <2>1, <3>2, <3>3, <3>4
    <3> HIDE DEF u, w
    <3>6. u = w
      BY <3>2, <3>3, <3>5
    <3> QED BY <3>1, <3>6 DEF Windows, u, w
  <2> QED
    <3> SUFFICES ASSUME NEW u \in Windows(t, m) PROVE u \in Windows(s, m)
      BY DEF t
    <3>1. PICK z \in 0 .. Len(t) - m : u = SubSeq(t, z + 1, z + m)
      BY DEF Windows
    <3> QED BY <2>2, <3>1
<1>2. CASE y < x
  <2>1. t = <<>>
    BY <1>0, <1>2
  <2> HIDE DEF t
  <2>2. ASSUME NEW z \in 0 .. Len(t) - m
        PROVE  SubSeq(t, z + 1, z + m) \in Windows(s, m)
    <3>1. z = 0 /\ m = 0
      BY <2>1
    <3>2. SubSeq(t, 1, 0) = <<>> /\ SubSeq(s, 1, 0) = <<>>
      BY <1>0, <2>1
    <3>3. 0 \in 0 .. Len(s) - 0 /\ 0 + 1 = 1 /\ 0 + 0 = 0
      BY <1>0
    <3> QED BY <3>1, <3>2, <3>3 DEF Windows
  <2> QED
    <3> SUFFICES ASSUME NEW u \in Windows(t, m) PROVE u \in Windows(s, m)
      BY DEF t
    <3>1. PICK z \in 0 .. Len(t) - m : u = SubSeq(t, z + 1, z + m)
      BY DEF Windows
    <3> QED BY <2>2, <3>1
<1> QED BY <1>0, <1>1, <1>2

\* LongestShared is the length of a common window, and of a longest one.
LEMMA LongestSharedIs ==
  ASSUME NEW S, NEW s \in Seq(S), NEW t \in Seq(S)
  PROVE  /\ LongestShared(s, t) \in 0 .. Len(s)
         /\ Windows(s, LongestShared(s, t)) \cap Windows(t, LongestShared(s, t)) # {}
         /\ \A m \in 0 .. Len(s) : Windows(s, m) \cap Windows(t, m) # {} => m <= LongestShared(s, t)
<1> DEFINE M == {m \in 0 .. Len(s) : Windows(s, m) \cap Windows(t, m) # {}}
           T == {m + 1 : m \in M}
<1>0. Len(s) \in Nat /\ Len(t) \in Nat
  OBVIOUS
<1>1. 0 \in M
  <2>1. SubSeq(s, 0 + 1, 0 + 0) = <<>> /\ SubSeq(t, 0 + 1, 0 + 0) = <<>>
    BY <1>0
  <2>2. <<>> \in Windows(s, 0) /\ <<>> \in Windows(t, 0)
    <3>1. 0 \in 0 .. Len(s) - 0 /\ 0 \in 0 .. Len(t) - 0
      BY <1>0
    <3> QED BY <2>1, <3>1 DEF Windows
  <2> QED BY <1>0, <2>2
<1>2. \A m \in M : m \in Nat /\ m <= Len(s)
  BY <1>0
<1>3. \E m \in M : \A k \in M : m >= k
  <2> HIDE DEF M
  <2>1. T \subseteq 1 .. Len(s) + 1 /\ T # {} /\ Len(s) + 1 \in Nat
    BY <1>0, <1>1, <1>2
  <2>2. PICK z \in T : \A y \in T : y <= z
    BY <2>1, LargestThere
  <2>3. PICK m \in M : z = m + 1
    OBVIOUS
  <2>4. ASSUME NEW k \in M PROVE m >= k
    <3>1. k + 1 <= m + 1
      BY <2>2, <2>3
    <3> QED BY <1>2, <3>1
  <2> QED BY <2>4
<1>4. LongestShared(s, t) = CHOOSE m \in M : \A k \in M : m >= k
  BY DEF LongestShared, Max
<1>5. LongestShared(s, t) \in M /\ \A k \in M : LongestShared(s, t) >= k
  BY <1>3, <1>4
<1>6. \A k \in M : k <= LongestShared(s, t)
  BY <1>2, <1>5
<1> QED BY <1>5, <1>6

-----------------------------------------------------------------------------
(* The bytes of a run of words                                             *)

\* Whatever the offset, the bytes returned are some slice of the file.
LEMMA RawIs ==
  ASSUME NEW e, IsExe(e), NEW v, XPlace(e, v) \in Int, n \in Nat
  PROVE  \E x, y \in 0 .. Len(File(e)) : Raw(e, v) = SubSeq(File(e), x + 1, y)
<1> DEFINE f == File(e)
           o == XPlace(e, v)
<1>1. Len(f) \in Nat
  BY FileIs
<1> HIDE DEF f, o
<1>2. ASSUME NEW z \in Int PROVE Clip(f, z) \in 0 .. Len(f)
  BY <1>1 DEF Clip
<1>3. o \in Int /\ o + 4 * n \in Int
  BY DEF o
<1>4. Clip(f, o) \in 0 .. Len(f) /\ Clip(f, o + 4 * n) \in 0 .. Len(f)
  BY <1>2, <1>3
<1> QED BY <1>4 DEF Raw, WIDTH, f, o

\* The bytes b are those of the words u.
Renders(b, u) ==
  /\ Len(b) = 4 * n
  /\ \A k \in 1 .. 4 * n : b[k] = Coded[u[(k - 1) \div 4 + 1]][((k - 1) % 4) + 1]

\* Where a routine's words are words of the file, its bytes are those of its words.
LEMMA RawIsCoded ==
  ASSUME NEW e, IsExe(e), NEW v \in Nat, n \in Nat \ {0}, CanLoad(e, v), IsWord(XPlace(e, v))
  PROVE  Renders(Raw(e, v), Loaded(e, v))
<1> DEFINE f == File(e)
           o == XPlace(e, v)
           p == o \div 4
<1>1. o \in Int /\ o >= 0 /\ o % 4 = 0
  BY XPlaceType, PlaceAssumption DEF CanLoad, IsWord, WIDTH
<1>2. p \in Nat /\ o = 4 * p
  BY <1>1
<1>3. /\ Bytes(e) \in Nat /\ f \in Seq(0 .. 255) /\ Len(f) = Bytes(e)
      /\ \A y \in 1 .. Bytes(e) : f[y] = Coded[e.data[(y - 1) \div 4 + 1]][((y - 1) % 4) + 1]
  BY FileIs
<1>4. o + 4 * n <= Bytes(e)
  <2>1. n - 1 \in 0 .. n - 1
    OBVIOUS
  <2>2. Readable(e, o + 4 * (n - 1))
    BY <2>1 DEF CanLoad, WIDTH
  <2> HIDE DEF o
  <2>3. o + 4 * (n - 1) >= 0
    BY <1>1
  <2> QED BY <1>1, <1>3, <2>2, <2>3 DEF Readable, Whence, WIDTH
<1>5. Raw(e, v) = SubSeq(f, o + 1, o + 4 * n)
  <2>1. Clip(f, o) = o /\ Clip(f, o + 4 * n) = o + 4 * n
    <3> HIDE DEF o, f
    <3> QED BY <1>1, <1>3, <1>4 DEF Clip
  <2> QED BY <2>1 DEF Raw, WIDTH
<1>6. ASSUME NEW d \in 1 .. n PROVE Loaded(e, v)[d] = e.data[p + d]
  <2>1. Loaded(e, v)[d] = WordAt(e, o + 4 * (d - 1))
    BY DEF Loaded, WIDTH
  <2> HIDE DEF o, p
  <2>2. o + 4 * (d - 1) = 4 * (p + d - 1) /\ p + d - 1 \in Nat
    BY <1>2
  <2>3. Whence(e, o + 4 * (d - 1)) = 4 * (p + d - 1)
    BY <2>2 DEF Whence
  <2>4. (4 * (p + d - 1)) \div 4 + 1 = p + d
    BY <1>2, <2>2
  <2> QED BY <2>1, <2>3, <2>4 DEF WordAt, WIDTH
<1> HIDE DEF f, o, p
<1>7. /\ Len(Raw(e, v)) = 4 * n
      /\ \A k \in 1 .. 4 * n : Raw(e, v)[k] = f[o + k]
  <2>1. o \in 0 .. Len(f) /\ o + 4 * n \in o .. Len(f) /\ (o + 4 * n) - o = 4 * n
    BY <1>1, <1>3, <1>4
  <2> QED BY <1>3, <1>5, <2>1, Slice
<1>8. ASSUME NEW k \in 1 .. 4 * n
      PROVE  Raw(e, v)[k] = Coded[Loaded(e, v)[(k - 1) \div 4 + 1]][((k - 1) % 4) + 1]
  <2>1. o + k \in 1 .. Bytes(e) /\ (k - 1) \div 4 + 1 \in 1 .. n
    BY <1>1, <1>3, <1>4
  <2>2. ((o + k) - 1) \div 4 + 1 = p + ((k - 1) \div 4 + 1) /\ ((o + k) - 1) % 4 = (k - 1) % 4
    <3>1. \A q \in Nat, z \in Nat :
            (4 * q + z) \div 4 = q + (z \div 4) /\ (4 * q + z) % 4 = z % 4
      OBVIOUS
    <3>2. k - 1 \in Nat /\ (o + k) - 1 = 4 * p + (k - 1)
      BY <1>2
    <3>3. ((o + k) - 1) \div 4 = p + ((k - 1) \div 4) /\ ((o + k) - 1) % 4 = (k - 1) % 4
      BY <1>2, <3>1, <3>2
    <3> QED BY <1>2, <3>2, <3>3
  <2>3. Raw(e, v)[k] = Coded[e.data[((o + k) - 1) \div 4 + 1]][(((o + k) - 1) % 4) + 1]
    BY <1>3, <1>7, <2>1
  <2> QED BY <1>6, <2>1, <2>2, <2>3
<1> QED BY <1>7, <1>8 DEF Renders

\* A run of identical words is a run of identical bytes four times as long.
LEMMA RunOfBytes ==
  ASSUME NEW S, NEW s \in Seq(S), NEW t \in Seq(S), NEW u, NEW w, n \in Nat \ {0},
         Renders(s, u), Renders(t, w),
         NEW x \in 1 .. n + 1, NEW r \in Nat, x + r <= n + 1, SameWords(u, w, x, r)
  PROVE  4 * r <= LongestShared(s, t)
<1> DEFINE z == 4 * (x - 1)
           m == 4 * r
           c == SubSeq(s, z + 1, z + m)
           d == SubSeq(t, z + 1, z + m)
<1>0. Len(s) = 4 * n /\ Len(t) = 4 * n
  BY DEF Renders
<1>1. /\ z \in 0 .. Len(s) /\ z + m \in z .. Len(s) /\ (z + m) - z = m /\ m \in 0 .. Len(s)
      /\ z \in 0 .. Len(s) - m /\ m \in Nat
      /\ z \in 0 .. Len(t) /\ z + m \in z .. Len(t) /\ z \in 0 .. Len(t) - m
  BY <1>0
<1>2. \A k \in 1 .. m : ((z + k) - 1) \div 4 + 1 \in x .. x + r - 1 /\ z + k \in 1 .. 4 * n
  OBVIOUS
<1> HIDE DEF z, m
<1>3. /\ c \in Seq(S) /\ Len(c) = m /\ \A k \in 1 .. m : c[k] = s[z + k]
      /\ d \in Seq(S) /\ Len(d) = m /\ \A k \in 1 .. m : d[k] = t[z + k]
  <2>1. z \in 0 .. Len(s) /\ z + m \in z .. Len(s) /\ (z + m) - z = m
    BY <1>1
  <2>2. c \in Seq(S) /\ Len(c) = m /\ \A k \in 1 .. m : c[k] = s[z + k]
    BY <2>1, Slice
  <2>3. z \in 0 .. Len(t) /\ z + m \in z .. Len(t)
    BY <1>1
  <2>4. d \in Seq(S) /\ Len(d) = m /\ \A k \in 1 .. m : d[k] = t[z + k]
    BY <2>1, <2>3, Slice
  <2> QED BY <2>2, <2>4
<1>4. ASSUME NEW k \in 1 .. m PROVE s[z + k] = t[z + k]
  <2>1. z + k \in 1 .. 4 * n
    BY <1>2
  <2>2. u[((z + k) - 1) \div 4 + 1] = w[((z + k) - 1) \div 4 + 1]
    BY <1>2 DEF SameWords
  <2>3. s[z + k] = Coded[u[((z + k) - 1) \div 4 + 1]][(((z + k) - 1) % 4) + 1]
    BY <2>1 DEF Renders
  <2>4. t[z + k] = Coded[w[((z + k) - 1) \div 4 + 1]][(((z + k) - 1) % 4) + 1]
    BY <2>1 DEF Renders
  <2> QED BY <2>2, <2>3, <2>4
<1> HIDE DEF c, d
<1>5. c = d
  <2>1. \A k \in 1 .. Len(c) : c[k] = d[k]
    BY <1>3, <1>4
  <2> QED BY <1>3, <2>1, SameList
<1>6. c \in Windows(s, m) /\ d \in Windows(t, m)
  BY <1>1 DEF Windows, c, d
<1>7. Windows(s, m) \cap Windows(t, m) # {}
  BY <1>5, <1>6
<1>8. m <= LongestShared(s, t)
  BY <1>1, <1>7, LongestSharedIs
<1> QED BY <1>8 DEF m

-----------------------------------------------------------------------------
(* What is measured                                                        *)

Alike(k) == {y \in 1 .. k : wa[y] = wb[y]}

\* The other routine is read as the first one is, neither of a DOL, and as many
\* identical words have been counted as there are.
OtherInv ==
  /\ pc \in {"words", "compare", "compared"} => site > 0
  /\ pc = "words" => other \in Others /\ (wa # <<>> => exe.kind # "dol")
  /\ wb # <<>> =>
       /\ wa # <<>> /\ exe.kind # "dol" /\ other \in Others
       /\ CanRead(other.exe, other.at) /\ wb = Words(other.exe, other.at)
  /\ ident = Cardinality(Alike(l))

\* One more word of the two routines is alike or is not.
LEMMA AlikeGrows ==
  ASSUME NEW k \in Nat
  PROVE  /\ Cardinality(Alike(0)) = 0
         /\ wa[k + 1] = wb[k + 1] => Cardinality(Alike(k + 1)) = Cardinality(Alike(k)) + 1
         /\ wa[k + 1] # wb[k + 1] => Alike(k + 1) = Alike(k)
<1>0. Cardinality(Alike(0)) = 0
  <2>1. Alike(0) = {}
    BY DEF Alike
  <2> QED BY <2>1, FS_EmptySet
<1>1. IsFiniteSet(Alike(k))
  <2>1. IsFiniteSet(1 .. k)
    BY FS_Interval
  <2>2. Alike(k) \subseteq 1 .. k
    BY DEF Alike
  <2> QED BY <2>1, <2>2, FS_Subset
<1>2. \A y : y \in 1 .. k + 1 <=> y \in 1 .. k \/ y = k + 1
  OBVIOUS
<1>3. k + 1 \notin Alike(k)
  BY DEF Alike
<1>4. CASE wa[k + 1] = wb[k + 1]
  <2>1. Alike(k + 1) = Alike(k) \cup {k + 1}
    BY <1>2, <1>4 DEF Alike
  <2>2. Cardinality(Alike(k + 1)) = Cardinality(Alike(k)) + 1
    BY <1>1, <1>3, <2>1, FS_AddElement
  <2> QED BY <1>0, <1>4, <2>2
<1>5. CASE wa[k + 1] # wb[k + 1]
  <2>1. Alike(k + 1) = Alike(k)
    BY <1>2, <1>5 DEF Alike
  <2> QED BY <1>0, <1>5, <2>1
<1> QED BY <1>4, <1>5

LEMMA OtherStep == TypeInv /\ OtherInv /\ [Next]_vars => OtherInv'
<1> SUFFICES ASSUME TypeInv, OtherInv, [Next]_vars PROVE OtherInv'
  OBVIOUS
<1>0. survey' = survey /\ exe' = exe
  BY FrozenStep DEF exe
<1>1. ASSUME UNCHANGED <<n, other, wa, wb, l, ident, site>>,
             pc' = pc \/ pc' \in {"failed", "scan", "sites", "walk", "sited"}
                      \/ (pc = "compare" /\ pc' = "compared")
      PROVE  OtherInv'
  BY <1>0, <1>1 DEF OtherInv, CanRead, Words, Alike
<1>2. CASE Scan
  <2>1. pc' \in {"failed", "scan", "sites", "walk", "sited"}
    BY <1>2 DEF Scan, ScanStep, ScanFails, PassWord, Site, ScanDone, TakeSite, NoReturn,
                PreviousReturn, WalkBack, SitesDone, InScan, StepBack, Found
  <2> QED BY <1>1, <1>2, <2>1 DEF Scan, readVars, sumVars
<1>3. CASE PickRoutine
  <2>1. /\ pc = "sited" /\ pc' = "words" /\ UNCHANGED <<wa, wb, l, ident>> /\ other' \in Others
        /\ site' \in 1 .. Len(starts)
    BY <1>3 DEF PickRoutine, sumVars
  <2>2. wa = <<>> /\ wb = <<>>
    BY <2>1 DEF TypeInv, ReadInv
  <2>3. ident' = Cardinality(Alike(l))'
    BY <2>1 DEF OtherInv, Alike
  <2>4. site' > 0
    BY <2>1
  <2> QED BY <2>1, <2>2, <2>3, <2>4 DEF OtherInv
<1>4. CASE ReadRoutine
  <2>1. /\ pc = "words" /\ pc' \in {"compared", "words"} /\ UNCHANGED <<site, n, other, wb, l, ident>>
        /\ exe.kind = "dol" => pc' = "compared"
    BY <1>4 DEF ReadRoutine, sumVars
  <2>2. wb = <<>> /\ l = 0 /\ ident = 0
    BY <2>1 DEF TypeInv, ReadInv
  <2>3. Cardinality(Alike(0))' = 0
    <3>1. Alike(0)' = {}
      BY DEF Alike
    <3> QED BY <3>1, FS_EmptySet
  <2>4. site > 0 /\ other \in Others
    BY <2>1 DEF OtherInv
  <2> QED BY <1>0, <2>1, <2>2, <2>3, <2>4 DEF OtherInv
<1>5. CASE ReadOther
  <2>1. /\ pc = "words" /\ pc' = "compare" /\ UNCHANGED <<site, n, other, wa, l, ident>>
        /\ wa # <<>> /\ CanRead(other.exe, other.at) /\ wb' = Words(other.exe, other.at)
    BY <1>5 DEF ReadOther, sumVars
  <2>2. l = 0 /\ ident = 0
    BY <2>1 DEF TypeInv, ReadInv
  <2>3. Cardinality(Alike(0))' = 0
    <3>1. Alike(0)' = {}
      BY DEF Alike
    <3> QED BY <3>1, FS_EmptySet
  <2>4. site > 0 /\ other \in Others /\ exe.kind # "dol"
    BY <2>1 DEF OtherInv
  <2> QED BY <1>0, <2>1, <2>2, <2>3, <2>4 DEF OtherInv, CanRead, Words
<1>6. CASE ReadFails \/ Compared
  BY <1>1, <1>6 DEF ReadFails, Compared, readVars, sumVars
<1>7. CASE Identical \/ SameOpcode \/ Different
  <2>1. /\ UNCHANGED <<site, n, other, wa, wb, pc>> /\ l' = l + 1 /\ l \in Nat
        /\ pc = "compare"
    BY <1>7 DEF Identical, SameOpcode, Different, InLoop, readVars, TypeInv, TypeOK
  <2>2. \/ wa[l + 1] = wb[l + 1] /\ ident' = ident + 1
        \/ wa[l + 1] # wb[l + 1] /\ ident' = ident
    <3>1. Different => wa[l + 1] # wb[l + 1] /\ ident' = ident
      BY DEF Different
    <3> QED BY <1>7, <3>1 DEF Identical, SameOpcode
  <2>3. ident' = Cardinality(Alike(l + 1))
    BY <2>1, <2>2, AlikeGrows DEF OtherInv
  <2>4. ident' = Cardinality(Alike(l))'
    BY <2>1, <2>3 DEF Alike
  <2> QED BY <1>0, <2>1, <2>4 DEF OtherInv, CanRead, Words
<1>8. CASE UNCHANGED vars
  BY <1>1, <1>8 DEF vars, readVars, sumVars
<1> QED BY <1>2, <1>3, <1>4, <1>5, <1>6, <1>7, <1>8 DEF Next, Terminal

\* What has been loaded is what the files hold at the two addresses, which no
\* longer change.
MeasureInv ==
  /\ xpc # "idle" => pc = "compared" /\ against \in Foreign \cup {other}
  /\ xpc \in {"loadB", "score", "scored"} =>
       /\ CanLoad(exe, starts[site])
       /\ xa = Loaded(exe, starts[site]) /\ ba = Raw(exe, starts[site])
  /\ xpc \in {"score", "scored"} =>
       /\ CanLoad(against.exe, against.at)
       /\ xb = Loaded(against.exe, against.at) /\ bb = Raw(against.exe, against.at)
  /\ xpc = "scored" =>
       /\ same = IF Arch(exe) = Arch(against.exe)
                 THEN Cardinality({y \in 1 .. n : xa[y] = xb[y]}) ELSE 0
       /\ common = LongestShared(ba, bb)

LEMMA MeasureStep == MeasureInv /\ [MeasureNext]_<<followVars, xarchVars>> => MeasureInv'
<1> SUFFICES ASSUME MeasureInv, [MeasureNext]_<<followVars, xarchVars>> PROVE MeasureInv'
  OBVIOUS
<1>1. CASE FollowNext /\ xpc = "idle" /\ UNCHANGED xarchVars
  BY <1>1 DEF MeasureInv, xarchVars
<1>2. CASE UNCHANGED followVars /\ (XarchStep \/ UNCHANGED xarchVars)
  <2>1. UNCHANGED <<survey, starts, site, n, other, pc>> /\ exe' = exe
    BY <1>2 DEF followVars, vars, scanVars, readVars, exe
  <2>2. CASE AskXarch
    BY <2>1, <2>2 DEF AskXarch, MeasureInv
  <2>3. CASE LoadA
    BY <2>1, <2>3 DEF LoadA, MeasureInv, CanLoad, Loaded, Raw
  <2>4. CASE LoadB
    BY <2>1, <2>4 DEF LoadB, MeasureInv, CanLoad, Loaded, Raw
  <2>5. CASE LoadFails
    BY <2>1, <2>5 DEF LoadFails, MeasureInv
  <2>6. CASE Score
    BY <2>1, <2>6 DEF Score, MeasureInv, CanLoad, Loaded, Raw
  <2>7. CASE UNCHANGED xarchVars
    BY <2>1, <2>7 DEF xarchVars, MeasureInv, CanLoad, Loaded, Raw
  <2> QED BY <1>2, <2>2, <2>3, <2>4, <2>5, <2>6, <2>7 DEF XarchStep, XarchEnd
<1> QED BY <1>1, <1>2 DEF MeasureNext

\* For every pair of routines that both tools compare, whatever their executables
\* are: the words and the identical ones are the same in both reports, a run of
\* words is no longer than the run of bytes, nor that than what the whole file has.
THEOREM MeasuresAlwaysOrdered == MeasureSpec => []MeasuresAreOrdered
<1>1. MeasureInit => MeasureInv
  BY DEF MeasureInit, XarchInit, MeasureInv
<1>2. Init => OtherInv /\ FollowInv
  <2> SUFFICES ASSUME Init PROVE OtherInv /\ FollowInv
    OBVIOUS
  <2>1. pc = "scan" /\ site = 0 /\ wa = <<>> /\ wb = <<>> /\ l = 0 /\ ident = 0
    BY DEF Init, ScanInit
  <2>2. Alike(0) = {}
    BY DEF Alike
  <2> QED BY <2>1, <2>2, FS_EmptySet DEF OtherInv, FollowInv
<1>3. TypeInv /\ FollowInv /\ OtherInv /\ CompareInv /\ LongestIdentical /\ MeasureInv
        => MeasuresAreOrdered
  <2> SUFFICES ASSUME TypeInv, FollowInv, OtherInv, CompareInv, LongestIdentical, MeasureInv,
                      xpc = "scored"
               PROVE  LET s == starts[site]
                          A == XPlace(exe, s)
                          B == XPlace(against.exe, against.at)
                      IN  /\ wb # <<>> /\ against = other =>
                               /\ xa = wa /\ xb = wb
                               /\ same = ident
                               /\ IsWord(A) /\ IsWord(B) => WIDTH * bestRun <= common
                          /\ common <= LongestShared(ba, File(against.exe))
    BY DEF MeasuresAreOrdered
  <2> DEFINE s == starts[site]
             f == File(against.exe)
  <2>1. /\ pc = "compared" /\ against \in Foreign \cup {other}
        /\ CanLoad(exe, s) /\ xa = Loaded(exe, s) /\ ba = Raw(exe, s)
        /\ CanLoad(against.exe, against.at)
        /\ xb = Loaded(against.exe, against.at) /\ bb = Raw(against.exe, against.at)
        /\ same = IF Arch(exe) = Arch(against.exe)
                  THEN Cardinality({y \in 1 .. n : xa[y] = xb[y]}) ELSE 0
        /\ common = LongestShared(ba, bb)
    BY DEF MeasureInv
  <2>2. site > 0 /\ s \in Nat /\ IsExe(exe) /\ n \in Nat
    <3>1. site > 0
      BY <2>1 DEF OtherInv
    <3>2. starts \in Seq(Nat \cup {Unknown}) /\ site \in 0 .. Len(starts) /\ n \in Nat
          /\ IsSurvey(survey)
      BY DEF TypeInv, TypeOK, ScanTypeOK
    <3>3. site \in 1 .. Len(starts) /\ starts[site] # Unknown
      BY <3>1, <3>2 DEF FollowInv
    <3> QED BY <3>1, <3>2, <3>3 DEF IsSurvey, exe
  <2>3. IsExe(against.exe) /\ against.at \in Nat
    BY <2>1, XarchAssumption DEF TypeInv, TypeOK
  <2>4. XPlace(exe, s) \in Int /\ XPlace(against.exe, against.at) \in Int
    BY <2>1, <2>2, <2>3, XPlaceType DEF CanLoad
  <2>5. /\ File(exe) \in Seq(0 .. 255)
        /\ f \in Seq(0 .. 255)
    BY <2>2, <2>3, FileIs
  <2> HIDE DEF s, f
  <2>6. ba \in Seq(0 .. 255)
    <3>1. PICK x, y \in 0 .. Len(File(exe)) : ba = SubSeq(File(exe), x + 1, y)
      BY <2>1, <2>2, <2>4, RawIs
    <3> QED BY <2>5, <3>1, SliceType
  <2>7. bb \in Seq(0 .. 255) /\ \A m \in Nat : Windows(bb, m) \subseteq Windows(f, m)
    <3>1. PICK x, y \in 0 .. Len(f) : bb = SubSeq(f, x + 1, y)
      BY <2>1, <2>2, <2>3, <2>4, RawIs DEF f
    <3> QED BY <2>5, <3>1, SliceType, WindowsOfSlice
  <2>8. common <= LongestShared(ba, f)
    <3>1. common \in 0 .. Len(ba) /\ Windows(ba, common) \cap Windows(bb, common) # {}
      BY <2>1, <2>6, <2>7, LongestSharedIs
    <3>2. Windows(ba, common) \cap Windows(f, common) # {}
      BY <2>7, <3>1
    <3> QED BY <2>5, <2>6, <3>1, <3>2, LongestSharedIs
  <2>9. ASSUME wb # <<>>, against = other
        PROVE  /\ xa = wa /\ xb = wb /\ same = ident
               /\ IsWord(XPlace(exe, s)) /\ IsWord(XPlace(against.exe, against.at))
                    => WIDTH * bestRun <= common
    <3>1. /\ wa # <<>> /\ exe.kind # "dol" /\ other.exe.kind # "dol"
          /\ wa = Words(exe, s) /\ wb = Words(other.exe, other.at)
      BY <2>2, <2>9, LineageAssumption DEF OtherInv, FollowInv, s
    <3>2. xa = wa /\ xb = wb
      BY <2>1, <2>9, <3>1, SamePlace
    <3>3. Arch(exe) = Arch(against.exe)
      BY <2>9, <3>1 DEF Arch
    <3>4. l = n /\ ident = Cardinality(Alike(l))
      BY <2>1, <2>9 DEF CompareInv, OtherInv
    <3>5. same = ident
      BY <2>1, <3>2, <3>3, <3>4 DEF Alike
    <3>6. ASSUME IsWord(XPlace(exe, s)), IsWord(XPlace(against.exe, against.at))
          PROVE  WIDTH * bestRun <= common
      <4>1. PICK x \in 1 .. n + 1 : x + bestRun <= n + 1 /\ SameWords(wa, wb, x, bestRun)
        BY <2>1, <2>9 DEF LongestIdentical
      <4>2. bestRun \in Nat /\ n \in Nat \ {0}
        <5>1. Len(wb) = n /\ bestRun \in Nat /\ wb \in Seq(Word)
          <6>1. Len(Words(other.exe, other.at)) = n
            BY <2>2, <2>3, <2>9, <3>1, WordsType DEF OtherInv
          <6> QED BY <3>1, <6>1 DEF TypeInv, TypeOK
        <5> QED BY <2>2, <2>9, <5>1
      <4>3. Renders(ba, wa)
        BY <2>1, <2>2, <3>2, <3>6, <4>2, RawIsCoded
      <4>4. Renders(bb, wb)
        BY <2>1, <2>3, <3>2, <3>6, <4>2, RawIsCoded
      <4>5. 4 * bestRun <= LongestShared(ba, bb)
        BY <2>6, <2>7, <4>1, <4>2, <4>3, <4>4, RunOfBytes
      <4> QED BY <2>1, <4>5 DEF WIDTH
    <3> QED BY <3>2, <3>5, <3>6
  <2> QED BY <2>8, <2>9 DEF s, f
<1>5. MeasureSpec => Spec
  BY MeasuringFollowsReport, ListingFollowsReport
<1>6. Init => CompareInv
  BY DEF Init, ScanInit, CompareInv
<1>7. Spec => [](TypeInv /\ FollowInv /\ OtherInv /\ CompareInv /\ LongestIdentical)
  BY <1>2, <1>6, TypeInit, TypeStep, FollowStep, OtherStep, CompareStep, LongestRunOfWords, PTL
     DEF Spec
<1>8. MeasureSpec => []MeasureInv
  BY <1>1, MeasureStep, PTL DEF MeasureSpec
<1> QED BY <1>3, <1>5, <1>7, <1>8, PTL

=============================================================================
