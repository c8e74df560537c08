--------------------------- MODULE FindTableProofs ---------------------------
(***************************************************************************)
(* What TLAPS proves of the table search, for every executable, container  *)
(* size and alignment.                                                     *)
(***************************************************************************)
EXTENDS FindTable, TLAPS

\* The walk in progress has a sentinel at its end and never steps back.
WalkInv == pc = "walk" => IsTable(j, i)

\* Every walk kept is a table of three words or more.
KeptInv ==
  \A y \in 1 .. Len(out) :
    /\ out[y][1] + 2 <= out[y][2]
    /\ IsTable(out[y][1], out[y][2])

\* Every table that ends before the word under test is part of a walk kept.
CoverInv ==
  \A b \in 0 .. n - 1, a \in 0 .. n - 1 :
    b < i /\ a + 2 <= b /\ IsTable(a, b) =>
      \E y \in 1 .. Len(out) : out[y][2] = b /\ out[y][1] <= a

\* The table chosen is the longest walk kept, less the zeros trimmed.
ChosenInv ==
  pc \in {"trim", "found"} =>
    /\ i >= n
    /\ \E y \in 1 .. Len(out) :
         /\ \A z \in 1 .. Len(out) : Length(out[z]) <= Length(out[y])
         /\ last = out[y][2]
         /\ first >= out[y][1]
         /\ first > out[y][1] => \A x \in out[y][1] .. first : Word(x) = 0
    /\ IsTable(first, last)

NoneInv == pc = "none" => i >= n /\ out = <<>>

SearchInv ==
  TypeOK /\ WalkInv /\ KeptInv /\ CoverInv /\ ChosenInv /\ NoneInv

-----------------------------------------------------------------------------
\* The base of a word is a natural number.
LEMMA BaseType ==
  ASSUME NEW v \in Nat
  PROVE  base(v) \in Nat
BY AlignAssumption DEF base

LEMMA WordType ==
  ASSUME TypeOK, NEW x \in 0 .. n - 1
  PROVE  Word(x) \in Nat
BY DEF TypeOK, Word, n

\* What find_table reads of the executable never changes.
LEMMA FrozenStep ==
  ASSUME [Next]_vars
  PROVE  /\ UNCHANGED <<words, size, n>>
         /\ \A x : Word(x)' = Word(x)
         /\ \A a, b : IsTable(a, b)' = IsTable(a, b)
<1>1. UNCHANGED <<words, size>>
  BY DEF Next, Step, Done, vars, NotSentinel, Sentinel, Walk, Keep, NoTable,
         Choose, Trim, Return
<1> QED BY <1>1 DEF n, Word, IsTable

LEMMA SearchInit == Init => SearchInv
<1> SUFFICES ASSUME Init PROVE SearchInv
  OBVIOUS
<1>1. TypeOK
  BY ExesAssumption DEF Init, TypeOK, n
<1>2. WalkInv /\ KeptInv /\ ChosenInv /\ NoneInv
  BY DEF Init, WalkInv, KeptInv, ChosenInv, NoneInv
<1>3. CoverInv
  BY DEF Init, CoverInv
<1> QED BY <1>1, <1>2, <1>3 DEF SearchInv

LEMMA TypeStep == SearchInv /\ [Next]_vars => TypeOK'
<1> SUFFICES ASSUME SearchInv, [Next]_vars PROVE TypeOK'
  OBVIOUS
<1>0. TypeOK /\ UNCHANGED <<words, size, n>> /\ n \in Nat
  BY FrozenStep DEF SearchInv, TypeOK, n
<1>1. CASE NotSentinel \/ NoTable \/ UNCHANGED vars
  BY <1>0, <1>1 DEF TypeOK, NotSentinel, NoTable, vars
<1>2. CASE Sentinel
  BY <1>0, <1>2 DEF TypeOK, Sentinel
<1>3. CASE Walk
  BY <1>0, <1>3 DEF TypeOK, Walk, CanWalk
<1>4. CASE Keep
  <2>1. out' \in Seq((0 .. n - 1) \X (0 .. n - 1))
    BY <1>0, <1>4 DEF TypeOK, Keep
  <2> QED BY <1>0, <1>4, <2>1 DEF TypeOK, Keep
<1>5. CASE Choose
  <2>1. PICK x \in 1 .. Len(out) : first' = out[x][1] /\ last' = out[x][2]
    BY <1>5 DEF Choose
  <2>2. out[x] \in (0 .. n - 1) \X (0 .. n - 1) /\ out[x][1] + 2 <= out[x][2]
    BY <1>0, <2>1 DEF TypeOK, SearchInv, KeptInv
  <2>3. first' \in 0 .. n - 1 /\ last' \in 0 .. n - 1 /\ first' < last'
    BY <1>0, <2>1, <2>2
  <2> QED BY <1>0, <1>5, <2>3 DEF TypeOK, Choose
<1>6. CASE Trim
  BY <1>0, <1>6 DEF TypeOK, Trim, CanTrim
<1>7. CASE Return
  BY <1>0, <1>7 DEF TypeOK, Return
<1> QED
  BY <1>1, <1>2, <1>3, <1>4, <1>5, <1>6, <1>7 DEF Next, Step, Done

LEMMA WalkStep == SearchInv /\ [Next]_vars => WalkInv'
<1> SUFFICES ASSUME SearchInv, [Next]_vars, pc' = "walk"
             PROVE  IsTable(j, i)'
  BY DEF WalkInv
<1>0. TypeOK /\ UNCHANGED <<words, size>>
  BY FrozenStep DEF SearchInv
<1>1. CASE Sentinel
  <2>1. IsTable(i, i)
    BY <1>0, <1>1 DEF Sentinel, IsTable, TypeOK
  <2> QED BY <1>0, <1>1, <2>1 DEF Sentinel, IsTable, Word
<1>2. CASE Walk
  <2>1. IsTable(j, i) /\ j > 0 /\ j <= i /\ j \in Nat /\ i \in Nat
    BY <1>0, <1>2 DEF SearchInv, WalkInv, Walk, CanWalk, TypeOK
  <2>2. base(Word(j - 1)) <= base(Word((j - 1) + 1))
    BY <1>2, <2>1 DEF Walk, CanWalk
  <2>3. IsTable(j - 1, i)
    BY <2>1, <2>2 DEF IsTable
  <2> QED BY <1>0, <1>2, <2>3 DEF Walk, IsTable, Word
<1>3. CASE UNCHANGED vars
  BY <1>0, <1>3 DEF vars, SearchInv, WalkInv, IsTable, Word
<1>4. CASE NotSentinel \/ Keep \/ NoTable \/ Choose \/ Trim \/ Return
  BY <1>4 DEF NotSentinel, Keep, NoTable, Choose, Trim, Return
<1> QED BY <1>1, <1>2, <1>3, <1>4 DEF Next, Step, Done

LEMMA KeptStep == SearchInv /\ [Next]_vars => KeptInv'
<1> SUFFICES ASSUME SearchInv, [Next]_vars PROVE KeptInv'
  OBVIOUS
<1>0. TypeOK /\ \A a, b : IsTable(a, b)' = IsTable(a, b)
  BY FrozenStep DEF SearchInv
<1>1. CASE UNCHANGED out
  BY <1>0, <1>1 DEF SearchInv, KeptInv
<1>2. CASE Keep /\ i - j >= 2
  <2>1. IsTable(j, i) /\ j + 2 <= i
    BY <1>0, <1>2 DEF SearchInv, WalkInv, Keep, TypeOK
  <2>2. out' = Append(out, <<j, i>>) /\ Len(out) \in Nat
    BY <1>0, <1>2 DEF Keep, TypeOK
  <2>3. ASSUME NEW y \in 1 .. Len(out')
        PROVE  out'[y] = <<j, i>> \/ (y \in 1 .. Len(out) /\ out'[y] = out[y])
    BY <1>0, <2>2 DEF TypeOK
  <2> QED BY <1>0, <2>1, <2>3 DEF SearchInv, KeptInv
<1> QED
  BY <1>1, <1>2 DEF Next, Step, Done, vars, NotSentinel, Sentinel, Walk, Keep,
                    NoTable, Choose, Trim, Return

LEMMA CoverStep == SearchInv /\ [Next]_vars => CoverInv'
<1> SUFFICES ASSUME SearchInv, [Next]_vars PROVE CoverInv'
  OBVIOUS
<1>0. /\ TypeOK /\ UNCHANGED <<size, n>> /\ i \in Nat /\ j \in Nat /\ n \in Nat
      /\ \A x : Word(x)' = Word(x)
      /\ \A a, b : IsTable(a, b)' = IsTable(a, b)
  BY FrozenStep DEF SearchInv, TypeOK, n
<1>1. CASE UNCHANGED <<i, out>>
  BY <1>0, <1>1 DEF SearchInv, CoverInv
<1>2. CASE NotSentinel
  <2>1. \A a : ~IsTable(a, i)
    BY <1>2 DEF NotSentinel, IsTable
  <2> SUFFICES ASSUME NEW b \in 0 .. n - 1, NEW a \in 0 .. n - 1,
                      b < i + 1, a + 2 <= b, IsTable(a, b)
               PROVE  \E y \in 1 .. Len(out) : out[y][2] = b /\ out[y][1] <= a
    BY <1>0, <1>2 DEF CoverInv, NotSentinel
  <2>2. b < i
    BY <1>0, <2>1
  <2> QED BY <2>2 DEF SearchInv, CoverInv
<1>3. CASE Keep
  <2>1. \A a \in 0 .. n - 1 : a < j => ~IsTable(a, i)
    <3> SUFFICES ASSUME NEW a \in 0 .. n - 1, a < j, IsTable(a, i) PROVE FALSE
      OBVIOUS
    <3>1. j - 1 \in a .. i - 1 /\ j > 0 /\ (j - 1) + 1 = j
      BY <1>0, <1>3 DEF Keep, TypeOK
    <3>2. base(Word(j - 1)) <= base(Word(j))
      BY <3>1 DEF IsTable
    <3> QED BY <1>3, <3>1, <3>2 DEF Keep, CanWalk
  <2>2. SUFFICES ASSUME NEW b \in 0 .. n - 1, NEW a \in 0 .. n - 1,
                        b < i + 1, a + 2 <= b, IsTable(a, b)
                 PROVE  \E y \in 1 .. Len(out') :
                          out'[y][2] = b /\ out'[y][1] <= a
    BY <1>0, <1>3 DEF CoverInv, Keep
  <2>3. CASE b < i
    <3>1. PICK y \in 1 .. Len(out) : out[y][2] = b /\ out[y][1] <= a
      BY <2>2, <2>3 DEF SearchInv, CoverInv
    <3>2. y \in 1 .. Len(out') /\ out'[y] = out[y]
      BY <1>0, <1>3, <3>1 DEF Keep, TypeOK
    <3> QED BY <3>1, <3>2
  <2>4. CASE b = i
    <3>1. j <= a
      BY <1>0, <2>1, <2>2, <2>4
    <3>2. out' = Append(out, <<j, i>>) /\ Len(out) \in Nat
      BY <1>0, <1>3, <2>2, <2>4, <3>1 DEF Keep, TypeOK
    <3>3. Len(out') = Len(out) + 1 /\ out'[Len(out) + 1] = <<j, i>>
      BY <1>0, <3>2 DEF TypeOK
    <3>4. Len(out) + 1 \in 1 .. Len(out')
      BY <3>2, <3>3
    <3> QED BY <2>4, <3>1, <3>3, <3>4
  <2> QED BY <1>0, <2>2, <2>3, <2>4
<1> QED
  BY <1>1, <1>2, <1>3 DEF Next, Step, Done, vars, Sentinel, Walk, NoTable,
                          Choose, Trim, Return

LEMMA ChosenStep == SearchInv /\ [Next]_vars => ChosenInv'
<1> SUFFICES ASSUME SearchInv, [Next]_vars, pc' \in {"trim", "found"}
             PROVE  ChosenInv'
  BY DEF ChosenInv
<1>0. /\ TypeOK /\ UNCHANGED <<size, n>>
      /\ \A x : Word(x)' = Word(x)
      /\ \A a, b : IsTable(a, b)' = IsTable(a, b)
  BY FrozenStep DEF SearchInv
<1>1. CASE Choose
  <2>1. PICK x \in 1 .. Len(out) :
          Longest(x) /\ first' = out[x][1] /\ last' = out[x][2]
    BY <1>1 DEF Choose
  <2>2. IsTable(out[x][1], out[x][2]) /\ out[x][1] \in Nat
    BY <1>0, <2>1 DEF SearchInv, KeptInv, TypeOK
  <2>3. ~(first' > out[x][1])
    BY <2>1, <2>2
  <2> QED BY <1>0, <1>1, <2>1, <2>2, <2>3 DEF Choose, ChosenInv, Longest, Length
<1>2. CASE Trim
  <2>1. PICK y \in 1 .. Len(out) :
          /\ \A z \in 1 .. Len(out) : Length(out[z]) <= Length(out[y])
          /\ last = out[y][2]
          /\ first >= out[y][1]
          /\ first > out[y][1] => \A x \in out[y][1] .. first : Word(x) = 0
    BY <1>2 DEF SearchInv, ChosenInv, Trim
  <2>2. /\ out[y][1] \in Nat /\ first \in Nat
        /\ Word(first) = 0 /\ Word(first + 1) = 0
    BY <1>0, <1>2, <2>1 DEF TypeOK, Trim, CanTrim
  <2>3. /\ first + 1 >= out[y][1]
        /\ \A x \in out[y][1] .. first + 1 : Word(x) = 0
    BY <2>1, <2>2
  <2>4. IsTable(first + 1, last) /\ i >= n
    BY <1>0, <1>2, <2>2 DEF SearchInv, ChosenInv, IsTable, Trim, TypeOK
  <2> QED BY <1>0, <1>2, <2>1, <2>3, <2>4 DEF Trim, ChosenInv, Length
<1>3. CASE Return \/ UNCHANGED vars
  BY <1>0, <1>3 DEF Return, vars, SearchInv, ChosenInv, Length
<1>4. CASE NotSentinel \/ Sentinel \/ Walk \/ Keep \/ NoTable
  BY <1>4 DEF NotSentinel, Sentinel, Walk, Keep, NoTable
<1> QED BY <1>1, <1>2, <1>3, <1>4 DEF Next, Step, Done

LEMMA NoneStep == SearchInv /\ [Next]_vars => NoneInv'
<1> SUFFICES ASSUME SearchInv, [Next]_vars, pc' = "none" PROVE NoneInv'
  BY DEF NoneInv
<1>0. UNCHANGED n
  BY FrozenStep
<1> QED
  BY <1>0 DEF Next, Step, Done, vars, NotSentinel, Sentinel, Walk, Keep,
              NoTable, Choose, Trim, Return, SearchInv, NoneInv

LEMMA SearchStep == SearchInv /\ [Next]_vars => SearchInv'
BY TypeStep, WalkStep, KeptStep, CoverStep, ChosenStep, NoneStep DEF SearchInv

LEMMA SearchAlways == Spec => []SearchInv
BY SearchInit, SearchStep, PTL DEF Spec

-----------------------------------------------------------------------------
\* Every index of the search stays inside the executable, and what is returned
\* has at least two words.
THEOREM TypeCorrect == Spec => []TypeOK
<1>1. SearchInv => TypeOK
  BY DEF SearchInv
<1> QED BY <1>1, SearchAlways, PTL

\* Whatever the executable holds, the table returned ends in the sentinel and
\* its bases never decrease: no member of it starts before the one before.
THEOREM FoundIsTable == Spec => []FoundTable
<1>1. SearchInv => FoundTable
  BY DEF SearchInv, ChosenInv, FoundTable
<1> QED BY <1>1, SearchAlways, PTL

LEMMA Longer == SearchInv => NothingLonger
<1> SUFFICES ASSUME SearchInv PROVE NothingLonger
  OBVIOUS
<1>1. ASSUME pc = "none",
             NEW b \in 0 .. n - 1, NEW a \in 0 .. n - 1, a + 2 <= b, IsTable(a, b)
      PROVE  FALSE
  <2>1. b < i
    BY <1>1 DEF SearchInv, NoneInv, TypeOK, n
  <2> QED BY <1>1, <2>1 DEF SearchInv, NoneInv, CoverInv
<1>2. ASSUME pc = "found",
             NEW b \in 0 .. n - 1, NEW a \in 0 .. n - 1,
             IsTable(a, b), b - a > last - first
      PROVE  \E s \in 0 .. first :
               /\ last - s >= b - a
               /\ \A x \in s .. first - 1 : Word(x) = 0
  <2>1. TypeOK /\ i >= n /\ first \in Nat /\ last \in Nat /\ first < last
    BY <1>2 DEF SearchInv, ChosenInv, TypeOK
  <2>2. PICK y \in 1 .. Len(out) :
          /\ \A z \in 1 .. Len(out) : Length(out[z]) <= Length(out[y])
          /\ last = out[y][2]
          /\ first >= out[y][1]
          /\ first > out[y][1] => \A x \in out[y][1] .. first : Word(x) = 0
    BY <1>2 DEF SearchInv, ChosenInv
  <2>3. b < i /\ a + 2 <= b
    BY <1>2, <2>1 DEF TypeOK, n
  <2>4. PICK z \in 1 .. Len(out) : out[z][2] = b /\ out[z][1] <= a
    BY <1>2, <2>3 DEF SearchInv, CoverInv
  <2>5. /\ out[y] \in (0 .. n - 1) \X (0 .. n - 1)
        /\ out[z] \in (0 .. n - 1) \X (0 .. n - 1)
    BY <2>1, <2>2, <2>4 DEF TypeOK
  <2>6. out[y][1] \in 0 .. first /\ last - out[y][1] >= b - a
    BY <2>1, <2>2, <2>4, <2>5 DEF Length
  <2>7. \A x \in out[y][1] .. first - 1 : Word(x) = 0
    BY <2>1, <2>2, <2>5
  <2> QED BY <2>6, <2>7
<1> QED BY <1>1, <1>2 DEF NothingLonger

\* find_table gives up only if no three words of the executable are a table
\* for this size, and no table is longer than the one it returns, zeros that
\* were trimmed counted.
THEOREM LongestTableWins == Spec => []NothingLonger
BY Longer, SearchAlways, PTL

\* A zero word followed by a word with base 0 lists a member with no room.
LEMMA ZeroMember ==
  ASSUME NEW x, Word(x) = 0, base(Word(x + 1)) = 0
  PROVE  Member(x).size + Member(x).pad = 0
<1>1. base(0) = 0 /\ pad(0) = 0
  BY AlignAssumption DEF base, pad
<1> QED BY <1>1 DEF Member

LEMMA Recovered == SearchInv => MembersRecovered
<1> SUFFICES ASSUME SearchInv, pc \in {"none", "found"},
                    NEW b \in 0 .. n - 1, NEW a \in 0 .. n - 1, Genuine(a, b)
             PROVE  /\ pc = "found"
                    /\ last = b
                    /\ Occupied(Members(first, last)) = Occupied(Members(a, b))
  BY DEF MembersRecovered
<1>1. /\ TypeOK /\ n \in Nat /\ i >= n /\ i \in Nat
      /\ a + 2 <= b /\ IsTable(a, b) /\ base(Word(a)) = 0
  <2>1. TypeOK /\ n \in Nat /\ i \in Nat
    BY DEF SearchInv, TypeOK, n
  <2>2. i >= n
    BY DEF SearchInv, NoneInv, ChosenInv
  <2>3. a + 2 <= b /\ IsTable(a, b) /\ base(Word(a)) = 0
    BY DEF Genuine
  <2> QED BY <2>1, <2>2, <2>3
<1>2. PICK z \in 1 .. Len(out) : out[z][2] = b /\ out[z][1] <= a
  BY <1>1 DEF SearchInv, CoverInv
<1>3. pc = "found"
  <2> SUFFICES ASSUME pc = "none" PROVE FALSE
    OBVIOUS
  <2>1. out = <<>>
    BY DEF SearchInv, NoneInv
  <2> QED BY <1>2, <2>1
<1>4. PICK y \in 1 .. Len(out) :
        /\ \A x \in 1 .. Len(out) : Length(out[x]) <= Length(out[y])
        /\ last = out[y][2]
        /\ first >= out[y][1]
        /\ first > out[y][1] => \A x \in out[y][1] .. first : Word(x) = 0
  BY <1>3 DEF SearchInv, ChosenInv
<1> DEFINE f == out[y][1]
<1>5. /\ out[y] \in (0 .. n - 1) \X (0 .. n - 1)
      /\ out[z] \in (0 .. n - 1) \X (0 .. n - 1)
      /\ IsTable(f, last)
      /\ first \in Nat /\ last \in Nat /\ first < last
  BY <1>1, <1>2, <1>3, <1>4 DEF TypeOK, SearchInv, KeptInv
<1>6. last = b
  BY <1>4, <1>5 DEF Genuine, IsTable
<1>7. f \in 0 .. a
  BY <1>1, <1>2, <1>4, <1>5, <1>6 DEF Length
<1>8. PICK s \in 0 .. a : /\ \A x \in s .. a - 1 : Word(x) = 0
                          /\ s > 0 => base(Word(s - 1)) > 0
  BY DEF Genuine
<1>9. \A x \in s .. a : base(Word(x)) = 0
  <2>1. base(0) = 0
    BY AlignAssumption DEF base
  <2> QED BY <1>1, <1>8, <2>1
<1>10. f >= s
  <2> SUFFICES ASSUME f < s PROVE FALSE
    BY <1>7
  <2>1. /\ s > 0 /\ base(Word(s - 1)) > 0 /\ base(Word(s)) = 0
        /\ s - 1 \in f .. last - 1 /\ (s - 1) + 1 = s
    BY <1>1, <1>6, <1>7, <1>8, <1>9
  <2>2. base(Word(s - 1)) <= base(Word(s))
    BY <1>5, <2>1 DEF IsTable
  <2>3. base(Word(s - 1)) \in Nat
    <3>1. s - 1 \in 0 .. n - 1
      BY <1>1, <2>1
    <3> QED BY <1>1, <3>1, WordType, BaseType
  <2> QED BY <2>1, <2>2, <2>3
<1> HIDE DEF f
<1>11. \A x \in f .. a - 1 : Word(x) = 0 /\ base(Word(x + 1)) = 0
  BY <1>7, <1>8, <1>9, <1>10
<1>12. \A x \in f .. first - 1 : Word(x) = 0 /\ base(Word(x + 1)) = 0
  <2> SUFFICES ASSUME NEW x \in f .. first - 1
               PROVE  Word(x) = 0 /\ base(Word(x + 1)) = 0
    OBVIOUS
  <2>1. base(0) = 0
    BY AlignAssumption DEF base
  <2>2. f < first /\ x \in f .. first /\ x + 1 \in f .. first
    BY <1>5, <1>7
  <2>3. \A w \in f .. first : Word(w) = 0
    BY <1>4, <2>2 DEF f
  <2> QED BY <2>1, <2>2, <2>3
<1>13. ASSUME NEW x \in f .. b - 1, x < a \/ x < first
       PROVE  ~(Member(x).size + Member(x).pad > 0)
  <2>1. x \in f .. a - 1 \/ x \in f .. first - 1
    BY <1>5, <1>7, <1>13
  <2>2. Word(x) = 0 /\ base(Word(x + 1)) = 0
    BY <1>11, <1>12, <2>1
  <2>3. Member(x).size + Member(x).pad = 0
    BY <2>2, ZeroMember
  <2> QED BY <2>3
<1>14. ASSUME NEW x \in f .. b - 1,
              Member(x).size + Member(x).pad > 0
       PROVE  x \in first .. b - 1 /\ x \in a .. b - 1
  BY <1>5, <1>7, <1>13, <1>14
<1>15. first .. b - 1 \subseteq f .. b - 1 /\ a .. b - 1 \subseteq f .. b - 1
  BY <1>4, <1>5, <1>7 DEF f
<1>16. Occupied(Members(first, b)) = Occupied(Members(a, b))
  BY <1>14, <1>15 DEF Occupied, Members
<1> QED BY <1>3, <1>6, <1>16

\* Wherever the index sits in the executable, and whatever slack is in front of
\* it, the members that occupy any room are recovered exactly.
THEOREM MembersAreRecovered == Spec => []MembersRecovered
BY Recovered, SearchAlways, PTL

=============================================================================
