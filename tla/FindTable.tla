------------------------------ MODULE FindTable ------------------------------
(***************************************************************************)
(* find_table of src/tools/binfs.py: the index of a container is somewhere *)
(* among the words of the executable, with no header and no count.  The    *)
(* search looks for a word equal to the container's size (the sentinel),   *)
(* walks back over non-decreasing bases, keeps the longest walk and trims  *)
(* the zero words in front of it.                                          *)
(*                                                                         *)
(* A word packs an offset, a multiple of ALIGN, and the padding of the     *)
(* member that starts there, below ALIGN (64 in the code).                 *)
(***************************************************************************)
EXTENDS Integers, Sequences

CONSTANTS
  ALIGN,  \* alignment of an offset
  Exes,   \* the executables, as sequences of words
  Sizes   \* the sizes a container may have

ASSUME AlignAssumption == ALIGN \in Nat \ {0}
ASSUME ExesAssumption  == Exes \subseteq Seq(Nat) /\ Sizes \subseteq Nat

VARIABLES
  words, size,  \* the arguments of find_table, the executable unpacked
  i, j,         \* the word under test, and the walk back from it
  out,          \* the walks kept, as pairs of a first and a last index
  first, last,  \* the table: words[first] .. words[last]
  pc

vars == <<words, size, i, j, out, first, last, pc>>

base(v) == v - (v % ALIGN)
pad(v)  == v % ALIGN

Word(x) == words[x + 1]  \* words[x] of the code
n == Len(words)

Init ==
  /\ words \in Exes
  /\ size \in Sizes
  /\ i = 0
  /\ j = 0
  /\ out = <<>>
  /\ first = 0
  /\ last = 0
  /\ pc = "word"

-----------------------------------------------------------------------------
(* The walks                                                               *)

NotSentinel ==
  /\ pc = "word"
  /\ i < n
  /\ Word(i) # size
  /\ i' = i + 1
  /\ UNCHANGED <<words, size, j, out, first, last, pc>>

Sentinel ==
  /\ pc = "word"
  /\ i < n
  /\ Word(i) = size
  /\ j' = i
  /\ pc' = "walk"
  /\ UNCHANGED <<words, size, i, out, first, last>>

\* Mutated form of CanWalk: the bases are not compared.
CanWalkBlind == j > 0

CanWalk == j > 0 /\ base(Word(j - 1)) <= base(Word(j))

Walk ==
  /\ pc = "walk"
  /\ CanWalk
  /\ j' = j - 1
  /\ UNCHANGED <<words, size, i, out, first, last, pc>>

\* A walk of three words or more is a table, a shorter one a stray constant.
Keep ==
  /\ pc = "walk"
  /\ ~CanWalk
  /\ out' = IF i - j >= 2 THEN Append(out, <<j, i>>) ELSE out
  /\ i' = i + 1
  /\ pc' = "word"
  /\ UNCHANGED <<words, size, j, first, last>>

-----------------------------------------------------------------------------
(* The choice                                                              *)

NoTable ==
  /\ pc = "word"
  /\ i >= n
  /\ out = <<>>
  /\ pc' = "none"
  /\ UNCHANGED <<words, size, i, j, out, first, last>>

Length(w) == w[2] - w[1]

\* Mutated form of Longest: the first walk, whatever its length.
LongestFirst(x) == x = 1

\* max() returns the first of the longest.
Longest(x) ==
  /\ \A y \in 1 .. Len(out) : Length(out[y]) <= Length(out[x])
  /\ \A y \in 1 .. x - 1 : Length(out[y]) < Length(out[x])

Choose ==
  /\ pc = "word"
  /\ i >= n
  /\ \E x \in 1 .. Len(out) :
       /\ Longest(x)
       /\ first' = out[x][1]
       /\ last' = out[x][2]
  /\ pc' = "trim"
  /\ UNCHANGED <<words, size, i, j, out>>

\* Mutated form of CanTrim: the second word is not looked at.
CanTrimOne == last - first >= 2 /\ Word(first) = 0

\* len(tab) > 2 and tab[0] == 0 and tab[1] == 0
CanTrim == last - first >= 2 /\ Word(first) = 0 /\ Word(first + 1) = 0

Trim ==
  /\ pc = "trim"
  /\ CanTrim
  /\ first' = first + 1
  /\ UNCHANGED <<words, size, i, j, out, last, pc>>

Return ==
  /\ pc = "trim"
  /\ ~CanTrim
  /\ pc' = "found"
  /\ UNCHANGED <<words, size, i, j, out, first, last>>

Done == pc \in {"none", "found"} /\ UNCHANGED vars  \* returned

Step ==
  \/ NotSentinel
  \/ Sentinel
  \/ Walk
  \/ Keep
  \/ NoTable
  \/ Choose
  \/ Trim
  \/ Return

Next == Step \/ Done

Spec == Init /\ [][Next]_vars

-----------------------------------------------------------------------------
(* What the callers take from the table                                    *)

\* The members of words[a .. b], as Fs.members lists them.
Member(x) ==
  [offset |-> base(Word(x)),
   size   |-> base(Word(x + 1)) - base(Word(x)) - pad(Word(x)),
   pad    |-> pad(Word(x))]

Members(a, b) == {Member(x) : x \in a .. b - 1}

-----------------------------------------------------------------------------
(* Properties                                                              *)

TypeOK ==
  /\ words \in Seq(Nat)
  /\ size \in Nat
  /\ i \in 0 .. n
  /\ j \in 0 .. n
  /\ out \in Seq((0 .. n - 1) \X (0 .. n - 1))
  /\ first \in Nat
  /\ last \in Nat
  /\ pc \in {"word", "walk", "trim", "none", "found"}
  /\ pc = "walk" => i < n /\ j <= i
  /\ pc \in {"trim", "found"} => first < last /\ last < n

\* words[a .. b] is an index as far as the search can tell: it ends in the
\* sentinel and its bases never decrease.
IsTable(a, b) ==
  /\ Word(b) = size
  /\ \A x \in a .. b - 1 : base(Word(x)) <= base(Word(x + 1))

\* What is returned ends in the sentinel and never steps back, so the members
\* listed from it lie one after the other inside the container.
FoundTable == pc = "found" => IsTable(first, last)

\* Nothing is passed over.  If no table is found, no three words in a row are
\* one; if one is found, a longer one exists nowhere in the executable, except
\* by the zero words the trimming took off its front.
NothingLonger ==
  /\ pc = "none" =>
       \A b \in 0 .. n - 1, a \in 0 .. n - 1 : a + 2 <= b => ~IsTable(a, b)
  /\ pc = "found" =>
       \A b \in 0 .. n - 1, a \in 0 .. n - 1 :
         IsTable(a, b) /\ b - a > last - first =>
           \E s \in 0 .. first :
             /\ last - s >= b - a
             /\ \A x \in s .. first - 1 : Word(x) = 0

\* Where a container's index really is: its first member is at offset 0, it
\* ends in the only word equal to the size, and in front of it there are only
\* words of slack, all zero, back to something with a positive base.
Genuine(a, b) ==
  /\ a + 2 <= b
  /\ IsTable(a, b)
  /\ base(Word(a)) = 0
  /\ \A x \in 0 .. n - 1 : Word(x) = size => x = b
  /\ \E s \in 0 .. a :
       /\ \A x \in s .. a - 1 : Word(x) = 0
       /\ s > 0 => base(Word(s - 1)) > 0

Occupied(ms) == {m \in ms : m.size + m.pad > 0}

\* However much slack is in front of the index, the members that occupy any
\* room are found exactly, with their offsets, sizes and padding; slack and
\* trimming only ever add or drop empty ones.
MembersRecovered ==
  \A b \in 0 .. n - 1, a \in 0 .. n - 1 :
    pc \in {"none", "found"} /\ Genuine(a, b) =>
      /\ pc = "found"
      /\ last = b
      /\ Occupied(Members(first, last)) = Occupied(Members(a, b))

\* The comment at binfs.py:67: "at most one leading zero-based word belongs to
\* [the table]; more than one is the alignment slack of whatever sits before
\* the table", so the trimmed table has at most one.
AtMostOneZeroBased ==
  pc = "found" /\ last - first >= 2 =>
    ~(base(Word(first)) = 0 /\ base(Word(first + 1)) = 0)

=============================================================================
