------------------------------ MODULE TextRuns ------------------------------
(***************************************************************************)
(* The other half of src/tools/leftovers.py: the printable runs of a file, *)
(* filtered, sorted into categories and printed.  The file is the image    *)
(* that MagicSweep has searched for signatures.                            *)
(*                                                                         *)
(* An expression of a category is a set of words, one of which must be in  *)
(* the text.                                                               *)
(***************************************************************************)
EXTENDS MagicSweep

CONSTANTS
  Printable, Clean, Letters,  \* bytes: of a run, of a clean one, and letters
  MIN,         \* the shortest run (8)
  CATEGORIES,  \* names, in the order of the report
  Words,       \* the words of each
  other, All   \* the last category, and no --category

ASSUME TextAssumption ==
  /\ Letters \subseteq Clean /\ Clean \subseteq Printable /\ Printable \subseteq Nat
  /\ MIN \in Nat \ {0}
  /\ CATEGORIES \in Seq({CATEGORIES[c] : c \in DOMAIN CATEGORIES})
  /\ \A c, d \in DOMAIN CATEGORIES : CATEGORIES[c] = CATEGORIES[d] => c = d
  /\ \A c \in DOMAIN CATEGORIES : CATEGORIES[c] # other

VARIABLES
  raw, want,  \* --raw and --category
  at,         \* where the next run is looked for
  rows,       \* the runs kept
  r,          \* the next of them to be sorted
  buckets,    \* the rows of each category
  cat,        \* the next category to be printed
  printed,
  tpc

textVars == <<raw, want, at, rows, r, buckets, cat, printed, tpc>>

\* CATEGORIES + [('other', ())]
Sections == Append(CATEGORIES, other)

Names == {Sections[c] : c \in DOMAIN Sections}

TextInit ==
  /\ raw = FALSE
  /\ want = All
  /\ at = 0
  /\ rows = <<>>
  /\ r = 1
  /\ buckets = [c \in Names |-> <<>>]
  /\ cat = 1
  /\ printed = <<>>
  /\ tpc = "idle"

AskText ==
  /\ tpc = "idle"
  /\ raw' \in BOOLEAN
  /\ want' \in Names \cup {All}
  /\ tpc' = "find"
  /\ UNCHANGED <<at, rows, r, buckets, cat, printed>>

-----------------------------------------------------------------------------
(* strings                                                                 *)

AllPrintable(x, e) == \A y \in x + 1 .. e : image[y] \in Printable

RunStarts == {x \in at .. Len(image) - MIN : AllPrintable(x, x + MIN)}

\* The run that RUN.finditer finds next is image[x .. e - 1].
NextRun(x, e) ==
  /\ x \in RunStarts
  /\ \A y \in RunStarts : x <= y
  /\ e \in x + MIN .. Len(image)
  /\ AllPrintable(x, e)
  /\ e < Len(image) => image[e + 1] \notin Printable

Text(x, e) == SubSeq(image, x + 1, e)

Among(s, S) == {y \in DOMAIN s : s[y] \in S}

IsText(s) ==
  /\ Among(s, Clean) = DOMAIN s
  /\ 2 * Cardinality(Among(s, Letters)) >= Len(s)

KeepRun ==
  /\ tpc = "find"
  /\ \E x \in RunStarts, e \in MIN .. Len(image) :
       /\ NextRun(x, e)
       /\ raw \/ IsText(Text(x, e))
       /\ rows' = Append(rows, [off |-> x, text |-> Text(x, e)])
       /\ at' = e
  /\ UNCHANGED <<raw, want, r, buckets, cat, printed, tpc>>

\* Mutated form of DropRun: the search goes on one byte further.
DropRunByte ==
  /\ tpc = "find"
  /\ \E x \in RunStarts, e \in MIN .. Len(image) :
       /\ NextRun(x, e)
       /\ ~raw /\ ~IsText(Text(x, e))
       /\ at' = x + 1
  /\ UNCHANGED <<raw, want, rows, r, buckets, cat, printed, tpc>>

DropRun ==
  /\ tpc = "find"
  /\ \E x \in RunStarts, e \in MIN .. Len(image) :
       /\ NextRun(x, e)
       /\ ~raw /\ ~IsText(Text(x, e))
       /\ at' = e
  /\ UNCHANGED <<raw, want, rows, r, buckets, cat, printed, tpc>>

NoMoreRuns ==
  /\ tpc = "find"
  /\ RunStarts = {}
  /\ tpc' = "sort"
  /\ UNCHANGED <<raw, want, at, rows, r, buckets, cat, printed>>

-----------------------------------------------------------------------------
(* The categories                                                          *)

Contains(s, w) ==
  \E y \in 0 .. Len(s) - Len(w) : \A z \in DOMAIN w : s[y + z] = w[z]

\* categorise
Categories(s) ==
  {CATEGORIES[c] : c \in {c \in DOMAIN CATEGORIES : \E w \in Words[CATEGORIES[c]] : Contains(s, w)}}

\* categorise(s) or ['other']
Filed(s) == IF Categories(s) = {} THEN {other} ELSE Categories(s)

SortRow ==
  /\ tpc = "sort"
  /\ r <= Len(rows)
  /\ buckets' = [c \in Names |-> IF c \in Filed(rows[r].text)
                                 THEN Append(buckets[c], rows[r]) ELSE buckets[c]]
  /\ r' = r + 1
  /\ UNCHANGED <<raw, want, at, rows, cat, printed, tpc>>

Sorted ==
  /\ tpc = "sort"
  /\ r > Len(rows)
  /\ tpc' = "print"
  /\ UNCHANGED <<raw, want, at, rows, r, buckets, cat, printed>>

Shown(c) == buckets[c] # <<>> /\ want \in {All, c}

PrintCategory ==
  /\ tpc = "print"
  /\ cat <= Len(Sections)
  /\ Shown(Sections[cat])
  /\ printed' = Append(printed, [name |-> Sections[cat], lines |-> buckets[Sections[cat]]])
  /\ cat' = cat + 1
  /\ UNCHANGED <<raw, want, at, rows, r, buckets, tpc>>

PassCategory ==
  /\ tpc = "print"
  /\ cat <= Len(Sections)
  /\ ~Shown(Sections[cat])
  /\ cat' = cat + 1
  /\ UNCHANGED <<raw, want, at, rows, r, buckets, printed, tpc>>

\* The value of --category is in the list of files too, and is opened next.
TextEnds ==
  /\ tpc = "print"
  /\ cat > Len(Sections)
  /\ tpc' = IF want = All THEN "printed" ELSE "raised"
  /\ UNCHANGED <<raw, want, at, rows, r, buckets, cat, printed>>

TextStep ==
  \/ AskText
  \/ KeepRun
  \/ DropRun
  \/ NoMoreRuns
  \/ SortRow
  \/ Sorted
  \/ PrintCategory
  \/ PassCategory
  \/ TextEnds

\* The file is swept, and then its text is looked at.
AuditDone == pc = "done" /\ tpc \in {"printed", "raised"} /\ UNCHANGED <<vars, textVars>>

AuditInit == Init /\ TextInit

AuditNext ==
  \/ Step /\ UNCHANGED textVars
  \/ pc = "done" /\ TextStep /\ UNCHANGED vars
  \/ AuditDone

AuditSpec == AuditInit /\ [][AuditNext]_<<vars, textVars>>

-----------------------------------------------------------------------------
(* Properties                                                              *)

\* image[x .. e - 1] is printable and what is around it is not.
IsRun(x, e) ==
  /\ x + MIN <= e
  /\ AllPrintable(x, e)
  /\ x > 0 => image[x] \notin Printable
  /\ e < Len(image) => image[e + 1] \notin Printable

Kept(x, e) == IsRun(x, e) /\ (raw \/ IsText(Text(x, e)))

\* The report is of whole runs of the file at their true offsets: under each
\* category asked for are all of those in it that pass the filter, each once and
\* in order, and under no category only those that are in no other.
TextIsListed ==
  tpc \in {"printed", "raised"} =>
    /\ \A x, y \in DOMAIN printed : printed[x].name = printed[y].name => x = y
    /\ \A x \in DOMAIN printed :
         LET c == printed[x].name
             s == printed[x].lines
         IN  /\ want \in {All, c}
             /\ \A y, z \in DOMAIN s : y < z => s[y].off < s[z].off
             /\ \A y \in DOMAIN s :
                  /\ Kept(s[y].off, s[y].off + Len(s[y].text))
                  /\ s[y].text = Text(s[y].off, s[y].off + Len(s[y].text))
                  /\ c \in Filed(s[y].text)
    /\ \A x, e \in 0 .. Len(image) :
         Kept(x, e) =>
           \A c \in Filed(Text(x, e)) :
             want \in {All, c} =>
               \E y \in DOMAIN printed :
                 /\ printed[y].name = c
                 /\ \E z \in DOMAIN printed[y].lines :
                      printed[y].lines[z] = [off |-> x, text |-> Text(x, e)]

IsPrintable(p) == \A y \in DOMAIN Patterns[p] : Patterns[p][y] \in Printable

InRow(x, p, row) == row.off <= x /\ x + Len(Patterns[p]) <= row.off + Len(row.text)

\* The sweep and the text agree on what is in the file.  A name that is in a run
\* that was kept is not reported absent, and was found no later than there; and
\* without the filter every offset the sweep prints for a name long enough to be
\* text is in a run.
SweepMeetsText ==
  tpc \notin {"idle", "find"} =>
    \A p \in Signatures :
      /\ \A y \in DOMAIN rows : Contains(rows[y].text, Patterns[p]) =>
           /\ counts[p] > 0
           /\ first[p][1] <= rows[y].off + Len(rows[y].text) - Len(Patterns[p])
      /\ raw /\ IsPrintable(p) /\ Len(Patterns[p]) >= MIN =>
           \A x \in DOMAIN first[p] : \E y \in DOMAIN rows : InRow(first[p][x], p, rows[y])

=============================================================================
