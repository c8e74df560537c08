------------------------------- MODULE Xarch -------------------------------
(***************************************************************************)
(* compare of src/tools/xarch.py: a routine that decoder_lineage.py has    *)
(* compared is compared once more, with the same routine or with one of    *)
(* another machine, by its bytes at any alignment.  The classes of         *)
(* instructions and their ratio, which the docs do not use, are left out.  *)
(***************************************************************************)
EXTENDS Listing, FiniteSets, FiniteSetsExt

CONSTANTS
  Foreign,  \* routines of another machine
  Coded     \* the bytes of a word as they lie in the file

ASSUME XarchAssumption ==
  /\ \A o \in Foreign : IsExe(o.exe) /\ o.at \in Nat
  /\ DOMAIN Coded = Word
  /\ \A w \in Word : Coded[w] \in Seq(0 .. 255) /\ Len(Coded[w]) = WIDTH

VARIABLES
  against,      \* the routine compared with
  xa, xb,       \* the words of both, and their bytes
  ba, bb,
  same,         \* identical words, in place
  common,       \* the longest identical byte run
  xpc

xarchVars == <<against, xa, xb, ba, bb, same, common, xpc>>

XarchInit ==
  /\ against = [exe |-> exe, at |-> 0]
  /\ xa = <<>> /\ xb = <<>>
  /\ ba = <<>> /\ bb = <<>>
  /\ same = 0
  /\ common = 0
  /\ xpc = "idle"

AskXarch ==
  /\ pc = "compared" /\ xpc = "idle"
  /\ against' \in Foreign \cup {other}
  /\ xpc' = "loadA"
  /\ UNCHANGED <<xa, xb, ba, bb, same, common>>

-----------------------------------------------------------------------------
(* load                                                                    *)

Arch(e) == IF e.kind = "dol" THEN "ppc" ELSE "mips"

\* Mutated form of XPlace: the first segment that holds the address decides.
XPlaceFirst(e, v) ==
  CASE Arch(e) = "ppc" -> DolOffset(e, v)
    [] e.kind = "elf"  -> First(e.heads, v)
    [] e.kind = "psx"  -> TEXT + v - e.org
    [] OTHER -> v

XPlace(e, v) ==
  CASE Arch(e) = "ppc" -> DolOffset(e, v)
    [] e.kind = "elf"  -> Last(e.heads, v)
    [] e.kind = "psx"  -> TEXT + v - e.org
    [] OTHER -> v

CanLoad(e, v) ==
  /\ XPlace(e, v) # Nowhere
  /\ \A d \in 0 .. n - 1 : Readable(e, XPlace(e, v) + WIDTH * d)

Loaded(e, v) == [d \in 1 .. n |-> WordAt(e, XPlace(e, v) + WIDTH * (d - 1))]

File(e) ==
  [y \in 1 .. Bytes(e) |-> Coded[e.data[(y - 1) \div WIDTH + 1]][((y - 1) % WIDTH) + 1]]

\* An index of a slice: a negative one counts from the end, and none is past it.
Clip(f, o) ==
  CASE o < 0 -> IF o + Len(f) < 0 THEN 0 ELSE o + Len(f)
    [] o > Len(f) -> Len(f)
    [] OTHER -> o

\* d[off:off + 4 * n]
Raw(e, v) ==
  LET o == XPlace(e, v)
  IN  SubSeq(File(e), Clip(File(e), o) + 1, Clip(File(e), o + WIDTH * n))

LoadA ==
  /\ xpc = "loadA"
  /\ CanLoad(exe, starts[site])
  /\ xa' = Loaded(exe, starts[site])
  /\ ba' = Raw(exe, starts[site])
  /\ xpc' = "loadB"
  /\ UNCHANGED <<against, xb, bb, same, common>>

LoadB ==
  /\ xpc = "loadB"
  /\ CanLoad(against.exe, against.at)
  /\ xb' = Loaded(against.exe, against.at)
  /\ bb' = Raw(against.exe, against.at)
  /\ xpc' = "score"
  /\ UNCHANGED <<against, xa, ba, same, common>>

\* What decoder_lineage.py or this tool's own load has read of A can be read again.
LoadFails ==
  /\ xpc = "loadB"
  /\ ~CanLoad(against.exe, against.at)
  /\ xpc' = "failed"
  /\ UNCHANGED <<against, xa, xb, ba, bb, same, common>>

-----------------------------------------------------------------------------

Windows(s, m) == {SubSeq(s, y + 1, y + m) : y \in 0 .. Len(s) - m}

\* longest_common_bytes, or the longest run of prefix_scan.py.
LongestShared(s, t) ==
  Max({m \in 0 .. Len(s) : Windows(s, m) \cap Windows(t, m) # {}})

Score ==
  /\ xpc = "score"
  /\ same' = IF Arch(exe) = Arch(against.exe)
             THEN Cardinality({y \in 1 .. n : xa[y] = xb[y]}) ELSE 0
  /\ common' = LongestShared(ba, bb)
  /\ xpc' = "scored"
  /\ UNCHANGED <<against, xa, xb, ba, bb>>

XarchEnd == xpc \in {"scored", "failed"} /\ UNCHANGED xarchVars

XarchStep == AskXarch \/ LoadA \/ LoadB \/ LoadFails \/ Score \/ XarchEnd

MeasureInit == FollowInit /\ XarchInit

MeasureNext ==
  \/ FollowNext /\ xpc = "idle" /\ UNCHANGED xarchVars
  \/ XarchStep /\ UNCHANGED followVars

MeasureSpec == MeasureInit /\ [][MeasureNext]_<<followVars, xarchVars>>

-----------------------------------------------------------------------------
(* Properties                                                              *)

\* The offset is that of a word of the file, not counted from its end.
IsWord(o) == o >= 0 /\ o % WIDTH = 0

\* src/tools/README.md:54 has prefix_scan.py supersede the byte comparison of this
\* tool, which itself looks wider than decoder_lineage.py: what the three tools
\* measure of one pair is in that order.  The words are the same ones, so no run
\* of them is longer than the run of bytes, and no run of bytes is longer than
\* what is found anywhere in the file.  Not so for a routine that is read from the
\* end of the file, whose bytes are not those of its words.
MeasuresAreOrdered ==
  xpc = "scored" =>
    LET s == starts[site]
        A == XPlace(exe, s)
        B == XPlace(against.exe, against.at)
    IN  /\ wb # <<>> /\ against = other =>
             /\ xa = wa /\ xb = wb
             /\ same = ident
             /\ IsWord(A) /\ IsWord(B) => WIDTH * bestRun <= common
        /\ common <= LongestShared(ba, File(against.exe))

=============================================================================
