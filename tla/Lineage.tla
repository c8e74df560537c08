------------------------------ MODULE Lineage ------------------------------
(***************************************************************************)
(* src/tools/decoder_lineage.py: a routine that ring_sites.py named is     *)
(* compared word by word with one of another executable.  The address goes *)
(* from one tool to the other through the reader of the report, as         *)
(* docs/06-decoder-lineage.md does, so ring_sites has read the file by     *)
(* --base and --off and this tool reads it by the program headers.         *)
(*                                                                         *)
(* PowerPC routines are read by load of xarch.py, whose own comparison is  *)
(* in Xarch.                                                               *)
(***************************************************************************)
EXTENDS SiteScan

CONSTANTS
  Counts,    \* how many words may be compared
  Others,    \* the routines to compare with: an executable and an address; a DOL
             \* is a blob to words, and so raw
  Mnemonic   \* the mnemonic of a word

ASSUME LineageAssumption ==
  /\ Counts \subseteq Nat \ {0}
  /\ \A o \in Others : IsExe(o.exe) /\ o.exe.kind # "dol" /\ o.at \in Nat
  /\ Mnemonic \in [Word -> STRING]

VARIABLES
  site,    \* the line of the report that is followed up
  n,
  other,
  wa, wb,  \* the words of the two routines
  l,       \* how many of them have been compared
  ident, sameOp, run, bestRun

readVars == <<site, n, other, wa, wb>>
sumVars  == <<l, ident, sameOp, run, bestRun>>
vars     == <<survey, scanVars, pc, readVars, sumVars>>

Init ==
  /\ ScanInit
  /\ site = 0
  /\ n = 0
  /\ other = [exe |-> exe, at |-> 0]
  /\ wa = <<>> /\ wb = <<>>
  /\ l = 0 /\ ident = 0 /\ sameOp = 0 /\ run = 0 /\ bestRun = 0

Scan == ScanStep /\ UNCHANGED <<readVars, sumVars>>

-----------------------------------------------------------------------------
(* words                                                                   *)

\* A line of the report, what to compare it with, and how many words of each.
PickRoutine ==
  /\ pc = "sited"
  /\ \E x \in 1 .. Len(starts) : starts[x] # Unknown /\ site' = x
  /\ other' \in Others
  /\ n' \in Counts
  /\ pc' = "words"
  /\ UNCHANGED <<survey, scanVars, wa, wb, sumVars>>

Whereabouts(e, v) == IF e.kind = "dol" THEN DolOffset(e, v) ELSE Mapped(e, v)

CanRead(e, v) ==
  /\ Whereabouts(e, v) # Nowhere
  /\ \A d \in 0 .. n - 1 : Readable(e, Whereabouts(e, v) + WIDTH * d)

Words(e, v) == [d \in 1 .. n |-> WordAt(e, Whereabouts(e, v) + WIDTH * (d - 1))]

ReadRoutine ==
  /\ pc = "words"
  /\ wa = <<>>
  /\ CanRead(exe, starts[site])
  /\ wa' = Words(exe, starts[site])
  /\ pc' = IF exe.kind = "dol" THEN "compared" ELSE "words"
  /\ UNCHANGED <<survey, scanVars, site, n, other, wb, sumVars>>

ReadOther ==
  /\ pc = "words"
  /\ wa # <<>>
  /\ CanRead(other.exe, other.at)
  /\ wb' = Words(other.exe, other.at)
  /\ pc' = "compare"
  /\ UNCHANGED <<survey, scanVars, site, n, other, wa, sumVars>>

\* SystemExit, or struct.error past the end of the file.
ReadFails ==
  /\ pc = "words"
  /\ IF wa = <<>> THEN ~CanRead(exe, starts[site]) ELSE ~CanRead(other.exe, other.at)
  /\ pc' = "failed"
  /\ UNCHANGED <<survey, scanVars, readVars, sumVars>>

-----------------------------------------------------------------------------
(* The comparison                                                          *)

Greater(x, y) == IF x > y THEN x ELSE y

InLoop == pc = "compare" /\ l < n /\ l' = l + 1

Identical ==
  /\ InLoop
  /\ wa[l + 1] = wb[l + 1]
  /\ ident' = ident + 1
  /\ sameOp' = sameOp + 1
  /\ run' = run + 1
  /\ bestRun' = Greater(bestRun, run')
  /\ UNCHANGED <<survey, scanVars, pc, readVars>>

\* Mutated form of SameOpcode: the run goes on.
SameOpcodeRuns ==
  /\ InLoop
  /\ wa[l + 1] # wb[l + 1]
  /\ Mnemonic[wa[l + 1]] = Mnemonic[wb[l + 1]]
  /\ sameOp' = sameOp + 1
  /\ UNCHANGED <<survey, scanVars, pc, readVars, ident, run, bestRun>>

SameOpcode ==
  /\ InLoop
  /\ wa[l + 1] # wb[l + 1]
  /\ Mnemonic[wa[l + 1]] = Mnemonic[wb[l + 1]]
  /\ sameOp' = sameOp + 1
  /\ run' = 0
  /\ UNCHANGED <<survey, scanVars, pc, readVars, ident, bestRun>>

Different ==
  /\ InLoop
  /\ Mnemonic[wa[l + 1]] # Mnemonic[wb[l + 1]]
  /\ run' = 0
  /\ UNCHANGED <<survey, scanVars, pc, readVars, ident, sameOp, bestRun>>

Compared ==
  /\ pc = "compare"
  /\ l = n
  /\ pc' = "compared"
  /\ UNCHANGED <<survey, scanVars, readVars, sumVars>>

Terminal ==
  /\ \/ pc \in {"failed", "compared"}
     \/ pc = "sited" /\ \A x \in 1 .. Len(starts) : starts[x] = Unknown
  /\ UNCHANGED vars

Next ==
  \/ Scan
  \/ PickRoutine
  \/ ReadRoutine
  \/ ReadOther
  \/ ReadFails
  \/ Identical
  \/ SameOpcode
  \/ Different
  \/ Compared
  \/ Terminal

Spec == Init /\ [][Next]_vars

-----------------------------------------------------------------------------
(* Properties                                                              *)

TypeOK ==
  /\ ScanTypeOK
  /\ pc \in {"scan", "sites", "walk", "sited", "words", "compare", "compared", "failed"}
  /\ IsExe(other.exe) /\ other.at \in Nat
  /\ site \in 0 .. Len(starts)
  /\ {wa, wb} \subseteq Seq(Word)
  /\ {n, l, ident, sameOp, run, bestRun} \subseteq Nat
  /\ pc = "words" => site > 0 /\ starts[site] # Unknown
  /\ pc = "compare" => Len(wa) = n /\ Len(wb) = n /\ l <= n

\* --base and --off are those of a header that ring_sites was pointed at, as in
\* docs/06-decoder-lineage.md:8, the site is inside it, and the executable can
\* be loaded.
Aligned ==
  CASE exe.kind = "psx" -> survey.base = exe.org /\ survey.off = TEXT
    [] exe.kind = "raw" -> survey.base = survey.off
    [] OTHER -> /\ Disjoint(Segments(exe))
                /\ \E k \in DOMAIN Segments(exe) :
                     /\ Segments(exe)[k].va = survey.base
                     /\ Segments(exe)[k].off = survey.off
                     /\ Holds(Segments(exe)[k], hits[site])

\* What one tool finds is what the others look at.  prefix_scan takes its bytes
\* from where ring_sites has read them; so do decoder_lineage and read_vaddr, or
\* they find no such address; and the word they read where the report puts the
\* site in its routine is the site.  Not so for a site in the delay slot of a
\* return, which the report puts in front of the routine it names.
SiteIsCompared ==
  site > 0 /\ Aligned /\ starts[site] <= hits[site] =>
    LET s == starts[site]
        d == (hits[site] - s) \div WIDTH
    IN  /\ exe.kind # "dol" => Mapper(exe, s) = survey.off + s - survey.base
        /\ exe.kind # "dol" => Mapped(exe, s) \in {Mapper(exe, s), Nowhere}
        /\ exe.kind = "elf" => ReadsFrom(exe, s) = Mapped(exe, s)
        /\ wa # <<>> /\ d < n => wa[d + 1] = Scanned(hits[site]) /\ IsSite(wa[d + 1])

SameWords(u, w, x, m) == \A d \in x .. x + m - 1 : u[d] = w[d]

\* The longest identical run is one, and no longer one is anywhere; every
\* identical word has the same opcode, and what is left has neither.
LongestIdentical ==
  pc = "compared" /\ wb # <<>> =>
    /\ \E x \in 1 .. n + 1 : x + bestRun <= n + 1 /\ SameWords(wa, wb, x, bestRun)
    /\ \A x \in 1 .. n, m \in 1 .. n :
         x + m <= n + 1 /\ SameWords(wa, wb, x, m) => m <= bestRun
    /\ bestRun <= ident /\ ident <= sameOp /\ sameOp <= n
    /\ ident = n <=> bestRun = n

=============================================================================
