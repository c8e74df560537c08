------------------------------ MODULE SiteScan ------------------------------
(***************************************************************************)
(* src/tools/ring_sites.py: scan looks through an executable for the       *)
(* instructions that load a ring cursor, and routine_start walks back from *)
(* each of them to the return of the routine before it.                    *)
(***************************************************************************)
EXTENDS AddressMaps

CONSTANTS
  Wanted,   \* the words whose low half is 4078 or 4079
  Forms,    \* the words whose opcode takes an immediate that matters
  Return,   \* jr ra, or blr
  Unknown,  \* a routine that was not found
  Limit,    \* how many words routine_start goes back (1024)
  Surveys   \* what the tool may be given, see SurveyAssumption

ASSUME WordAssumption ==
  /\ Wanted \subseteq Word
  /\ Forms \subseteq Word
  /\ Return \in Word \ (Wanted \cap Forms)
  /\ Limit \in Nat
  /\ Unknown \notin Nat

\* An executable, its machine, and --base, --off and --size.
IsSurvey(s) ==
  /\ IsExe(s.exe)
  /\ s.arch \in {"mips", "ppc"}
  /\ {s.base, s.off, s.size} \subseteq Nat
  /\ s.base % WIDTH = 0
  /\ s.off % WIDTH = 0

ASSUME SurveyAssumption == \A s \in Surveys : IsSurvey(s)

VARIABLES
  survey,
  i,      \* the offset scanned
  hits,   \* the addresses of the sites
  h,      \* the site whose routine is looked for
  a,      \* how far back the walk is
  tries,  \* the words it has looked at
  starts, \* the routines found, one for each site before h
  pc

scanVars == <<i, hits, h, a, tries, starts>>

exe == survey.exe

ScanInit ==
  /\ survey \in Surveys
  /\ i = 0
  /\ hits = <<>>
  /\ h = 1
  /\ a = 0
  /\ tries = 0
  /\ starts = <<>>
  /\ pc = "scan"

-----------------------------------------------------------------------------
(* scan                                                                    *)

\* Mutated form of InScan: the last word is not looked at.
InScanShort == pc = "scan" /\ i < survey.size - WIDTH

\* for i in range(0, size - 3, 4)
InScan == pc = "scan" /\ i < survey.size - 3

\* The word at address v, the section starting at --off.
Scanned(v) == WordAt(exe, survey.off + v - survey.base)

IsSite(w) == w \in Wanted /\ w \in Forms

\* --size may be more than the file has.
ScanFails ==
  /\ InScan
  /\ ~Readable(exe, survey.off + i)
  /\ pc' = "failed"
  /\ UNCHANGED <<survey, scanVars>>

PassWord ==
  /\ InScan
  /\ Readable(exe, survey.off + i)
  /\ ~IsSite(Scanned(survey.base + i))
  /\ i' = i + WIDTH
  /\ UNCHANGED <<survey, hits, h, a, tries, starts, pc>>

Site ==
  /\ InScan
  /\ Readable(exe, survey.off + i)
  /\ IsSite(Scanned(survey.base + i))
  /\ hits' = Append(hits, survey.base + i)
  /\ i' = i + WIDTH
  /\ UNCHANGED <<survey, h, a, tries, starts, pc>>

ScanDone ==
  /\ pc = "scan"
  /\ ~InScan
  /\ pc' = "sites"
  /\ UNCHANGED <<survey, scanVars>>

-----------------------------------------------------------------------------
(* routine_start, for each site                                            *)

TakeSite ==
  /\ pc = "sites"
  /\ h <= Len(hits)
  /\ a' = hits[h]
  /\ tries' = 0
  /\ pc' = "walk"
  /\ UNCHANGED <<survey, i, hits, h, starts>>

Found(s) ==
  /\ starts' = Append(starts, s)
  /\ h' = h + 1
  /\ pc' = "sites"
  /\ UNCHANGED <<survey, i, hits>>

\* The loop is over, or the walk has left the section.
NoReturn ==
  /\ pc = "walk"
  /\ \/ tries = Limit /\ UNCHANGED <<a, tries>>
     \/ tries < Limit /\ a - WIDTH < survey.base /\ a' = a - WIDTH /\ tries' = tries + 1
  /\ Found(Unknown)

\* A MIPS return has a delay slot, a PowerPC one does not.
AfterReturn == IF survey.arch = "mips" THEN 2 * WIDTH ELSE WIDTH

StepBack ==
  /\ pc = "walk"
  /\ tries < Limit
  /\ a - WIDTH >= survey.base
  /\ a' = a - WIDTH
  /\ tries' = tries + 1

PreviousReturn ==
  /\ StepBack
  /\ Scanned(a') = Return
  /\ Found(a' + AfterReturn)

WalkBack ==
  /\ StepBack
  /\ Scanned(a') # Return
  /\ UNCHANGED <<survey, i, hits, h, starts, pc>>

SitesDone ==
  /\ pc = "sites"
  /\ h > Len(hits)
  /\ pc' = "sited"
  /\ UNCHANGED <<survey, scanVars>>

ScanStep ==
  \/ ScanFails
  \/ PassWord
  \/ Site
  \/ ScanDone
  \/ TakeSite
  \/ NoReturn
  \/ PreviousReturn
  \/ WalkBack
  \/ SitesDone

-----------------------------------------------------------------------------
(* Properties                                                              *)

ScanTypeOK ==
  /\ IsSurvey(survey)
  /\ i \in Nat
  /\ hits \in Seq(Nat)
  /\ h \in 1 .. Len(hits) + 1
  /\ a \in Int
  /\ tries \in 0 .. Limit
  /\ starts \in Seq(Nat \cup {Unknown})
  /\ Len(starts) = h - 1
  /\ pc = "walk" => h <= Len(hits) /\ a \in Nat /\ a >= survey.base

\* The addresses whose words the scan looks at.
Section == {v \in survey.base .. survey.base + survey.size - WIDTH : v % WIDTH = 0}

Returns(v, w) == {r \in Section : v <= r /\ r < w /\ Scanned(r) = Return}

\* The report names every instruction that loads a cursor, once and in order,
\* and none if there is none, which the docs take for the absence of the
\* decoder.  A routine it names begins behind the last return in front of the
\* site, and it names one unless there is no return within reach.
SitesAreReported ==
  pc \notin {"scan", "failed"} =>
    /\ \A x, y \in 1 .. Len(hits) : x < y => hits[x] < hits[y]
    /\ \A v \in Section : IsSite(Scanned(v)) <=> \E x \in 1 .. Len(hits) : hits[x] = v
    /\ \A x \in 1 .. Len(starts) :
         IF starts[x] = Unknown
         THEN Returns(hits[x] - WIDTH * Limit, hits[x]) = {}
         ELSE /\ Scanned(starts[x] - AfterReturn) = Return
              /\ Returns(starts[x] - AfterReturn, hits[x]) = {starts[x] - AfterReturn}

=============================================================================
