----------------------------- MODULE MCLineage -----------------------------
(***************************************************************************)
(* Five words of code in every kind of executable, in one segment, in two  *)
(* that overlap or not, or in none, scanned to the end of the segment, to  *)
(* the end of the file and past it, and compared with routines that are    *)
(* like it, that cannot be read, or that are read from the wrong end of a  *)
(* file; or listed, from where the report or the prologue in front of the  *)
(* site puts them.                                                         *)
(***************************************************************************)
EXTENDS Xarch

MCWord   == {"nop", "addiu", "daddiu", "lui", "jr", "push"}
MCWanted == {"addiu", "daddiu", "lui"}
MCForms  == {"addiu", "daddiu", "nop"}

\* Two forms of one instruction, which differ in a register.
MCMnemonic == [w \in MCWord |-> IF w = "daddiu" THEN "addiu" ELSE w]

Code == [1 .. 5 -> {"nop", "addiu", "jr"}]

\* Words that load a cursor in an instruction that is not looked at.
Noise ==
  {<<"jr", "nop", "lui", "daddiu", "addiu">>, <<"lui", "jr", "addiu", "jr", "lui">>,
   <<"jr", "nop", "push", "push", "addiu">>, <<"push", "addiu", "jr", "nop", "addiu">>,
   <<"push", "nop", "addiu", "nop", "addiu">>, <<"jr", "push", "addiu", "lui", "daddiu">>}

Seg(off, va, size) == [load |-> TRUE, off |-> off, va |-> va, size |-> size]
Idle == [load |-> FALSE, off |-> 0, va |-> 16, size |-> 28]

Sections == <<Seg(4, 16, 20)>>

Exe(kind, heads, data) ==
  [kind |-> kind, heads |-> heads, sects |-> Sections, org |-> 16, data |-> data]

OneSegment  == <<Idle, Seg(4, 16, 20)>>
TwoSegments == <<Seg(4, 16, 12), Seg(20, 28, 4)>>
Overlapping == <<Seg(4, 16, 20), Seg(12, 24, 12)>>
Overlaid    == <<Seg(0, 16, 16), Seg(4, 16, 16)>>

Survey(e, arch, size) ==
  [exe |-> e, arch |-> arch, base |-> IF e.kind = "raw" THEN 0 ELSE 16,
   off |-> IF e.kind = "raw" THEN 0 ELSE 4, size |-> size]

Surveyed(c) ==
  LET file == <<"nop">> \o c \o <<"nop">>
  IN  {Survey(Exe("elf", OneSegment, file), "mips", 20),
       Survey(Exe("elf", TwoSegments, file), "mips", 20),
       Survey(Exe("elf", Overlapping, file), "mips", 18),
       Survey(Exe("elf", OneSegment, file), "mips", 32),
       Survey(Exe("elf", <<Idle>>, file), "mips", 20),
       Survey(Exe("psx", <<>>, file), "mips", 20),
       Survey(Exe("raw", <<>>, file), "mips", 28),
       Survey(Exe("dol", TwoSegments, file), "ppc", 20)}

MCSurveys == UNION {Surveyed(c) : c \in Code \cup Noise}

Twin == <<"nop", "addiu", "addiu", "jr", "addiu">>

MCOthers ==
  {[exe |-> Exe("elf", OneSegment, Twin), at |-> 20],
   [exe |-> Exe("elf", <<Idle>>, Twin), at |-> 16],
   [exe |-> Exe("elf", Overlaid, Twin), at |-> 20],
   [exe |-> Exe("psx", <<>>, Twin), at |-> 4],
   [exe |-> Exe("raw", <<>>, <<"addiu", "daddiu", "addiu">>), at |-> 0]}

\* A DOL with the routine at two addresses, one of which it does not hold whole.
MCForeign ==
  {[exe |-> Exe("dol", OneSegment, Twin), at |-> 16],
   [exe |-> Exe("dol", TwoSegments, Twin), at |-> 24]}

\* Zeros in the middle of one word are those of another.
MCCoded ==
  [w \in MCWord |->
     CASE w = "nop"    -> <<0, 0, 0, 0>>
       [] w = "addiu"  -> <<238, 15, 2, 36>>
       [] w = "daddiu" -> <<238, 15, 2, 100>>
       [] w = "lui"    -> <<0, 15, 2, 60>>
       [] w = "jr"     -> <<8, 0, 224, 3>>
       [] w = "push"   -> <<240, 255, 189, 39>>]

=============================================================================
