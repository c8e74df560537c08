----------------------------- MODULE Extraction -----------------------------
(***************************************************************************)
(* cmd_extract of src/tools/iso9660.py: the files of a disc are copied out *)
(* as the directory walk yields them.  The walk is suspended while its     *)
(* consumer copies a file, and both use one file handle, img.f.            *)
(*                                                                         *)
(* The sector map is drawn from the same walk, once it has ended: neither  *)
(* tool changes what the other reads.  Files are made of whole sectors.    *)
(***************************************************************************)
EXTENDS SectorMap, FiniteSets

CONSTANT CHUNK  \* sectors copied at a time (1 << 22 bytes)

\* base is the name of an entry without its version: A;1 and A;2 share one.
ASSUME ExtractAssumption ==
  /\ CHUNK \in Nat \ {0}
  /\ \A a \in Layouts : a.base \in [Ids -> Nat]

VARIABLES
  taken,   \* how many of the entries yielded have been dealt with
  left,    \* sectors still to be copied
  made,    \* the directories made below the destination
  out,     \* the files there: by path, the sectors they consist of
  nfiles,
  exPc

exVars == <<taken, fpos, left, made, out, nfiles, exPc>>
toolVars == <<vars, exVars>>

ToolsInit ==
  /\ Init
  /\ taken = 0
  /\ fpos = volume.sectors
  /\ left = 0
  /\ made = {}
  /\ out = <<>>
  /\ nfiles = 0
  /\ exPc = "next"

Dest(y) == [z \in DOMAIN yielded[y].path |-> layout.base[yielded[y].path[z]]]

Entry == yielded[taken + 1].id

\* Where a read of n sectors from sector l on leaves the handle.
Behind(l, n) ==
  IF l + n <= volume.sectors \/ l >= volume.sectors THEN l + n ELSE volume.sectors

\* The sectors descriptors reads: what it takes for descriptors, and the first it does not.
Looked ==
  {k \in 1 .. Len(volume.desc) + 1 :
     /\ SystemArea + k - 1 < volume.sectors
     /\ \A m \in 1 .. k - 1 : volume.desc[m].type \notin {0, Terminator}}

\* A directory is read whole before its first record is looked at.
WalkOn ==
  /\ exPc = "failed" \/ (exPc = "next" /\ taken = Len(yielded))
  /\ Walk
  /\ fpos' = CASE pc = "pvd" /\ Looked # {} -> SystemArea + Cardinality(Looked)
               [] pc' = "records" /\ pc = "pop" ->
                    Behind(volume.lba[dir'.id], volume.size[dir'.id])
               [] OTHER -> fpos
  /\ UNCHANGED <<taken, left, made, out, nfiles, exPc>>

AtEntry == exPc = "next" /\ taken < Len(yielded) /\ UNCHANGED vars

MakeDirectory ==
  /\ AtEntry
  /\ Entry \in volume.dirs
  /\ Dest(taken + 1) \notin DOMAIN out
  /\ made' = made \cup {Dest(taken + 1)}
  /\ taken' = taken + 1
  /\ UNCHANGED <<fpos, left, out, nfiles, exPc>>

\* Mutated form of OpenFile: the handle is left where it is.
OpenFileUnsought ==
  /\ AtEntry
  /\ Entry \notin volume.dirs
  /\ Dest(taken + 1) \notin made
  /\ out' = [p \in DOMAIN out \cup {Dest(taken + 1)} |-> IF p = Dest(taken + 1) THEN <<>> ELSE out[p]]
  /\ left' = volume.size[Entry]
  /\ exPc' = "copy"
  /\ UNCHANGED <<taken, fpos, made, nfiles>>

\* open(dest, 'wb') empties what an earlier version has left there.
OpenFile ==
  /\ AtEntry
  /\ Entry \notin volume.dirs
  /\ Dest(taken + 1) \notin made
  /\ out' = [p \in DOMAIN out \cup {Dest(taken + 1)} |-> IF p = Dest(taken + 1) THEN <<>> ELSE out[p]]
  /\ fpos' = volume.lba[Entry]
  /\ left' = volume.size[Entry]
  /\ exPc' = "copy"
  /\ UNCHANGED <<taken, made, nfiles>>

\* A file and a directory of one name: makedirs or open raises.
NameTaken ==
  /\ AtEntry
  /\ Dest(taken + 1) \in (IF Entry \in volume.dirs THEN DOMAIN out ELSE made)
  /\ exPc' = "failed"
  /\ UNCHANGED <<taken, fpos, left, made, out, nfiles>>

Smaller(p, q) == IF p < q THEN p ELSE q

\* What one read returns: nothing behind the end of the image.
Got ==
  IF fpos < volume.sectors THEN Smaller(Smaller(left, CHUNK), volume.sectors - fpos) ELSE 0

CopyChunk ==
  /\ exPc = "copy"
  /\ Got > 0
  /\ out' = [out EXCEPT ![Dest(taken + 1)] = @ \o [q \in 1 .. Got |-> fpos + q - 1]]
  /\ fpos' = fpos + Got
  /\ left' = left - Got
  /\ UNCHANGED <<vars, taken, made, nfiles, exPc>>

\* All is copied, or the image has ended: the file is counted all the same.
CloseFile ==
  /\ exPc = "copy"
  /\ Got = 0
  /\ nfiles' = nfiles + 1
  /\ taken' = taken + 1
  /\ exPc' = "next"
  /\ UNCHANGED <<vars, fpos, left, made, out>>

ExtractDone ==
  /\ pc = "walked"
  /\ exPc = "next"
  /\ taken = Len(yielded)
  /\ exPc' = "extracted"
  /\ UNCHANGED <<vars, taken, fpos, left, made, out, nfiles>>

MapOn ==
  /\ exPc \in {"extracted", "failed"}
  /\ Claim \/ TakeClaim \/ LastPiece
  /\ UNCHANGED exVars

ToolsStep ==
  \/ WalkOn
  \/ MakeDirectory
  \/ OpenFile
  \/ NameTaken
  \/ CopyChunk
  \/ CloseFile
  \/ ExtractDone
  \/ MapOn

ToolsNext == ToolsStep \/ (Done /\ UNCHANGED exVars)

ToolsSpec == ToolsInit /\ [][ToolsNext]_toolVars /\ WF_toolVars(ToolsStep)

-----------------------------------------------------------------------------
(* Properties                                                              *)

\* The files among the entries dealt with, and what the image has of one.
FilesTaken == {y \in 1 .. taken : yielded[y].id \notin volume.dirs}

Present(e) ==
  IF volume.lba[e] < volume.sectors
  THEN Smaller(volume.size[e], volume.sectors - volume.lba[e]) ELSE 0

Held(e) == [q \in 1 .. Present(e) |-> volume.lba[e] + q - 1]

\* However the walk and the copying alternate on the one handle, a file holds
\* exactly the sectors of its record, as far as the image goes, in order and
\* nothing of another file or of a directory.  Of several versions of a name
\* the last one yielded is what remains, whole, and all of them are counted.
FilesAreTheirRecords ==
  exPc # "copy" =>
    /\ DOMAIN out = {Dest(y) : y \in FilesTaken}
    /\ \A y \in FilesTaken :
         (\A z \in FilesTaken : Dest(z) = Dest(y) => z <= y) => out[Dest(y)] = Held(yielded[y].id)
    /\ nfiles = Cardinality(FilesTaken)
    /\ made \cap DOMAIN out = {}

=============================================================================
