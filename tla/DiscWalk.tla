------------------------------ MODULE DiscWalk ------------------------------
(***************************************************************************)
(* The directory walk of src/tools/iso9660.py: Image.descriptors, pvd,     *)
(* records and walk.  A directory is a run of sectors; the records of a    *)
(* sector follow each other from its start to the first zero length byte,  *)
(* and never cross into the next sector.                                   *)
(*                                                                         *)
(* walk is a generator: what it yields is consumed by Fs, by the sector    *)
(* map, by the listing and by the extraction, none of which changes the    *)
(* entry it is given.  Its consumer may use the file handle of the image   *)
(* while the walk is suspended, so where the handle stands, fpos, is no    *)
(* part of the state of the walk: see Extraction.                          *)
(***************************************************************************)
EXTENDS Integers, Sequences

CONSTANTS
  SystemArea,  \* sectors before the first descriptor (16)
  Ids,         \* the directory records, by number: entries and roots
  Volumes      \* the discs, see VolumeAssumption

\* What is at a place of a directory sector: a zero length byte, one of the
\* records '.' and '..', or the record of an entry, one of Ids.
End == 0
Dot == -1

\* The type byte of a descriptor; 0 stands for a sector without CD001.
Primary    == 1
Terminator == 255

ASSUME VolumeAssumption ==
  /\ SystemArea \in Nat \ {0}
  /\ Ids \subseteq Nat \ {0}
  /\ \A v \in Volumes :
       /\ v.desc \in Seq([type : Nat, root : Ids])
       /\ v.dirs \subseteq Ids
       /\ \A k \in 1 .. Len(v.desc) : v.desc[k].root \in v.dirs
       /\ v.sectors \in Nat
       /\ v.at \in [0 .. v.sectors - 1 -> Seq(Ids \cup {Dot, End})]
       /\ v.lba \in [Ids -> Nat]
       /\ v.size \in [Ids -> Nat]

VARIABLES
  volume,     \* desc: the descriptors; dirs: the records of directories; lba,
              \* size: where a record points, and for how many sectors; sectors:
              \* the length of the image; at: what its sectors hold as directories
  fpos,       \* where the file handle stands
  stack,      \* the directories to read, with their paths
  dir, data,  \* the directory being read, and its sectors
  sec, slot,  \* the sector and the place in it that records looks at
  recs, x,    \* what records returned, and the next of it
  yielded,    \* the entries yielded, with their paths
  pc

walkVars == <<stack, dir, data, sec, slot, recs, x, yielded>>

Nowhere == [id |-> 0, path |-> <<>>]

WalkInit ==
  /\ volume \in Volumes
  /\ stack = <<>>
  /\ dir = Nowhere
  /\ data = <<>>
  /\ sec = 1
  /\ slot = 1
  /\ recs = <<>>
  /\ x = 1
  /\ yielded = <<>>
  /\ pc = "pvd"

\* descriptors: the sectors from SystemArea on, up to one without CD001, to the
\* terminator, which is still one of them, or to the end of the image.
Described(v) ==
  {k \in 1 .. Len(v.desc) :
     /\ SystemArea + k - 1 < v.sectors
     /\ v.desc[k].type # 0
     /\ \A m \in 1 .. k - 1 : v.desc[m].type \notin {0, Terminator}}

IsPvd(k) ==
  /\ k \in Described(volume)
  /\ volume.desc[k].type = Primary
  /\ \A m \in 1 .. k - 1 : volume.desc[m].type # Primary

NoPrimary ==
  /\ pc = "pvd"
  /\ \A k \in 1 .. Len(volume.desc) : ~IsPvd(k)
  /\ pc' = "failed"
  /\ UNCHANGED <<volume, walkVars>>

StartAtRoot ==
  /\ pc = "pvd"
  /\ \E k \in 1 .. Len(volume.desc) :
       /\ IsPvd(k)
       /\ stack' = <<[id |-> volume.desc[k].root, path |-> <<>>]>>
  /\ pc' = "pop"
  /\ UNCHANGED <<volume, dir, data, sec, slot, recs, x, yielded>>

\* A read of n sectors from sector l on; behind the end of the image there is
\* nothing.
Read(l, n) ==
  [s \in 1 .. n |-> IF l + s - 1 < volume.sectors THEN volume.at[l + s - 1] ELSE <<>>]

Sectors(d) == Read(volume.lba[d], volume.size[d])

\* Mutated form of PopDirectory: the sectors are read from where the handle is.
PopDirectoryUnsought ==
  /\ pc = "pop"
  /\ stack # <<>>
  /\ dir' = Head(stack)
  /\ data' = Read(fpos, volume.size[dir'.id])
  /\ stack' = Tail(stack)
  /\ sec' = 1
  /\ slot' = 1
  /\ recs' = <<>>
  /\ x' = 1
  /\ pc' = "records"
  /\ UNCHANGED <<volume, yielded>>

\* Mutated form of PopDirectory: the list of records is not cleared.
PopDirectoryKept ==
  /\ pc = "pop"
  /\ stack # <<>>
  /\ dir' = Head(stack)
  /\ data' = Sectors(dir'.id)
  /\ stack' = Tail(stack)
  /\ sec' = 1
  /\ slot' = 1
  /\ x' = 1
  /\ pc' = "records"
  /\ UNCHANGED <<volume, recs, yielded>>

PopDirectory ==
  /\ pc = "pop"
  /\ stack # <<>>
  /\ dir' = Head(stack)
  /\ data' = Sectors(dir'.id)
  /\ stack' = Tail(stack)
  /\ sec' = 1
  /\ slot' = 1
  /\ recs' = <<>>
  /\ x' = 1
  /\ pc' = "records"
  /\ UNCHANGED <<volume, yielded>>

AtRecord == slot <= Len(data[sec]) /\ data[sec][slot] # End

ReadRecord ==
  /\ pc = "records"
  /\ sec <= Len(data)
  /\ AtRecord
  /\ recs' = Append(recs, data[sec][slot])
  /\ slot' = slot + 1
  /\ UNCHANGED <<volume, stack, dir, data, sec, x, yielded, pc>>

\* Mutated form of NextSector: a zero length byte ends the directory.
NextSectorLast ==
  /\ pc = "records"
  /\ sec <= Len(data)
  /\ ~AtRecord
  /\ sec' = Len(data) + 1
  /\ slot' = 1
  /\ UNCHANGED <<volume, stack, dir, data, recs, x, yielded, pc>>

\* Mutated form of NextSector: a zero length byte is passed over.
NextSectorStuck ==
  /\ pc = "records"
  /\ sec <= Len(data)
  /\ ~AtRecord
  /\ IF slot <= Len(data[sec]) THEN UNCHANGED <<sec, slot>> ELSE sec' = sec + 1 /\ slot' = 1
  /\ UNCHANGED <<volume, stack, dir, data, recs, x, yielded, pc>>

NextSector ==
  /\ pc = "records"
  /\ sec <= Len(data)
  /\ ~AtRecord
  /\ sec' = sec + 1
  /\ slot' = 1
  /\ UNCHANGED <<volume, stack, dir, data, recs, x, yielded, pc>>

RecordsRead ==
  /\ pc = "records"
  /\ sec > Len(data)
  /\ pc' = "loop"
  /\ UNCHANGED <<volume, walkVars>>

SkipDots ==
  /\ pc = "loop"
  /\ x <= Len(recs)
  /\ recs[x] = Dot
  /\ x' = x + 1
  /\ UNCHANGED <<volume, stack, dir, data, sec, slot, recs, yielded, pc>>

Found == [id |-> recs[x], path |-> Append(dir.path, recs[x])]

YieldFile ==
  /\ pc = "loop"
  /\ x <= Len(recs)
  /\ recs[x] \notin {Dot} \cup volume.dirs
  /\ yielded' = Append(yielded, Found)
  /\ x' = x + 1
  /\ UNCHANGED <<volume, stack, dir, data, sec, slot, recs, pc>>

YieldDirectory ==
  /\ pc = "loop"
  /\ x <= Len(recs)
  /\ recs[x] \in volume.dirs
  /\ yielded' = Append(yielded, Found)
  /\ stack' = Append(stack, Found)
  /\ x' = x + 1
  /\ UNCHANGED <<volume, dir, data, sec, slot, recs, pc>>

DirectoryDone ==
  /\ pc = "loop"
  /\ x > Len(recs)
  /\ pc' = "pop"
  /\ UNCHANGED <<volume, walkVars>>

WalkEnds ==
  /\ pc = "pop"
  /\ stack = <<>>
  /\ pc' = "walked"
  /\ UNCHANGED <<volume, walkVars>>

WalkStep ==
  \/ NoPrimary
  \/ StartAtRoot
  \/ PopDirectory
  \/ ReadRecord
  \/ NextSector
  \/ RecordsRead
  \/ SkipDots
  \/ YieldFile
  \/ YieldDirectory
  \/ DirectoryDone
  \/ WalkEnds

-----------------------------------------------------------------------------
(* Properties                                                              *)

Visits == [id : Ids, path : Seq(Ids)]

WalkTypeOK ==
  /\ stack \in Seq(Visits)
  /\ \A k \in 1 .. Len(stack) : stack[k].id \in volume.dirs
  /\ dir \in Visits \cup {Nowhere}
  /\ pc \in {"records", "loop"} => dir \in Visits /\ dir.id \in volume.dirs
  /\ data \in Seq(Seq(Ids \cup {Dot, End}))
  /\ sec \in Nat \ {0}
  /\ slot \in Nat \ {0}
  /\ recs \in Seq(Ids \cup {Dot})
  /\ x \in 1 .. Len(recs) + 1
  /\ yielded \in Seq(Visits)

\* The entries a directory holds: in each sector, up to the first zero.
Live(sector) == {t \in 1 .. Len(sector) : \A u \in 1 .. t : sector[u] # End}

Children(d) ==
  (UNION {{Sectors(d)[s][t] : t \in Live(Sectors(d)[s])} :
            s \in 1 .. Len(Sectors(d))}) \ {Dot}

IsRoot(d) == \E k \in 1 .. Len(volume.desc) : IsPvd(k) /\ d = volume.desc[k].root

\* Every path yielded leads to its entry: from the root directory of the
\* primary descriptor, through directories each of which holds the next name,
\* wherever the walk's consumer has left the file handle in between.
PathsAreTrue ==
  \A y \in 1 .. Len(yielded) :
    LET p == yielded[y].path
    IN  /\ p # <<>>
        /\ p[Len(p)] = yielded[y].id
        /\ \A d \in volume.dirs : IsRoot(d) => p[1] \in Children(d)
        /\ \A z \in 1 .. Len(p) - 1 : p[z] \in volume.dirs /\ p[z + 1] \in Children(p[z])

Yielded(e) == \E y \in 1 .. Len(yielded) : yielded[y].id = e

\* The walk leaves nothing out: it has yielded whatever the root directory and
\* the directories it has yielded hold, over all their sectors.
WalkIsComplete ==
  pc = "walked" =>
    \A d \in volume.dirs :
      IsRoot(d) \/ Yielded(d) => \A e \in Children(d) : Yielded(e)

\* The directories form a tree: none has two records of one entry, no two hold
\* the same one, and none holds the root.
IsTree ==
  /\ \A d \in volume.dirs : \A s, u \in 1 .. Len(Sectors(d)) :
       \A t \in Live(Sectors(d)[s]), v \in Live(Sectors(d)[u]) :
         Sectors(d)[s][t] = Sectors(d)[u][v] =>
           Sectors(d)[s][t] = Dot \/ (s = u /\ t = v)
  /\ \A d, e \in volume.dirs : d # e => Children(d) \cap Children(e) = {}
  /\ \A d \in volume.dirs : \A e \in Children(d) : ~IsRoot(e)

\* On a disc whose directories form a tree no entry is yielded twice.
YieldedOnce ==
  \A y, z \in 1 .. Len(yielded) : yielded[y].id = yielded[z].id => y = z \/ ~IsTree

=============================================================================
