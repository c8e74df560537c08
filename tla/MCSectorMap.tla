---------------------------- MODULE MCSectorMap ----------------------------
(***************************************************************************)
(* Every tree of three entries below a root, one disc that is not a tree,  *)
(* directories of one or more sectors, good and bad descriptor sequences,  *)
(* and extents that touch, overlap, nest, leave gaps and run past the end  *)
(* of the image, those of directories included.  Two of the entries may be *)
(* versions of one name.                                                   *)
(***************************************************************************)
EXTENDS Extraction, SequencesExt

Root      == 1
MCIds     == 1 .. 4
Entries   == MCIds \ {Root}

D(t) == [type |-> t, root |-> Root]

\* A boot record first, the primary twice, no primary, no terminator.
Descriptors ==
  {<<D(1), D(255)>>, <<D(0)>>, <<D(2), D(1), D(1)>>, <<D(2), D(255), D(1)>>}

\* The sectors of a directory that holds the records of q, `cap` in each.
Packed(q, cap) ==
  [s \in 1 .. (Len(q) + cap - 1) \div cap |->
     [t \in 1 .. cap |->
        IF (s - 1) * cap + t <= Len(q) THEN q[(s - 1) * cap + t] ELSE End]]

\* A tree: the directories, and the parent of every entry.
Trees ==
  {t \in [dirs : {ds \cup {Root} : ds \in SUBSET Entries}, parent : [Entries -> MCIds]] :
     \A e \in Entries : t.parent[e] \in t.dirs /\ t.parent[e] < e}

\* A disc of n sectors whose directories have the given content, with a file
\* that is entry 2 at a, one that is entry 3 at b and one that is entry 4 at 10.
Disc(ds, content, n, a, b, sa, sb) ==
  LET dirs == DOMAIN content
      lba  == [e \in MCIds |->
                 CASE e = Root -> 5 [] e \in dirs -> 4 + 2 * e [] OTHER -> <<5, a, b, 10>>[e]]
      size == [e \in MCIds |-> IF e \in dirs THEN Len(content[e]) ELSE <<1, sa, sb, 1>>[e]]
  IN  [desc |-> ds, dirs |-> dirs, sectors |-> n, lba |-> lba, size |-> size,
       at |-> [l \in 0 .. n - 1 |->
                 LET here == {d \in dirs : lba[d] <= l /\ l < lba[d] + size[d]}
                 IN  IF here = {} THEN <<>>
                     ELSE LET d == CHOOSE d \in here : TRUE IN content[d][l - lba[d] + 1]]]

\* Not a tree: a file that is in two directories.
Shared == 1 :> <<<<Dot, Dot, 3, 2>>>> @@ 2 :> <<<<Dot, Dot, 3>>, <<4>>>>

Contents ==
  {[d \in t.dirs |->
      Packed(<<Dot, Dot>> \o SetToSortSeq({e \in Entries : t.parent[e] = d}, >), cap)] :
     t \in Trees, cap \in {2, 3}}

\* The system area and the longest descriptor sequence take sectors 0 .. 3: the
\* shortest of the images ends in them.
MCVolumes ==
  {Disc(ds, c, n, a, b, sa, sb) :
     ds \in Descriptors, c \in Contents \cup {Shared}, n \in {2, 9, 12, 14},
     a \in {4, 7}, b \in {7, 8, 9}, sa \in {1, 5}, sb \in {0, 2}}

MCLayouts ==
  {[tables |-> {[first |-> 4, last |-> 4], [first |-> 6, last |-> 6]},
    blank  |-> {11, 12},
    base   |-> <<1, 2, c, 4>>] : c \in {2, 3}}

=============================================================================
