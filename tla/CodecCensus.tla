---------------------------- MODULE CodecCensus ----------------------------
(***************************************************************************)
(* src/tools/codec_census.py census: every member of a container that is a *)
(* block is decoded and tallied; with `--nested` one level is followed,    *)
(* into the bundles among the members and into the archives that members   *)
(* decode to.  Several containers are counted into the same tallies, one   *)
(* after the other, and so are one longer container.                       *)
(***************************************************************************)
EXTENDS Formats, FiniteSets, SequencesExt

CONSTANTS
  Buffers,    \* what a member of a container may be
  Containers  \* sequences of members

ASSUME ContainerAssumption ==
  /\ \A b \in Buffers : IsBuffer(b)
  /\ \A c \in Containers : c \in Seq(Buffers)

VARIABLES
  container, nested,
  i,           \* the next member
  body, parts, \* the buffer whose parts are being read, and its parts
  j,           \* the next of them
  top, inner,  \* the two tallies
  archives, archiveMembers, bundles, bundleMembers,
  pc

censusVars ==
  <<i, body, parts, j, top, inner, archives, archiveMembers, bundles, bundleMembers, pc>>

\* A Tally.  largest and smallest are a packed size and where it was seen;
\* 2^40, the size no block reaches, is a number of its own here.
Tally == [methods |-> [m \in Known |-> 0], packed |-> 0, unpacked |-> 0, ok |-> 0,
          bad |-> <<>>, largest |-> <<0, <<>>>>, smallest |-> <<>>, expanded |-> 0]

Init ==
  /\ container \in Containers
  /\ nested \in BOOLEAN
  /\ i = 1
  /\ body = Slice([len |-> 0, at |-> <<>>], 0, 0)
  /\ parts = <<>>
  /\ j = 1
  /\ top = Tally
  /\ inner = Tally
  /\ archives = 0 /\ archiveMembers = 0
  /\ bundles = 0 /\ bundleMembers = 0
  /\ pc = "members"

\* Tally.add, or the except branch: a block that raises is noted as bad.
Add(t, b, where) ==
  IF Raises(b) THEN [t EXCEPT !.bad = Append(@, where)]
  ELSE
    LET p == Packed(b)
        good == Unpack(b).len = Unpacked(b)
    IN  [methods  |-> [t.methods EXCEPT ![Method(b)] = @ + 1],
         packed   |-> t.packed + p,
         unpacked |-> t.unpacked + Unpacked(b),
         ok       |-> IF good THEN t.ok + 1 ELSE t.ok,
         bad      |-> IF good THEN t.bad ELSE Append(t.bad, where),
         largest  |-> IF p > t.largest[1] THEN <<p, where>> ELSE t.largest,
         smallest |-> IF t.smallest = <<>> \/ p < t.smallest[1] THEN <<p, where>> ELSE t.smallest,
         expanded |-> IF p >= Unpacked(b) THEN t.expanded + 1 ELSE t.expanded]

\* Members of less than sixteen bytes are passed over.
SkipMember ==
  /\ pc = "members"
  /\ i <= Len(container)
  /\ container[i].len < 16
  /\ i' = i + 1
  /\ UNCHANGED <<container, nested, body, parts, j, top, inner, archives,
                 archiveMembers, bundles, bundleMembers, pc>>

PassRaw ==
  /\ pc = "members"
  /\ i <= Len(container)
  /\ container[i].len >= 16
  /\ ~IsBlock(container[i])
  /\ nested => ~IsBundle(container[i])
  /\ i' = i + 1
  /\ UNCHANGED <<container, nested, body, parts, j, top, inner, archives,
                 archiveMembers, bundles, bundleMembers, pc>>

OpenBundle ==
  /\ pc = "members"
  /\ i <= Len(container)
  /\ container[i].len >= 16
  /\ ~IsBlock(container[i])
  /\ nested
  /\ IsBundle(container[i])
  /\ bundles' = bundles + 1
  /\ body' = container[i]
  /\ parts' = BundleParts(container[i])
  /\ bundleMembers' = bundleMembers + Len(parts')
  /\ j' = 1
  /\ pc' = "parts"
  /\ UNCHANGED <<container, nested, i, top, inner, archives, archiveMembers>>

\* A member whose decoding raises, or is no archive, has nothing to open.
Opens(b) == nested /\ ~Raises(b) /\ IsArchive(Unpack(b))

CountBlock ==
  /\ pc = "members"
  /\ i <= Len(container)
  /\ container[i].len >= 16
  /\ IsBlock(container[i])
  /\ ~Opens(container[i])
  /\ top' = Add(top, container[i], <<i>>)
  /\ i' = i + 1
  /\ UNCHANGED <<container, nested, body, parts, j, inner, archives,
                 archiveMembers, bundles, bundleMembers, pc>>

CountArchive ==
  /\ pc = "members"
  /\ i <= Len(container)
  /\ container[i].len >= 16
  /\ IsBlock(container[i])
  /\ Opens(container[i])
  /\ top' = Add(top, container[i], <<i>>)
  /\ archives' = archives + 1
  /\ body' = Unpack(container[i])
  /\ parts' = ArchiveParts(body')
  /\ archiveMembers' = archiveMembers + Len(parts')
  /\ j' = 1
  /\ pc' = "parts"
  /\ UNCHANGED <<container, nested, i, inner, bundles, bundleMembers>>

Part(k) == Slice(body, parts[k].off, parts[k].size)

IsBlockPart(b) == b.len >= 16 /\ IsBlock(b)

SkipPart ==
  /\ pc = "parts"
  /\ j <= Len(parts)
  /\ ~IsBlockPart(Part(j))
  /\ j' = j + 1
  /\ UNCHANGED <<container, nested, i, body, parts, top, inner, archives,
                 archiveMembers, bundles, bundleMembers, pc>>

CountPart ==
  /\ pc = "parts"
  /\ j <= Len(parts)
  /\ IsBlockPart(Part(j))
  /\ inner' = Add(inner, Part(j), <<i, j>>)
  /\ j' = j + 1
  /\ UNCHANGED <<container, nested, i, body, parts, top, archives,
                 archiveMembers, bundles, bundleMembers, pc>>

\* Mutated form of PartsDone: the member is then counted once more.
PartsDoneStill ==
  /\ pc = "parts"
  /\ j > Len(parts)
  /\ i' = i + 1
  /\ top' = IF IsBlock(container[i]) THEN Add(top, container[i], <<i>>) ELSE top
  /\ pc' = "members"
  /\ UNCHANGED <<container, nested, body, parts, j, inner, archives,
                 archiveMembers, bundles, bundleMembers>>

PartsDone ==
  /\ pc = "parts"
  /\ j > Len(parts)
  /\ i' = i + 1
  /\ pc' = "members"
  /\ UNCHANGED <<container, nested, body, parts, j, top, inner, archives,
                 archiveMembers, bundles, bundleMembers>>

CensusDone ==
  /\ pc = "members"
  /\ i > Len(container)
  /\ pc' = "reported"
  /\ UNCHANGED <<container, nested, i, body, parts, j, top, inner, archives,
                 archiveMembers, bundles, bundleMembers>>

CensusStep ==
  \/ SkipMember
  \/ PassRaw
  \/ OpenBundle
  \/ CountBlock
  \/ CountArchive
  \/ SkipPart
  \/ CountPart
  \/ PartsDone
  \/ CensusDone

-----------------------------------------------------------------------------
(* Properties                                                              *)

Places == Seq(Nat)

Tallies ==
  [methods : [Known -> Nat], packed : Nat, unpacked : Nat, ok : Nat, bad : Seq(Places),
   largest : Nat \X Places, smallest : (Nat \X Places) \cup {<<>>}, expanded : Nat]

CensusTypeOK ==
  /\ i \in 1 .. Len(container) + 1
  /\ IsBuffer(body)
  /\ parts \in Seq([off : Nat, size : Nat])
  /\ j \in 1 .. Len(parts) + 1
  /\ top \in Tallies
  /\ inner \in Tallies
  /\ {archives, archiveMembers, bundles, bundleMembers} \subseteq Nat
  /\ pc \in {"members", "parts", "reported"}
  /\ pc = "parts" => i <= Len(container)

\* The parts the census reads tile their buffer: each starts where the one
\* before it ends and the last ends with the buffer, so that no byte of it is
\* read into two parts and none after the first part is left out.
PartsTile ==
  pc = "parts" =>
    /\ parts # <<>>
    /\ \A k \in 1 .. Len(parts) - 1 : parts[k].off + parts[k].size = parts[k + 1].off
    /\ parts[Len(parts)].off + parts[Len(parts)].size = body.len

\* "decode to declared length N of N" leaves nothing out: the except branches
\* are never taken, so a block that fails is among those the N counts.
NoneUncounted ==
  \A t \in {top, inner} :
    t.methods[0] + t.methods[1] + t.methods[3] = t.ok + Len(t.bad)

\* The parts of member a, and the buffer they are cut from.
Whole(a) == IF IsBlock(container[a]) THEN Unpack(container[a]) ELSE container[a]

PartsOf(a) ==
  IF ~nested \/ container[a].len < 16 THEN <<>>
  ELSE IF IsBlock(container[a])
       THEN IF IsArchive(Whole(a)) THEN ArchiveParts(Whole(a)) ELSE <<>>
       ELSE IF IsBundle(container[a]) THEN BundleParts(container[a]) ELSE <<>>

At(p) ==
  IF Len(p) = 1 THEN container[p[1]]
  ELSE LET e == PartsOf(p[1])[p[2]] IN Slice(Whole(p[1]), e.off, e.size)

TopBlocks == {p \in {<<a>> : a \in 1 .. Len(container)} : IsBlockPart(At(p))}

InnerBlocks ==
  {p \in UNION {{<<a, k>> : k \in 1 .. Len(PartsOf(a))} : a \in 1 .. Len(container)} :
     IsBlockPart(At(p))}

Tallied(t, blocks) ==
  /\ \A m \in Known : t.methods[m] = Cardinality({p \in blocks : Method(At(p)) = m})
  /\ ToSet(t.bad) = {p \in blocks : Unpack(At(p)).len # Unpacked(At(p))}
  /\ Len(t.bad) = Cardinality(ToSet(t.bad))
  /\ t.packed = SumFunction([p \in blocks |-> Packed(At(p))])

\* The report counts every block exactly once, on its own level: those of the
\* members of a bundle, which are read from the member, and those of the members
\* of an archive, which are read from what the member decodes to, but never both.
EveryBlockCounted ==
  pc = "reported" => Tallied(top, TopBlocks) /\ Tallied(inner, InnerBlocks)

\* docs/03-containers.md:164-166: "Some top-level members are a u32 count followed
\* by that many u32 offsets".  The report says how many of them there are.
BundlesAreCounted ==
  pc = "reported" /\ nested =>
    bundles = Cardinality({a \in 1 .. Len(container) : IsBundle(container[a])})

=============================================================================
