----------------------------- MODULE ScpkCensus -----------------------------
(***************************************************************************)
(* src/tools/scpk.py cmd_census: every member of a container that begins   *)
(* with SCPK is parsed as a bundle, and each of its members is decoded if  *)
(* its head looks like one of a block.                                     *)
(***************************************************************************)
EXTENDS CodecCensus

SCPK == <<83, 67, 80, 75>>

VARIABLES
  mem,               \* the next member of the container
  bundle,            \* d, the bundle being read
  ent,               \* the next of its members
  nb, totalMembers,
  kinds, memberCounts, innerMagic,  \* the Counters, as bags
  comp, exact, mismatch,
  packed, unpacked,
  scpkPc

scpkVars == <<mem, bundle, ent, nb, totalMembers, kinds, memberCounts, innerMagic, comp, exact,
              mismatch, packed, unpacked, scpkPc>>

Half(b, o) == Byte(b, o) + 256 * Byte(b, o + 1)

Count(b) == U32(b, 8)

\* What parse returns None for, the magic apart.
Parses(b) == Count(b) <= MaxParts /\ 16 + 4 * Count(b) <= b.len

Size(b, q) == U32(b, 12 + 4 * q)

\* The members follow the table of sizes and each other.
Offset(b, q) == 16 + 4 * Count(b) + SumFunction([r \in 1 .. q - 1 |-> Size(b, r)])

\* block_head: a block that can begin at offset o of the bundle.
IsHead(b, o) ==
  LET p == U32(b, o + 1)
      u == U32(b, o + 5)
  IN  /\ o + 9 <= b.len
      /\ Byte(b, o) \in Known
      /\ p # 0 /\ u # 0
      /\ o + 9 + p <= b.len
      /\ IF Byte(b, o) = 0 THEN p = u ELSE p < u /\ u <= 64 * p

Lead(b) == [q \in 1 .. Lesser(4, b.len) |-> Byte(b, q - 1)]

ScpkInit ==
  /\ mem = 1
  /\ bundle = Slice([len |-> 0, at |-> <<>>], 0, 0)
  /\ ent = 1
  /\ nb = 0 /\ totalMembers = 0
  /\ kinds = EmptyBag /\ memberCounts = EmptyBag /\ innerMagic = EmptyBag
  /\ comp = 0 /\ exact = 0 /\ mismatch = 0
  /\ packed = 0 /\ unpacked = 0
  /\ scpkPc = "bundles"

\* iter_bundles passes over what is short or has another lead, cmd_census over
\* what does not parse.
IsScpk(b) == b.len >= 16 /\ First4(b) = SCPK

PassMember ==
  /\ scpkPc = "bundles"
  /\ mem <= Len(container)
  /\ ~(IsScpk(container[mem]) /\ Parses(container[mem]))
  /\ mem' = mem + 1
  /\ UNCHANGED <<bundle, ent, nb, totalMembers, kinds, memberCounts, innerMagic, comp, exact,
                 mismatch, packed, unpacked, scpkPc>>

OpenScpk ==
  /\ scpkPc = "bundles"
  /\ mem <= Len(container)
  /\ IsScpk(container[mem])
  /\ Parses(container[mem])
  /\ bundle' = container[mem]
  /\ ent' = 1
  /\ nb' = nb + 1
  /\ kinds' = kinds (+) SetToBag({<<Half(bundle', 4), Half(bundle', 6), U32(bundle', 12)>>})
  /\ memberCounts' = memberCounts (+) SetToBag({Count(bundle')})
  /\ totalMembers' = totalMembers + Count(bundle')
  /\ scpkPc' = "members"
  /\ UNCHANGED <<mem, innerMagic, comp, exact, mismatch, packed, unpacked>>

EmptyMember ==
  /\ scpkPc = "members"
  /\ ent <= Count(bundle)
  /\ Size(bundle, ent) = 0
  /\ ent' = ent + 1
  /\ UNCHANGED <<mem, bundle, nb, totalMembers, kinds, memberCounts, innerMagic, comp, exact,
                 mismatch, packed, unpacked, scpkPc>>

RawMember ==
  /\ scpkPc = "members"
  /\ ent <= Count(bundle)
  /\ Size(bundle, ent) # 0
  /\ LET o == Offset(bundle, ent)
     IN  /\ ~IsHead(bundle, o)
         /\ innerMagic' = innerMagic (+) SetToBag({<<"raw", Lead(Slice(bundle, o, 4))>>})
  /\ ent' = ent + 1
  /\ UNCHANGED <<mem, bundle, nb, totalMembers, kinds, memberCounts, comp, exact, mismatch, packed,
                 unpacked, scpkPc>>

\* Mutated form of HeadBlock: the header is not counted.
HeadBlockShort(b, o) == Slice(b, o, U32(b, o + 1))

\* The block at offset o, header included.
HeadBlock(b, o) == Slice(b, o, 9 + U32(b, o + 1))

BlockMember ==
  /\ scpkPc = "members"
  /\ ent <= Count(bundle)
  /\ Size(bundle, ent) # 0
  /\ IsHead(bundle, Offset(bundle, ent))
  /\ comp' = comp + 1
  /\ LET b == HeadBlock(bundle, Offset(bundle, ent))
         good == ~Raises(b) /\ Unpack(b).len = Unpacked(b)
     IN  /\ exact' = IF good THEN exact + 1 ELSE exact
         /\ mismatch' = IF good THEN mismatch ELSE mismatch + 1
         /\ packed' = IF Raises(b) THEN packed ELSE packed + Packed(b)
         /\ unpacked' = IF Raises(b) THEN unpacked ELSE unpacked + Unpack(b).len
         /\ innerMagic' = IF Raises(b) THEN innerMagic
                          ELSE innerMagic (+) SetToBag({<<"block", Lead(Unpack(b))>>})
  /\ ent' = ent + 1
  /\ UNCHANGED <<mem, bundle, nb, totalMembers, kinds, memberCounts, scpkPc>>

MembersDone ==
  /\ scpkPc = "members"
  /\ ent > Count(bundle)
  /\ mem' = mem + 1
  /\ scpkPc' = "bundles"
  /\ UNCHANGED <<bundle, ent, nb, totalMembers, kinds, memberCounts, innerMagic, comp, exact,
                 mismatch, packed, unpacked>>

ScpkDone ==
  /\ scpkPc = "bundles"
  /\ mem > Len(container)
  /\ scpkPc' = "reported"
  /\ UNCHANGED <<mem, bundle, ent, nb, totalMembers, kinds, memberCounts, innerMagic, comp, exact,
                 mismatch, packed, unpacked>>

ScpkStep ==
  \/ PassMember
  \/ OpenScpk
  \/ EmptyMember
  \/ RawMember
  \/ BlockMember
  \/ MembersDone
  \/ ScpkDone

-----------------------------------------------------------------------------
(* Properties                                                              *)

\* The bundles there are, their members that are not empty, and those of them
\* whose head is one of a block.
Scpks == {a \in 1 .. Len(container) : IsScpk(container[a]) /\ Parses(container[a])}

Filled ==
  UNION {{<<a, q>> : q \in {q \in 1 .. Count(container[a]) : Size(container[a], q) # 0}} :
         a \in Scpks}

Rest(p) ==
  LET b == container[p[1]]
      o == Offset(b, p[2])
  IN  Slice(b, o, b.len - o)

Headed == {p \in Filled : IsHead(container[p[1]], Offset(container[p[1]], p[2]))}

\* "decoded to declared len" counts the blocks that do so when decoded from the
\* bundle as it stands, and the rest of the report accounts for every member
\* that is not empty once: as a block, right or wrong, or by its raw lead.
ScpkCounted ==
  scpkPc = "reported" =>
    /\ nb = Cardinality(Scpks)
    /\ totalMembers = SumFunction([a \in Scpks |-> Count(container[a])])
    /\ comp = Cardinality(Headed)
    /\ exact = Cardinality({p \in Headed : Unpack(Rest(p)).len = Unpacked(Rest(p))})
    /\ exact + mismatch = comp
    /\ packed = SumFunction([p \in Headed |-> Packed(Rest(p))])
    /\ SumFunction(innerMagic) = Cardinality(Filled)

=============================================================================
