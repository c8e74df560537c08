---------------------------- MODULE MCDiscCensus ----------------------------
(***************************************************************************)
(* Containers of up to two members out of every kind the code tells apart: *)
(* blocks of each method that decode to their size or not, bundles and     *)
(* archives of few and of many parts, SCPK bundles, near misses, and       *)
(* members too short to be read.                                           *)
(***************************************************************************)
EXTENDS DiscReports

\* The bytes f from offset o on.
From(o, f) == [d \in {o + q - 1 : q \in {q \in 1 .. Len(f) : f[q] # 0}} |-> f[d - o + 1]]

LE(v) == <<v % 256, (v \div 256) % 256, (v \div 65536) % 256, v \div 16777216>>

Buf(n, at) == [len |-> n, at |-> at]

Words(n, w) == Buf(n, From(0, FlattenSeq([q \in 1 .. Len(w) |-> LE(w[q])])))

\* A block: its method, sizes and the first byte of its stream.
Header(m, p, u, s) == From(0, <<m>> \o LE(p) \o LE(u) \o <<s>>)

Block(m, p, u, s) == Buf(9 + p, Header(m, p, u, s))

Small == Block(1, 7, 30, 1)  \* sixteen bytes long

\* b written into a at offset o.
Put(a, o, b) == Buf(a.len, From(o, [q \in 1 .. b.len |-> Byte(b, q - 1)]) @@ a.at)

Archive2 == Put(Words(52, <<2, 20, 16, 36, 16>>), 20, Small)
Archive8 == Words(84, <<8>> \o FlattenSeq([q \in 1 .. 8 |-> <<66 + 2 * q, 2>>]))

\* A part that looks like a block and is too short to be one.
ArchiveShort == Put(Words(46, <<2, 20, 10, 30, 16>>), 20, Block(1, 1, 5, 1))

MCStreams ==
  [s \in Bytes |->
     CASE s = 1 -> Buf(30, <<>>)
       [] s = 2 -> Archive2
       [] s = 3 -> Archive8
       [] s = 4 -> ArchiveShort
       [] OTHER -> Buf(0, <<>>)]

Bundle2 == Put(Words(600, <<2, 256, 512>>), 256, Small)
Bundle3 == Words(800, <<3, 256, 512, 768>>)
Bundle4 == Put(Words(1040, <<4, 256, 512, 768, 1024>>), 1024, Small)
Askew   == Words(600, <<2, 256, 320>>)
Adpcm8  == Buf(128, 0 :> 76 @@ 17 :> 7)
Loud8   == Buf(128, 16 :> 13)

\* An SCPK bundle of n bytes with the given sizes, b put in at offset o.
Scpk(n, count, sizes, o, b) ==
  Put(Words(n, <<1263551315, 1 + 65536 * 15, count, 0>> \o sizes), o, b)

ScpkBlock  == Scpk(49, 3, <<16, 0, 5>>, 28, Small)
ScpkStored == Scpk(45, 1, <<21>>, 20, Block(0, 12, 12, 7))
ScpkWrong  == Scpk(36, 1, <<16>>, 20, Block(1, 7, 31, 1))
ScpkCut    == Scpk(24, 3, <<>>, 20, Buf(0, <<>>))
ScpkOver   == Scpk(48, 2, <<9, 19>>, 24, Small)
ScpkTwins  == Put(Scpk(56, 2, <<16, 16>>, 24, Small), 40, Small)
\* An empty member, with the block of the next one where it would be.
ScpkBefore == Scpk(40, 2, <<0, 16>>, 24, Small)
ScpkRatio  == Scpk(36, 1, <<16>>, 20, Block(1, 7, 449, 1))

\* Movies that are shorter than the window or as long, with their first sequence
\* header in the movie, across its end, or only in what is read behind it.
MovieOne  == Buf(40, From(0, MPEG) @@ From(20, SEQ))
MovieTwo  == Buf(80, From(0, MPEG) @@ From(16, SEQ) @@ From(40, SEQ))
MovieBare == Buf(24, From(0, MPEG) @@ From(20, SEQ))
MovieNone == Buf(24, From(0, MPEG))

\* Behind the container, a sequence header and nothing more.
MCBehind == Buf(12, From(0, SEQ))

MCBuffers ==
  {Buf(0, <<>>), Buf(12, Header(1, 3, 9, 1)),
   Small, Block(3, 20, 30, 1), Block(1, 9, 52, 2), Block(3, 9, 31, 1), Block(5, 9, 30, 1),
   Block(3, 40, 30, 1), Block(1, 9, 84, 3), Block(1, 9, 46, 4), Block(0, 12, 12, 7), Block(0, 12, 40, 7),
   Bundle2, Bundle3, Bundle4, Askew, Adpcm8, Loud8,
   ScpkBlock, ScpkStored, ScpkWrong, ScpkCut, ScpkOver, ScpkRatio,
   ScpkTwins, ScpkBefore, MovieOne, MovieTwo, MovieBare, MovieNone,
   Buf(20, From(0, TIM2)), Buf(20, From(0, MSCF))}

MCContainers == UNION {[1 .. n -> MCBuffers] : n \in 1 .. 2}

\* Bundles of every count of parts, from the least one up.
MCLayouts == {<<b>> : b \in {Bundle2, Bundle3, Bundle4}}

=============================================================================
