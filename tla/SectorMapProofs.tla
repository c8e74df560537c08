-------------------------- MODULE SectorMapProofs --------------------------
(***************************************************************************)
(* What TLAPS proves of the directory walk and of the sector map, for      *)
(* every disc and every layout.  But for the last theorem on the walk,     *)
(* nothing needs the directories to form a tree: on a disc where they do   *)
(* not, the walk may visit one again, or never end, but what it has        *)
(* yielded is still right.                                                 *)
(***************************************************************************)
EXTENDS Extraction, FiniteSetTheorems, SequenceTheorems, TLAPS

Given == volume \in Volumes /\ layout \in Layouts

LEMMA GivenFacts ==
  ASSUME Given
  PROVE  /\ Ids \subseteq Nat \ {0}
         /\ volume.dirs \subseteq Ids
         /\ volume.desc \in Seq([type : Nat, root : Ids])
         /\ \A k \in 1 .. Len(volume.desc) : volume.desc[k].root \in volume.dirs
         /\ \A e \in Ids : volume.lba[e] \in Nat /\ volume.size[e] \in Nat
         /\ volume.sectors \in Nat
         /\ \A d \in volume.dirs : Sectors(d) \in Seq(Seq(Ids \cup {Dot, End}))
         /\ SystemArea \in Nat \ {0}
<1>1. /\ volume.at \in [0 .. volume.sectors - 1 -> Seq(Ids \cup {Dot, End})]
      /\ volume.sectors \in Nat /\ volume.dirs \subseteq Ids
      /\ \A e \in Ids : volume.lba[e] \in Nat /\ volume.size[e] \in Nat
  BY VolumeAssumption DEF Given
<1>2. ASSUME NEW d \in volume.dirs PROVE Sectors(d) \in Seq(Seq(Ids \cup {Dot, End}))
  <2>1. volume.lba[d] \in Nat /\ volume.size[d] \in Nat
    BY <1>1
  <2>2. ASSUME NEW s \in 1 .. volume.size[d]
        PROVE  (IF volume.lba[d] + s - 1 < volume.sectors
                THEN volume.at[volume.lba[d] + s - 1] ELSE <<>>) \in Seq(Ids \cup {Dot, End})
    <3>1. volume.lba[d] + s - 1 \in Nat
      BY <2>1
    <3>2. volume.lba[d] + s - 1 < volume.sectors =>
            volume.lba[d] + s - 1 \in 0 .. volume.sectors - 1
      BY <1>1, <3>1
    <3> QED BY <1>1, <3>1, <3>2
  <2> DEFINE at(s) == IF volume.lba[d] + s - 1 < volume.sectors
                      THEN volume.at[volume.lba[d] + s - 1] ELSE <<>>
  <2>3. \A s \in 1 .. volume.size[d] : at(s) \in Seq(Ids \cup {Dot, End})
    BY <2>2
  <2>4. Sectors(d) = [s \in 1 .. volume.size[d] |-> at(s)]
    BY DEF Sectors, Read
  <2> HIDE DEF at
  <2> QED BY <2>1, <2>3, <2>4
<1> QED BY <1>1, <1>2, VolumeAssumption DEF Given

LEMMA FrozenStep ==
  ASSUME [Next]_vars
  PROVE  /\ volume' = volume /\ layout' = layout
         /\ \A d : IsRoot(d)' <=> IsRoot(d)
         /\ \A d : Children(d)' = Children(d)
<1>1. volume' = volume /\ layout' = layout
  BY DEF Next, Step, Done, Walk, WalkStep, Claim, TakeClaim, LastPiece, vars,
         NoPrimary, StartAtRoot, PopDirectory, ReadRecord, NextSector,
         RecordsRead, SkipDots, YieldFile, YieldDirectory, DirectoryDone, WalkEnds
<1> QED BY <1>1 DEF IsRoot, IsPvd, Described, Children, Live, Sectors, Read

\* What is in the sectors of a directory does not change.
LEMMA SectorsFrozen == ASSUME [Next]_vars PROVE \A d : Sectors(d)' = Sectors(d)
BY FrozenStep DEF Sectors, Read

\* There is one root: that of the first primary descriptor.
LEMMA OneRoot ==
  ASSUME NEW d, NEW e, IsRoot(d), IsRoot(e)
  PROVE  d = e
<1>1. PICK k \in 1 .. Len(volume.desc) : IsPvd(k) /\ d = volume.desc[k].root
  BY DEF IsRoot
<1>2. PICK m \in 1 .. Len(volume.desc) : IsPvd(m) /\ e = volume.desc[m].root
  BY DEF IsRoot
<1>3. k \in Int /\ m \in Int /\ k >= 1 /\ m >= 1
  BY <1>1, <1>2
<1>4. ~(k < m) /\ ~(m < k)
  BY <1>1, <1>2, <1>3 DEF IsPvd
<1> QED BY <1>1, <1>2, <1>3, <1>4

\* Once the walk is over nothing it has kept changes any more.
LEMMA MapFrozen ==
  ASSUME [Next]_vars, ~Walk
  PROVE  UNCHANGED walkVars
BY DEF Next, Step, Done, Claim, TakeClaim, LastPiece, vars, walkVars

LEMMA InitGiven == Init => Given
BY DEF Init, WalkInit, Given

-----------------------------------------------------------------------------
(* Types                                                                   *)

\* What has been read is the directory, wherever the handle was.
Content == Sectors(dir.id)

DataInv == pc = "records" => data = Content

TypeInv == TypeOK /\ Given /\ DataInv

\* A claim is a run of at least one sector.
LEMMA ClaimedFacts ==
  ASSUME Given, yielded \in Seq(Visits)
  PROVE  \A c \in Claimed : c \in Extents /\ c.first <= c.last
<1>1. \A f \in Nat, l \in Nat \ {0} :
        Run(f, l) \in Extents /\ Run(f, l).first <= Run(f, l).last
  BY DEF Run, Extents
<1>2. layout.tables \subseteq Extents /\ \A c \in layout.tables : c.first <= c.last
  BY LayoutAssumption DEF Given
<1>3. \A y \in 1 .. Len(yielded) : yielded[y].id \in Ids
  <2>1. \A y \in 1 .. Len(yielded) : yielded[y] \in Visits
    OBVIOUS
  <2> QED BY <2>1 DEF Visits
<1>4. \A e \in Ids : volume.lba[e] \in Nat /\ volume.size[e] \in Nat
  BY GivenFacts
<1>5. \A e \in Ids : EntryClaim(e) \in Extents
                       /\ EntryClaim(e).first <= EntryClaim(e).last
  BY <1>1, <1>4 DEF EntryClaim
<1>6. Run(0, SystemArea) \in Extents
        /\ Run(0, SystemArea).first <= Run(0, SystemArea).last
  BY <1>1, GivenFacts
<1>7. \A k \in Described(volume) :
        Run(SystemArea + k - 1, 1) \in Extents
          /\ Run(SystemArea + k - 1, 1).first <= Run(SystemArea + k - 1, 1).last
  <2> SUFFICES ASSUME NEW k \in Described(volume)
               PROVE  SystemArea + k - 1 \in Nat
    BY <1>1
  <2>1. k \in Nat /\ k >= 1 /\ SystemArea \in Nat
    BY GivenFacts DEF Described
  <2> QED BY <2>1
<1> QED BY <1>2, <1>3, <1>5, <1>6, <1>7 DEF Claimed

LEMMA TypeInit == Init => TypeInv
BY InitGiven DEF Init, WalkInit, TypeInv, TypeOK, WalkTypeOK, Nowhere, DataInv

\* The steps that look at what has been read look at the directory.
LEMMA ReadingIs ==
  ASSUME TypeInv
  PROVE  /\ ReadRecord =>
              /\ pc = "records" /\ sec <= Len(Content)
              /\ slot <= Len(Content[sec]) /\ Content[sec][slot] # End
              /\ recs' = Append(recs, Content[sec][slot])
         /\ NextSector =>
              /\ pc = "records" /\ sec <= Len(Content)
              /\ ~(slot <= Len(Content[sec]) /\ Content[sec][slot] # End)
         /\ RecordsRead => pc = "records" /\ sec > Len(Content)
BY DEF TypeInv, DataInv, ReadRecord, NextSector, RecordsRead, AtRecord

LEMMA ContentFrozen == ASSUME [Next]_vars, dir' = dir PROVE Content' = Content
BY SectorsFrozen DEF Content

LEMMA ContentNext ==
  ASSUME Given, [Next]_vars, dir'.id \in volume.dirs
  PROVE  Content' \in Seq(Seq(Ids \cup {Dot, End}))
<1>1. PICK d \in volume.dirs : d = dir'.id
  OBVIOUS
<1>2. Content' = Sectors(d)
  BY <1>1, FrozenStep DEF Content, Sectors, Read
<1> QED BY <1>2, GivenFacts

LEMMA DataStep == DataInv /\ [Next]_vars => DataInv'
<1> SUFFICES ASSUME DataInv, [Next]_vars, pc' = "records" PROVE data' = Content'
  BY DEF DataInv
<1>1. CASE PopDirectory
  BY <1>1, FrozenStep DEF PopDirectory, Content, Sectors, Read
<1>2. CASE ~PopDirectory
  <2>1. pc = "records" /\ data' = data /\ dir' = dir
    BY <1>2 DEF Next, Step, Done, Walk, WalkStep, Claim, TakeClaim, LastPiece, vars, walkVars,
         NoPrimary, StartAtRoot, ReadRecord, NextSector, RecordsRead, SkipDots, YieldFile,
         YieldDirectory, DirectoryDone, WalkEnds
  <2> QED BY <2>1, ContentFrozen DEF DataInv
<1> QED BY <1>1, <1>2

LEMMA WalkTypeStep == TypeInv /\ Walk => WalkTypeOK'
<1> SUFFICES ASSUME TypeInv, Walk PROVE WalkTypeOK'
  OBVIOUS
<1>0. WalkTypeOK /\ Given /\ volume' = volume /\ layout' = layout
  BY FrozenStep DEF TypeInv, TypeOK, Next, Step
<1> USE GivenFacts
<1>1. CASE NoPrimary
  BY <1>0, <1>1 DEF WalkTypeOK, NoPrimary, walkVars
<1>2. CASE StartAtRoot
  <2>1. PICK k \in 1 .. Len(volume.desc) :
          stack' = <<[id |-> volume.desc[k].root, path |-> <<>>]>>
    BY <1>2 DEF StartAtRoot
  <2>2. volume.desc[k].root \in volume.dirs /\ volume.desc[k].root \in Ids
    BY <1>0
  <2>3. stack' \in Seq(Visits) /\ \A m \in 1 .. Len(stack') : stack'[m].id \in volume.dirs
    BY <2>1, <2>2 DEF Visits
  <2> QED BY <1>0, <1>2, <2>3 DEF WalkTypeOK, StartAtRoot
<1>3. CASE PopDirectory
  <2>1. stack \in Seq(Visits) /\ stack # <<>>
    BY <1>0, <1>3 DEF WalkTypeOK, PopDirectory
  <2>2. Head(stack) = stack[1] /\ 1 \in 1 .. Len(stack) /\ stack[1] \in Visits
    BY <2>1
  <2>3. dir' \in Visits /\ dir'.id \in volume.dirs
    BY <1>0, <1>3, <2>2 DEF WalkTypeOK, PopDirectory
  <2>4. stack' \in Seq(Visits) /\ \A m \in 1 .. Len(stack') : stack'[m].id \in volume.dirs
    BY <1>0, <1>3, <2>1 DEF WalkTypeOK, PopDirectory
  <2>5. data' \in Seq(Seq(Ids \cup {Dot, End}))
    <3>1. PICK d \in volume.dirs : d = dir'.id
      BY <2>3
    <3>2. data' = Sectors(d)
      BY <1>3, <3>1 DEF PopDirectory
    <3> QED BY <1>0, <3>2
  <2> QED BY <1>0, <1>3, <2>3, <2>4, <2>5 DEF WalkTypeOK, PopDirectory
<1>4. CASE ReadRecord
  <2>1. dir.id \in volume.dirs
    BY <1>0, <1>4 DEF WalkTypeOK, ReadRecord
  <2>2. data \in Seq(Seq(Ids \cup {Dot, End})) /\ sec \in 1 .. Len(data)
    BY <1>0, <1>4 DEF WalkTypeOK, ReadRecord
  <2>3. data[sec] \in Seq(Ids \cup {Dot, End}) /\ slot \in 1 .. Len(data[sec])
    BY <1>0, <1>4, <2>2 DEF WalkTypeOK, ReadRecord, AtRecord
  <2>4. data[sec][slot] \in Ids \cup {Dot}
    BY <1>4, <2>3 DEF ReadRecord, AtRecord
  <2>5. recs' \in Seq(Ids \cup {Dot}) /\ Len(recs') = Len(recs) + 1
    BY <1>0, <1>4, <2>4 DEF WalkTypeOK, ReadRecord
  <2>6. Len(recs) \in Nat
    BY <1>0 DEF WalkTypeOK
  <2> QED BY <1>0, <1>4, <2>5, <2>6 DEF WalkTypeOK, ReadRecord
<1>5. CASE NextSector
  BY <1>0, <1>5 DEF WalkTypeOK, NextSector
<1>6. CASE RecordsRead \/ DirectoryDone \/ WalkEnds
  BY <1>0, <1>6 DEF WalkTypeOK, RecordsRead, DirectoryDone, WalkEnds, walkVars
<1>7. CASE SkipDots
  BY <1>0, <1>7 DEF WalkTypeOK, SkipDots
<1>8. CASE YieldFile \/ YieldDirectory
  <2>1. /\ dir \in Visits /\ dir.id \in volume.dirs
        /\ recs \in Seq(Ids \cup {Dot}) /\ x \in 1 .. Len(recs) /\ Len(recs) \in Nat
        /\ yielded \in Seq(Visits) /\ stack \in Seq(Visits)
    BY <1>0, <1>8 DEF WalkTypeOK, YieldFile, YieldDirectory
  <2>2. recs[x] \in Ids
    <3>1. recs[x] # Dot
      BY <1>0, <1>8, <2>1 DEF YieldFile, YieldDirectory, Dot
    <3> QED BY <2>1, <3>1
  <2>3. Found \in Visits /\ Found.id = recs[x]
    BY <2>1, <2>2 DEF Found, Visits
  <2>4. yielded' \in Seq(Visits)
    <3>1. yielded' = Append(yielded, Found)
      BY <1>8 DEF YieldFile, YieldDirectory
    <3> QED BY <2>1, <2>3, <3>1
  <2>5. x' \in 1 .. Len(recs) + 1
    BY <1>8, <2>1 DEF YieldFile, YieldDirectory
  <2>6. stack' \in Seq(Visits) /\ \A m \in 1 .. Len(stack') : stack'[m].id \in volume.dirs
    <3>1. stack' = stack \/ (stack' = Append(stack, Found) /\ Found.id \in volume.dirs)
      BY <1>8, <2>3 DEF YieldFile, YieldDirectory
    <3>2. \A k \in 1 .. Len(stack) : stack[k].id \in volume.dirs
      BY <1>0 DEF WalkTypeOK
    <3>3. CASE stack' = stack
      BY <2>1, <3>2, <3>3
    <3>4. CASE stack' = Append(stack, Found) /\ Found.id \in volume.dirs
      BY <2>1, <2>3, <3>2, <3>4
    <3> QED BY <3>1, <3>3, <3>4
  <2> QED BY <1>0, <1>8, <2>1, <2>4, <2>5, <2>6 DEF WalkTypeOK, YieldFile, YieldDirectory
<1> QED BY <1>1, <1>2, <1>3, <1>4, <1>5, <1>6, <1>7, <1>8 DEF Walk, WalkStep

LEMMA PieceFacts == \A f, l \in Nat : Piece(f, l) \in Pieces
<1> SUFFICES ASSUME NEW f \in Nat, NEW l \in Nat PROVE Piece(f, l) \in Pieces
  OBVIOUS
<1>1. Label(f) \in {"all zero", "data"}
  BY DEF Label
<1> QED BY <1>1 DEF Piece, Pieces

LEMMA TypeStep == TypeInv /\ [Next]_vars => TypeInv'
<1> SUFFICES ASSUME TypeInv, [Next]_vars PROVE TypeOK' /\ Given'
  BY DataStep DEF TypeInv
<1>0. /\ TypeOK /\ WalkTypeOK /\ Given /\ Given'
      /\ volume' = volume /\ layout' = layout
  BY FrozenStep DEF TypeInv, TypeOK, Given
<1>1. CASE UNCHANGED vars
  <2>1. UNCHANGED <<stack, dir, data, sec, slot, recs, x, yielded, pc, claims, cursor, slack>>
    BY <1>1 DEF vars, walkVars, mapVars
  <2>2. WalkTypeOK'
    BY <1>0, <2>1 DEF WalkTypeOK
  <2> QED BY <1>0, <2>1, <2>2 DEF TypeInv, TypeOK
<1>2. CASE Walk
  <2>1. WalkTypeOK'
    BY <1>2, WalkTypeStep
  <2>2. pc' \in {"pvd", "failed", "pop", "records", "loop", "walked", "map", "mapped"}
    BY <1>0, <1>2 DEF TypeOK, Walk, WalkStep, NoPrimary, StartAtRoot, PopDirectory,
         ReadRecord, NextSector, RecordsRead, SkipDots, YieldFile, YieldDirectory,
         DirectoryDone, WalkEnds
  <2> QED BY <1>0, <1>2, <2>1, <2>2 DEF TypeInv, TypeOK, Walk, mapVars
<1>3. CASE Claim
  <2>1. WalkTypeOK'
    BY <1>0, <1>3 DEF WalkTypeOK, Claim, walkVars
  <2>2. claims' \subseteq Extents
    BY <1>0, <1>3, ClaimedFacts DEF Claim, WalkTypeOK
  <2> QED BY <1>0, <1>3, <2>1, <2>2 DEF TypeInv, TypeOK, Claim
<1>4. CASE TakeClaim
  <2>1. WalkTypeOK'
    BY <1>0, <1>4 DEF WalkTypeOK, TakeClaim, walkVars
  <2>2. PICK c \in claims :
          /\ claims' = claims \ {c}
          /\ slack' = IF c.first > cursor
                      THEN Append(slack, Piece(cursor, c.first - 1))
                      ELSE slack
          /\ cursor' = IF c.last + 1 > cursor THEN c.last + 1 ELSE cursor
    BY <1>4 DEF TakeClaim
  <2>3. c.first \in Nat /\ c.last \in Nat /\ cursor \in Nat /\ slack \in Seq(Pieces)
    BY <1>0 DEF TypeOK, Extents
  <2>4. c.first > cursor => Piece(cursor, c.first - 1) \in Pieces
    BY <2>3, PieceFacts
  <2>5. slack' \in Seq(Pieces) /\ cursor' \in Nat
    BY <2>2, <2>3, <2>4
  <2> QED BY <1>0, <1>4, <2>1, <2>2, <2>5 DEF TypeInv, TypeOK, TakeClaim
<1>5. CASE LastPiece
  <2>1. WalkTypeOK'
    BY <1>0, <1>5 DEF WalkTypeOK, LastPiece, walkVars
  <2>2. cursor \in Nat /\ volume.sectors \in Nat /\ slack \in Seq(Pieces)
    BY <1>0, GivenFacts DEF TypeOK
  <2>3. cursor < volume.sectors => Piece(cursor, volume.sectors - 1) \in Pieces
    BY <2>2, PieceFacts
  <2>4. slack' \in Seq(Pieces)
    BY <1>5, <2>2, <2>3 DEF LastPiece
  <2> QED BY <1>0, <1>5, <2>1, <2>4 DEF TypeInv, TypeOK, LastPiece
<1> QED BY <1>1, <1>2, <1>3, <1>4, <1>5 DEF Next, Step, Done

\* Every step finds sequences, claims and pieces of the shape the report needs:
\* no claim has a negative sector and no directory record is read twice over.
THEOREM TypeCorrect == Spec => []TypeOK
<1>1. TypeInv => TypeOK
  BY DEF TypeInv
<1> QED BY <1>1, TypeInit, TypeStep, PTL DEF Spec

-----------------------------------------------------------------------------
(* The slack                                                               *)

\* What the loop over the sorted claims has established before the next one.
MapInv ==
  /\ pc = "map" =>
       /\ claims \subseteq Claimed
       /\ \A c \in Claimed \ claims : c.last < cursor
       /\ \A s \in Nat :
            s < cursor => InSlack(s) \/ \E c \in Claimed : Covers(c, s)
       /\ \A k \in 1 .. Len(slack) : slack[k].last < cursor
  /\ pc \in {"map", "mapped"} =>
       /\ \A k \in 1 .. Len(slack) : slack[k].first <= slack[k].last
       /\ \A k, m \in 1 .. Len(slack) : k < m => slack[k].last < slack[m].first
       /\ \A k \in 1 .. Len(slack), c \in Claimed, s \in Nat :
            Covers(slack[k], s) => ~Covers(c, s)
  /\ pc = "mapped" =>
       \A s \in 0 .. volume.sectors - 1 :
         InSlack(s) \/ \E c \in Claimed : Covers(c, s)
  /\ pc \notin {"map", "mapped"} => slack = <<>> /\ cursor = 0

\* A piece added at the end keeps the pieces in order and off every claim.
LEMMA AddPiece ==
  ASSUME TypeInv, MapInv, pc = "map",
         NEW l \in Nat, cursor <= l,
         \A c \in Claimed, s \in Nat : cursor <= s /\ s <= l => ~Covers(c, s),
         NEW t, t = Append(slack, Piece(cursor, l))
  PROVE  /\ Len(t) = Len(slack) + 1
         /\ t[Len(t)] = Piece(cursor, l)
         /\ \A k \in 1 .. Len(slack) : t[k] = slack[k]
         /\ \A k \in 1 .. Len(t) : t[k].first <= t[k].last
         /\ \A k, m \in 1 .. Len(t) : k < m => t[k].last < t[m].first
         /\ \A k \in 1 .. Len(t), c \in Claimed, s \in Nat :
              Covers(t[k], s) => ~Covers(c, s)
         /\ \A k \in 1 .. Len(t) : t[k].last < cursor \/ t[k].last = l
         /\ \A s \in Nat :
              (\E k \in 1 .. Len(t) : Covers(t[k], s))
                <=> InSlack(s) \/ (cursor <= s /\ s <= l)
<1>0. slack \in Seq(Pieces) /\ cursor \in Nat /\ Len(slack) \in Nat
  BY DEF TypeInv, TypeOK
<1>1. Piece(cursor, l).first = cursor /\ Piece(cursor, l).last = l
  BY DEF Piece
<1> HIDE DEF Piece
<1>2. Len(t) = Len(slack) + 1 /\ t[Len(t)] = Piece(cursor, l)
        /\ \A k \in 1 .. Len(slack) : t[k] = slack[k]
  BY <1>0
<1>3. \A k \in 1 .. Len(t) : k \in 1 .. Len(slack) \/ k = Len(t)
  BY <1>0, <1>2
<1>4. \A k \in 1 .. Len(slack) :
        slack[k].first \in Nat /\ slack[k].last \in Nat
          /\ slack[k].first <= slack[k].last /\ slack[k].last < cursor
  <2>1. \A k \in 1 .. Len(slack) : slack[k] \in Pieces
    BY <1>0
  <2> QED BY <2>1 DEF Pieces, MapInv
<1>5. \A k \in 1 .. Len(t) : t[k].first <= t[k].last
  BY <1>1, <1>2, <1>3, <1>4
<1>6. \A k, m \in 1 .. Len(t) : k < m => t[k].last < t[m].first
  <2> SUFFICES ASSUME NEW k \in 1 .. Len(t), NEW m \in 1 .. Len(t), k < m
               PROVE  t[k].last < t[m].first
    OBVIOUS
  <2>1. k \in 1 .. Len(slack)
    BY <1>0, <1>2
  <2>2. CASE m \in 1 .. Len(slack)
    BY <1>2, <2>1, <2>2 DEF MapInv
  <2>3. CASE m = Len(t)
    BY <1>1, <1>2, <1>4, <2>1, <2>3
  <2> QED BY <1>3, <2>2, <2>3
<1>7. \A k \in 1 .. Len(t), c \in Claimed, s \in Nat :
        Covers(t[k], s) => ~Covers(c, s)
  <2> SUFFICES ASSUME NEW k \in 1 .. Len(t), NEW c \in Claimed, NEW s \in Nat,
                      Covers(t[k], s)
               PROVE  ~Covers(c, s)
    OBVIOUS
  <2>1. CASE k \in 1 .. Len(slack)
    BY <1>2, <2>1 DEF MapInv
  <2>2. CASE k = Len(t)
    <3>1. cursor <= s /\ s <= l
      BY <1>1, <1>2, <2>2 DEF Covers
    <3> QED BY <3>1
  <2> QED BY <1>3, <2>1, <2>2
<1>8. \A k \in 1 .. Len(t) : t[k].last < cursor \/ t[k].last = l
  BY <1>1, <1>2, <1>3, <1>4
<1>9. \A s \in Nat :
        (\E k \in 1 .. Len(t) : Covers(t[k], s))
          <=> InSlack(s) \/ (cursor <= s /\ s <= l)
  <2> SUFFICES ASSUME NEW s \in Nat
               PROVE  (\E k \in 1 .. Len(t) : Covers(t[k], s))
                        <=> InSlack(s) \/ (cursor <= s /\ s <= l)
    OBVIOUS
  <2>1. Covers(t[Len(t)], s) <=> (cursor <= s /\ s <= l)
    BY <1>1, <1>2 DEF Covers
  <2>2. \A k \in 1 .. Len(slack) : k \in 1 .. Len(t) /\ t[k] = slack[k]
    BY <1>0, <1>2
  <2>3. Len(t) \in 1 .. Len(t)
    BY <1>0, <1>2
  <2> QED BY <1>3, <2>1, <2>2, <2>3 DEF InSlack
<1> QED BY <1>2, <1>5, <1>6, <1>7, <1>8, <1>9

LEMMA ClaimedFrozen ==
  ASSUME [Next]_vars, ~Walk
  PROVE  Claimed' = Claimed
<1>1. UNCHANGED <<volume, layout, yielded>>
  BY FrozenStep, MapFrozen DEF walkVars
<1>2. \A k : EntryClaim(k)' = EntryClaim(k)
  BY <1>1 DEF EntryClaim, Run
<1>3. Described(volume)' = Described(volume)
  BY <1>1 DEF Described
<1> QED BY <1>1, <1>2, <1>3 DEF Claimed, Run

LEMMA WalkPhase ==
  ASSUME Walk
  PROVE  /\ pc \notin {"map", "mapped"} /\ pc' \notin {"map", "mapped"}
         /\ UNCHANGED <<layout, claims, cursor, slack>>
BY DEF Walk, WalkStep, mapVars, NoPrimary, StartAtRoot, PopDirectory, ReadRecord,
       NextSector, RecordsRead, SkipDots, YieldFile, YieldDirectory,
       DirectoryDone, WalkEnds

LEMMA MapStep == TypeInv /\ MapInv /\ [Next]_vars => MapInv'
<1> SUFFICES ASSUME TypeInv, MapInv, [Next]_vars PROVE MapInv'
  OBVIOUS
<1>0. /\ slack \in Seq(Pieces) /\ Len(slack) \in Nat /\ cursor \in Nat
      /\ claims \subseteq Extents /\ volume.sectors \in Nat
      /\ \A c \in Claimed : c.first \in Nat /\ c.last \in Nat /\ c.first <= c.last
  <2>1. \A c \in Claimed : c \in Extents /\ c.first <= c.last
    BY ClaimedFacts DEF TypeInv, TypeOK, WalkTypeOK
  <2> QED BY <2>1, GivenFacts DEF TypeInv, TypeOK, Extents
<1>1. CASE Walk
  BY <1>1, WalkPhase DEF MapInv
<1>2. CASE ~Walk
  <2>0. Claimed' = Claimed /\ layout' = layout /\ volume' = volume
    BY <1>2, ClaimedFrozen, FrozenStep
  <2> HIDE DEF Claimed
  <2>1. CASE UNCHANGED vars
    <3>1. UNCHANGED <<pc, claims, cursor, slack>>
      BY <2>1 DEF vars, mapVars
    <3> QED BY <2>0, <3>1 DEF MapInv, InSlack
  <2>2. CASE Claim
    BY <1>0, <2>0, <2>2 DEF MapInv, Claim, InSlack
  <2>3. CASE TakeClaim
    <3>1. PICK c \in claims :
            /\ Least(c)
            /\ claims' = claims \ {c}
            /\ slack' = IF c.first > cursor
                        THEN Append(slack, Piece(cursor, c.first - 1))
                        ELSE slack
            /\ cursor' = IF c.last + 1 > cursor THEN c.last + 1 ELSE cursor
      BY <2>3 DEF TakeClaim
    <3>2. pc = "map" /\ pc' = "map"
      BY <2>3 DEF TakeClaim
    <3>3. c \in Claimed /\ c.first \in Nat /\ c.last \in Nat /\ c.first <= c.last
      BY <1>0, <3>1, <3>2 DEF MapInv
    <3>4. claims' \subseteq Claimed
      BY <3>1, <3>2 DEF MapInv
    <3>5. \A d \in Claimed \ claims' : d.last < cursor'
      BY <1>0, <3>1, <3>2, <3>3 DEF MapInv
    <3>6. CASE ~(c.first > cursor)
      <4>1. slack' = slack /\ cursor <= cursor' /\ cursor' \in Nat
        BY <1>0, <3>1, <3>3, <3>6
      <4>2. \A s \in Nat : s < cursor' => InSlack(s) \/ \E d \in Claimed : Covers(d, s)
        <5> SUFFICES ASSUME NEW s \in Nat, s < cursor', ~(s < cursor)
                     PROVE  Covers(c, s)
          BY <3>2, <3>3 DEF MapInv
        <5> QED BY <1>0, <3>1, <3>3, <3>6 DEF Covers
      <4>3. \A k \in 1 .. Len(slack) : slack[k].last < cursor'
        <5>1. \A k \in 1 .. Len(slack) : slack[k] \in Pieces /\ slack[k].last < cursor
          BY <1>0, <3>2 DEF MapInv
        <5>2. \A k \in 1 .. Len(slack) : slack[k].last \in Nat
          BY <5>1 DEF Pieces
        <5> QED BY <1>0, <4>1, <5>1, <5>2
      <4> QED BY <2>0, <3>2, <3>4, <3>5, <4>1, <4>2, <4>3 DEF MapInv, InSlack
    <3>7. CASE c.first > cursor
      <4>1. c.first - 1 \in Nat /\ cursor <= c.first - 1
        BY <1>0, <3>3, <3>7
      <4>2. ASSUME NEW d \in Claimed, NEW s \in Nat, cursor <= s, s <= c.first - 1
            PROVE  ~Covers(d, s)
        <5>1. CASE d \in claims
          <6>1. c.first <= d.first
            BY <1>0, <3>1, <3>3, <5>1 DEF Least
          <6> QED BY <1>0, <3>3, <4>2, <6>1 DEF Covers
        <5>2. CASE d \notin claims
          <6>1. d.last < cursor
            BY <3>2, <5>2 DEF MapInv
          <6> QED BY <1>0, <4>2, <6>1 DEF Covers
        <5> QED BY <5>1, <5>2
      <4>3. slack' = Append(slack, Piece(cursor, c.first - 1))
        BY <3>1, <3>7
      <4>4. /\ \A k \in 1 .. Len(slack') : slack'[k].first <= slack'[k].last
            /\ \A k, m \in 1 .. Len(slack') : k < m => slack'[k].last < slack'[m].first
            /\ \A k \in 1 .. Len(slack'), d \in Claimed, s \in Nat :
                 Covers(slack'[k], s) => ~Covers(d, s)
            /\ \A k \in 1 .. Len(slack') :
                 slack'[k].last < cursor \/ slack'[k].last = c.first - 1
            /\ \A s \in Nat :
                 (\E k \in 1 .. Len(slack') : Covers(slack'[k], s))
                   <=> InSlack(s) \/ (cursor <= s /\ s <= c.first - 1)
        <5>1. PICK l \in Nat : l = c.first - 1
          BY <4>1
        <5>2. \A d \in Claimed, s \in Nat : cursor <= s /\ s <= l => ~Covers(d, s)
          BY <4>2, <5>1
        <5>3. slack' = Append(slack, Piece(cursor, l)) /\ cursor <= l
          BY <4>1, <4>3, <5>1
        <5> HIDE <5>1
        <5>4. /\ \A k \in 1 .. Len(slack') : slack'[k].first <= slack'[k].last
              /\ \A k, m \in 1 .. Len(slack') : k < m => slack'[k].last < slack'[m].first
              /\ \A k \in 1 .. Len(slack'), d \in Claimed, s \in Nat :
                   Covers(slack'[k], s) => ~Covers(d, s)
              /\ \A k \in 1 .. Len(slack') :
                   slack'[k].last < cursor \/ slack'[k].last = l
              /\ \A s \in Nat :
                   (\E k \in 1 .. Len(slack') : Covers(slack'[k], s))
                     <=> InSlack(s) \/ (cursor <= s /\ s <= l)
          BY <3>2, <5>2, <5>3, AddPiece
        <5> QED BY <5>1, <5>4
      <4>5. cursor' = c.last + 1 /\ cursor < cursor'
        BY <1>0, <3>1, <3>3, <3>7
      <4>6. \A k \in 1 .. Len(slack') : slack'[k].last < cursor'
        <5>1. slack' \in Seq(Pieces)
          BY TypeStep DEF TypeInv, TypeOK
        <5>2. \A k \in 1 .. Len(slack') : slack'[k].last \in Nat
          <6>1. \A k \in 1 .. Len(slack') : slack'[k] \in Pieces
            BY <5>1
          <6> QED BY <6>1 DEF Pieces
        <5> QED BY <1>0, <3>3, <4>4, <4>5, <5>2
      <4>7. \A s \in Nat : s < cursor' =>
              (\E k \in 1 .. Len(slack') : Covers(slack'[k], s))
                \/ \E d \in Claimed : Covers(d, s)
        <5> SUFFICES ASSUME NEW s \in Nat, s < cursor', ~InSlack(s),
                            ~(cursor <= s /\ s <= c.first - 1),
                            \A d \in Claimed : ~Covers(d, s)
                     PROVE  FALSE
          BY <4>4
        <5>1. ~(s < cursor)
          BY <3>2 DEF MapInv
        <5>2. Covers(c, s)
          BY <1>0, <3>3, <4>5, <5>1 DEF Covers
        <5> QED BY <3>3, <5>2
      <4> QED BY <2>0, <3>2, <3>4, <3>5, <4>4, <4>6, <4>7 DEF MapInv, InSlack
    <3> QED BY <3>6, <3>7
  <2>4. CASE LastPiece
    <3>1. /\ pc = "map" /\ pc' = "mapped" /\ claims = {}
          /\ slack' = IF cursor < volume.sectors
                      THEN Append(slack, Piece(cursor, volume.sectors - 1))
                      ELSE slack
      BY <2>4 DEF LastPiece
    <3>2. CASE ~(cursor < volume.sectors)
      <4>1. slack' = slack
        BY <3>1, <3>2
      <4>2. \A s \in 0 .. volume.sectors - 1 :
              InSlack(s) \/ \E d \in Claimed : Covers(d, s)
        BY <1>0, <3>1, <3>2 DEF MapInv
      <4> QED BY <2>0, <3>1, <4>1, <4>2 DEF MapInv, InSlack
    <3>3. CASE cursor < volume.sectors
      <4>1. volume.sectors - 1 \in Nat /\ cursor <= volume.sectors - 1
        BY <1>0, <3>3
      <4>2. ASSUME NEW d \in Claimed, NEW s \in Nat, cursor <= s
            PROVE  ~Covers(d, s)
        <5>1. d.last < cursor
          BY <3>1 DEF MapInv
        <5> QED BY <1>0, <4>2, <5>1 DEF Covers
      <4>3. slack' = Append(slack, Piece(cursor, volume.sectors - 1))
        BY <3>1, <3>3
      <4>4. /\ \A k \in 1 .. Len(slack') : slack'[k].first <= slack'[k].last
            /\ \A k, m \in 1 .. Len(slack') : k < m => slack'[k].last < slack'[m].first
            /\ \A k \in 1 .. Len(slack'), d \in Claimed, s \in Nat :
                 Covers(slack'[k], s) => ~Covers(d, s)
            /\ \A s \in Nat :
                 (\E k \in 1 .. Len(slack') : Covers(slack'[k], s))
                   <=> InSlack(s) \/ (cursor <= s /\ s <= volume.sectors - 1)
        BY <3>1, <4>1, <4>2, <4>3, AddPiece
      <4>5. \A s \in 0 .. volume.sectors - 1 :
              (\E k \in 1 .. Len(slack') : Covers(slack'[k], s))
                \/ \E d \in Claimed : Covers(d, s)
        <5> SUFFICES ASSUME NEW s \in 0 .. volume.sectors - 1,
                            \A d \in Claimed : ~Covers(d, s)
                     PROVE  \E k \in 1 .. Len(slack') : Covers(slack'[k], s)
          OBVIOUS
        <5>1. s \in Nat /\ s <= volume.sectors - 1
          BY <1>0
        <5>2. InSlack(s) \/ cursor <= s
          BY <1>0, <3>1, <5>1 DEF MapInv
        <5> QED BY <4>4, <5>1, <5>2
      <4> QED BY <2>0, <3>1, <4>4, <4>5 DEF MapInv, InSlack
    <3> QED BY <3>2, <3>3
  <2> QED BY <1>2, <2>1, <2>2, <2>3, <2>4 DEF Next, Step, Done
<1> QED BY <1>1, <1>2

\* A sector of the image is slack exactly when nothing the volume describes
\* claims it, for every layout of every disc: claims that overlap, nest or lie
\* outside the image put nothing in the slack and take nothing out of it.
THEOREM SlackIsExact == Spec => []SlackIsUnclaimed
<1>1. Init => MapInv
  BY DEF Init, WalkInit, MapInv
<1>2. TypeInv /\ MapInv => SlackIsUnclaimed
  <2> SUFFICES ASSUME TypeInv, MapInv, pc = "mapped" PROVE SlackIsUnclaimed
    BY DEF SlackIsUnclaimed
  <2>1. volume.sectors \in Nat
    BY GivenFacts DEF TypeInv
  <2>2. \A s \in 0 .. volume.sectors - 1 :
          InSlack(s) <=> \A c \in Claimed : ~Covers(c, s)
    BY <2>1 DEF MapInv, InSlack
  <2> QED BY <2>2 DEF MapInv, SlackIsUnclaimed
<1> QED BY <1>1, <1>2, TypeInit, TypeStep, MapStep, PTL DEF Spec

-----------------------------------------------------------------------------
(* The paths                                                               *)

\* p leads from the root to its last element.
GoodPath(p) ==
  /\ p \in Seq(Ids)
  /\ p # <<>>
  /\ \A d \in volume.dirs : IsRoot(d) => p[1] \in Children(d)
  /\ \A z \in 1 .. Len(p) - 1 : p[z] \in volume.dirs /\ p[z + 1] \in Children(p[z])

Leads(v) ==
  \/ v.path = <<>> /\ IsRoot(v.id)
  \/ GoodPath(v.path) /\ v.path[Len(v.path)] = v.id

\* The part of the directory that has been read holds no zero length byte.
ReaderInv ==
  pc = "records" /\ sec <= Len(Content) =>
    /\ slot - 1 <= Len(Content[sec])
    /\ \A u \in 1 .. slot - 1 : Content[sec][u] # End

PathInv ==
  /\ \A k \in 1 .. Len(stack) : Leads(stack[k])
  /\ pc \in {"records", "loop"} =>
       /\ Leads(dir)
       /\ \A z \in 1 .. Len(recs) : recs[z] = Dot \/ recs[z] \in Children(dir.id)
  /\ \A y \in 1 .. Len(yielded) :
       /\ GoodPath(yielded[y].path)
       /\ yielded[y].path[Len(yielded[y].path)] = yielded[y].id

LEMMA PathFrozen ==
  ASSUME [Next]_vars
  PROVE  /\ \A p : GoodPath(p)' <=> GoodPath(p)
         /\ \A v : Leads(v)' <=> Leads(v)
<1>1. \A p : GoodPath(p)' <=> GoodPath(p)
  BY FrozenStep DEF GoodPath
<1> QED BY <1>1, FrozenStep DEF Leads

LEMMA Extend ==
  ASSUME NEW v \in Visits, v.id \in volume.dirs, Leads(v),
         NEW e \in Ids, e \in Children(v.id)
  PROVE  GoodPath(Append(v.path, e)) /\ Append(v.path, e)[Len(v.path) + 1] = e
<1>0. v.path \in Seq(Ids) /\ Len(v.path) \in Nat
  BY DEF Visits
<1> DEFINE q == Append(v.path, e)
<1>1. q \in Seq(Ids) /\ q # <<>> /\ Len(q) = Len(v.path) + 1 /\ q[Len(v.path) + 1] = e
  BY <1>0
<1>2. \A z \in 1 .. Len(v.path) : q[z] = v.path[z]
  BY <1>0
<1> HIDE DEF q
<1>3. CASE v.path = <<>> /\ IsRoot(v.id)
  <2>1. \A d \in volume.dirs : IsRoot(d) => q[1] \in Children(d)
    <3> SUFFICES ASSUME NEW d \in volume.dirs, IsRoot(d) PROVE q[1] \in Children(d)
      OBVIOUS
    <3>1. d = v.id
      BY <1>3, OneRoot
    <3> QED BY <1>1, <1>3, <3>1
  <2>2. Len(q) = 1
    BY <1>1, <1>3
  <2> QED BY <1>1, <2>1, <2>2 DEF GoodPath, q
<1>4. CASE GoodPath(v.path) /\ v.path[Len(v.path)] = v.id
  <2>1. Len(v.path) >= 1
    BY <1>0, <1>4 DEF GoodPath
  <2>2. \A d \in volume.dirs : IsRoot(d) => q[1] \in Children(d)
    BY <1>2, <1>4, <2>1 DEF GoodPath
  <2>3. \A z \in 1 .. Len(q) - 1 : q[z] \in volume.dirs /\ q[z + 1] \in Children(q[z])
    <3> SUFFICES ASSUME NEW z \in 1 .. Len(v.path)
                 PROVE  q[z] \in volume.dirs /\ q[z + 1] \in Children(q[z])
      BY <1>0, <1>1
    <3>1. CASE z = Len(v.path)
      BY <1>1, <1>2, <1>4, <3>1
    <3>2. CASE z # Len(v.path)
      <4>1. z \in 1 .. Len(v.path) - 1 /\ z + 1 \in 1 .. Len(v.path)
        BY <1>0, <3>2
      <4> QED BY <1>2, <1>4, <4>1 DEF GoodPath
    <3> QED BY <3>1, <3>2
  <2> QED BY <1>1, <2>2, <2>3 DEF GoodPath, q
<1> QED BY <1>3, <1>4 DEF Leads, q

\* The entries of a directory are its live records that are not dots.
LEMMA ChildrenAre ==
  ASSUME NEW d
  PROVE  \A e : e \in Children(d) <=>
           /\ e # Dot
           /\ \E s \in 1 .. Len(Sectors(d)) :
                \E t \in Live(Sectors(d)[s]) : e = Sectors(d)[s][t]
<1> DEFINE shown(s) == {Sectors(d)[s][t] : t \in Live(Sectors(d)[s])}
           all == UNION {shown(s) : s \in 1 .. Len(Sectors(d))}
<1>1. Children(d) = all \ {Dot}
  BY DEF Children
<1>2. \A e, s : e \in shown(s) <=>
        \E t \in Live(Sectors(d)[s]) : e = Sectors(d)[s][t]
  BY DEF shown
<1> HIDE DEF shown
<1>3. \A e : e \in all <=> \E s \in 1 .. Len(Sectors(d)) : e \in shown(s)
  OBVIOUS
<1> HIDE DEF all
<1> QED BY <1>1, <1>2, <1>3

\* What ReadRecord reads is '.', '..' or one of the directory's entries.
LEMMA ReadsChild ==
  ASSUME TypeInv, ReaderInv, ReadRecord
  PROVE  /\ slot \in Live(Content[sec])
         /\ Content[sec][slot] = Dot \/ Content[sec][slot] \in Children(dir.id)
<1>1. dir.id \in volume.dirs /\ sec \in 1 .. Len(Content)
        /\ Content \in Seq(Seq(Ids \cup {Dot, End}))
  <2>1. dir.id \in volume.dirs
    BY DEF TypeInv, TypeOK, WalkTypeOK, ReadRecord
  <2>2. Content \in Seq(Seq(Ids \cup {Dot, End}))
    BY <2>1, GivenFacts DEF TypeInv, Content
  <2> QED BY <2>1, <2>2, ReadingIs DEF TypeInv, TypeOK, WalkTypeOK
<1>2. slot \in 1 .. Len(Content[sec]) /\ Content[sec][slot] # End
  BY <1>1, ReadingIs DEF TypeInv, TypeOK, WalkTypeOK
<1>3. \A u \in 1 .. slot : Content[sec][u] # End
  <2>1. \A u \in 1 .. slot : u \in 1 .. slot - 1 \/ u = slot
    BY <1>2
  <2> QED BY <1>1, <1>2, <2>1 DEF ReaderInv, ReadRecord
<1>4. slot \in Live(Content[sec])
  BY <1>2, <1>3 DEF Live
<1>5. Content[sec][slot] # Dot => Content[sec][slot] \in Children(dir.id)
  BY <1>1, <1>4, ChildrenAre, Zenon DEF Content
<1> QED BY <1>4, <1>5

LEMMA ReaderStep == TypeInv /\ ReaderInv /\ [Next]_vars => ReaderInv'
<1> SUFFICES ASSUME TypeInv, ReaderInv, [Next]_vars, pc' = "records",
                    (sec <= Len(Content))'
             PROVE  /\ slot' - 1 <= Len(Content[sec])'
                    /\ \A u \in 1 .. slot' - 1 : (Content[sec])'[u] # End
  BY DEF ReaderInv
<1>0. volume' = volume /\ slot \in Nat /\ sec \in Nat
  BY FrozenStep DEF TypeInv, TypeOK, WalkTypeOK
<1>1. CASE PopDirectory \/ NextSector
  <2>1. slot' = 1 /\ dir'.id \in volume.dirs
    BY <1>1, TypeStep, FrozenStep DEF TypeInv, TypeOK, WalkTypeOK, PopDirectory, NextSector
  <2>2. Content' \in Seq(Seq(Ids \cup {Dot, End}))
    BY <2>1, ContentNext DEF TypeInv
  <2>3. Content'[sec'] \in Seq(Ids \cup {Dot, End})
    <3>1. sec' \in Nat \ {0}
      BY TypeStep DEF TypeInv, TypeOK, WalkTypeOK
    <3> QED BY <2>2, <3>1
  <2> QED BY <2>1, <2>3
<1>2. CASE ReadRecord
  <2>1. slot \in Live(Content[sec])
    BY <1>2, ReadsChild
  <2>2. slot' = slot + 1 /\ Content' = Content /\ sec' = sec
    BY <1>0, <1>2, ContentFrozen DEF ReadRecord
  <2>3. slot' - 1 = slot
    BY <1>0, <2>2
  <2>4. slot \in 1 .. Len(Content[sec]) /\ \A u \in 1 .. slot : Content[sec][u] # End
    BY <2>1 DEF Live
  <2>5. slot <= Len(Content[sec])
    BY <2>4
  <2> QED BY <2>2, <2>3, <2>4, <2>5
<1>3. CASE UNCHANGED <<pc, walkVars>>
  <2>1. Content' = Content /\ slot' = slot /\ sec' = sec /\ pc' = pc
    BY <1>3, ContentFrozen DEF walkVars
  <2> QED BY <2>1 DEF ReaderInv
<1>4. pc' = "records" => PopDirectory \/ NextSector \/ ReadRecord \/ UNCHANGED <<pc, walkVars>>
  BY DEF Next, Step, Done, Walk, WalkStep, Claim, TakeClaim, LastPiece, vars,
         NoPrimary, StartAtRoot, RecordsRead, SkipDots, YieldFile, YieldDirectory,
         DirectoryDone, WalkEnds
<1> QED BY <1>1, <1>2, <1>3, <1>4

LEMMA PathStep == TypeInv /\ ReaderInv /\ PathInv /\ [Next]_vars => PathInv'
<1> SUFFICES ASSUME TypeInv, ReaderInv, PathInv, [Next]_vars PROVE PathInv'
  OBVIOUS
<1>0. /\ WalkTypeOK /\ WalkTypeOK'
      /\ \A p : GoodPath(p)' <=> GoodPath(p)
      /\ \A v : Leads(v)' <=> Leads(v)
      /\ \A d : Children(d)' = Children(d)
  BY TypeStep, PathFrozen, FrozenStep DEF TypeInv, TypeOK
<1> DEFINE Stacked(q) == \A k \in 1 .. Len(q) : Leads(q[k])
           Shown(d, q) == \A z \in 1 .. Len(q) : q[z] = Dot \/ q[z] \in Children(d)
           Told(q) == \A y \in 1 .. Len(q) :
                        GoodPath(q[y].path) /\ q[y].path[Len(q[y].path)] = q[y].id
<1>a. /\ Stacked(stack)
      /\ pc \in {"records", "loop"} => Leads(dir) /\ Shown(dir.id, recs)
      /\ Told(yielded)
  BY DEF PathInv
<1>b. SUFFICES /\ Stacked(stack')
               /\ pc' \in {"records", "loop"} => Leads(dir') /\ Shown(dir'.id, recs')
               /\ Told(yielded')
  BY <1>0 DEF PathInv
<1>1. CASE StartAtRoot
  <2>1. PICK k \in 1 .. Len(volume.desc) :
          IsPvd(k) /\ stack' = <<[id |-> volume.desc[k].root, path |-> <<>>]>>
    BY <1>1 DEF StartAtRoot
  <2>2. Leads([id |-> volume.desc[k].root, path |-> <<>>])
    BY <2>1 DEF Leads, IsRoot
  <2>3. Stacked(stack')
    BY <2>1, <2>2
  <2> QED BY <1>1, <1>a, <2>3 DEF StartAtRoot
<1>2. CASE PopDirectory
  <2>1. stack \in Seq(Visits) /\ stack # <<>>
    BY <1>0, <1>2 DEF WalkTypeOK, PopDirectory
  <2>2. Head(stack) = stack[1] /\ 1 \in 1 .. Len(stack)
    BY <2>1
  <2>3. /\ Len(Tail(stack)) = Len(stack) - 1
        /\ \A k \in 1 .. Len(stack) - 1 : Tail(stack)[k] = stack[k + 1] /\ k + 1 \in 1 .. Len(stack)
    BY <2>1
  <2>4. Leads(dir') /\ Stacked(stack')
    BY <1>2, <1>a, <2>2, <2>3 DEF PopDirectory
  <2>5. recs' = <<>> /\ yielded' = yielded
    BY <1>2 DEF PopDirectory
  <2> QED BY <1>a, <2>4, <2>5
<1>3. CASE ReadRecord
  <2>1. Content[sec][slot] = Dot \/ Content[sec][slot] \in Children(dir.id)
    BY <1>3, ReadsChild
  <2>2. recs \in Seq(Ids \cup {Dot}) /\ Shown(dir.id, recs) /\ Leads(dir)
    BY <1>0, <1>3, <1>a DEF WalkTypeOK, ReadRecord
  <2>3. /\ Len(recs') = Len(recs) + 1 /\ recs'[Len(recs) + 1] = Content[sec][slot]
        /\ \A z \in 1 .. Len(recs) : recs'[z] = recs[z]
    BY <1>3, <2>2, ReadingIs
  <2>4. Shown(dir.id, recs')
    <3> SUFFICES ASSUME NEW z \in 1 .. Len(recs')
                 PROVE  recs'[z] = Dot \/ recs'[z] \in Children(dir.id)
      OBVIOUS
    <3>1. z \in 1 .. Len(recs) \/ z = Len(recs) + 1
      BY <2>2, <2>3
    <3> QED BY <2>1, <2>2, <2>3, <3>1
  <2>5. UNCHANGED <<stack, dir, yielded>>
    BY <1>3 DEF ReadRecord
  <2> QED BY <1>a, <2>2, <2>4, <2>5
<1>4. CASE YieldFile \/ YieldDirectory
  <2>1. /\ dir \in Visits /\ dir.id \in volume.dirs /\ Leads(dir) /\ Shown(dir.id, recs)
        /\ recs \in Seq(Ids \cup {Dot}) /\ x \in 1 .. Len(recs)
        /\ yielded \in Seq(Visits) /\ stack \in Seq(Visits)
    BY <1>0, <1>4, <1>a DEF WalkTypeOK, YieldFile, YieldDirectory
  <2>2. recs[x] # Dot
    BY <1>4, GivenFacts DEF YieldFile, YieldDirectory, Dot, TypeInv
  <2>3. recs[x] \in Ids /\ recs[x] \in Children(dir.id)
    BY <2>1, <2>2
  <2>4. GoodPath(Append(dir.path, recs[x]))
          /\ Append(dir.path, recs[x])[Len(dir.path) + 1] = recs[x]
    BY <2>1, <2>3, Extend
  <2>5. GoodPath(Found.path) /\ Found.path[Len(Found.path)] = Found.id
    <3>1. dir.path \in Seq(Ids)
      BY <2>1 DEF Visits
    <3>2. Len(Append(dir.path, recs[x])) = Len(dir.path) + 1
      BY <2>3, <3>1
    <3> QED BY <2>4, <3>2 DEF Found
  <2>6. Leads(Found)
    BY <2>5 DEF Leads
  <2>7. UNCHANGED <<dir, recs>> /\ yielded' = Append(yielded, Found)
          /\ stack' \in {stack, Append(stack, Found)}
    BY <1>4 DEF YieldFile, YieldDirectory
  <2> HIDE DEF Found
  <2>8. Told(yielded')
    <3> SUFFICES ASSUME NEW y \in 1 .. Len(yielded')
                 PROVE  /\ GoodPath(yielded'[y].path)
                        /\ yielded'[y].path[Len(yielded'[y].path)] = yielded'[y].id
      OBVIOUS
    <3>1. Len(yielded) \in Nat /\ Len(yielded') = Len(yielded) + 1
      BY <2>1, <2>7
    <3>2. CASE y \in 1 .. Len(yielded)
      <4>1. yielded'[y] = yielded[y]
        BY <2>1, <2>7, <3>2
      <4> QED BY <1>a, <3>2, <4>1
    <3>3. CASE y = Len(yielded) + 1
      <4>1. yielded'[y] = Found
        BY <2>1, <2>7, <3>3
      <4> QED BY <2>5, <4>1
    <3> QED BY <3>1, <3>2, <3>3
  <2>9. Stacked(stack')
    <3>1. CASE stack' = stack
      BY <1>a, <3>1
    <3>2. CASE stack' = Append(stack, Found)
      <4> SUFFICES ASSUME NEW k \in 1 .. Len(stack') PROVE Leads(stack'[k])
        OBVIOUS
      <4>1. Len(stack) \in Nat /\ Len(stack') = Len(stack) + 1
        BY <2>1, <3>2
      <4>2. CASE k \in 1 .. Len(stack)
        <5>1. stack'[k] = stack[k]
          BY <2>1, <3>2, <4>2
        <5> QED BY <1>a, <4>2, <5>1
      <4>3. CASE k = Len(stack) + 1
        <5>1. stack'[k] = Found
          BY <2>1, <3>2, <4>3
        <5> QED BY <2>6, <5>1
      <4> QED BY <4>1, <4>2, <4>3
    <3> QED BY <2>7, <3>1, <3>2
  <2> QED BY <2>1, <2>7, <2>8, <2>9
<1>5. CASE UNCHANGED <<stack, dir, recs, yielded>>
           /\ (pc' \in {"records", "loop"} => pc \in {"records", "loop"})
  BY <1>a, <1>5
<1>6. StartAtRoot \/ PopDirectory \/ ReadRecord \/ YieldFile \/ YieldDirectory
        \/ (UNCHANGED <<stack, dir, recs, yielded>>
              /\ (pc' \in {"records", "loop"} => pc \in {"records", "loop"}))
  BY DEF Next, Step, Done, Walk, WalkStep, Claim, TakeClaim, LastPiece, vars, walkVars,
         NoPrimary, NextSector, RecordsRead, SkipDots, DirectoryDone, WalkEnds
<1> QED BY <1>1, <1>2, <1>3, <1>4, <1>5, <1>6

\* What Fs, the listing and the extraction are given as an entry's path is true:
\* a chain of directories from the root, each holding the next, on every disc,
\* one whose directories point back at each other included.
THEOREM PathsLeadThere == Spec => []PathsAreTrue
<1>1. Init => ReaderInv /\ PathInv
  BY DEF Init, WalkInit, ReaderInv, PathInv
<1>2. PathInv => PathsAreTrue
  BY DEF PathInv, PathsAreTrue, GoodPath
<1> QED BY <1>1, <1>2, TypeInit, TypeStep, ReaderStep, PathStep, PTL DEF Spec

-----------------------------------------------------------------------------
(* Nothing is left out                                                     *)

In(q, e) == \E z \in 1 .. Len(q) : q[z] = e

\* What records has gone past is in its list.
ListInv ==
  pc = "records" =>
    /\ x = 1
    /\ \A s \in 1 .. Len(Content) :
         s < sec => \A t \in Live(Content[s]) : In(recs, Content[s][t])
    /\ sec <= Len(Content) => \A t \in 1 .. slot - 1 : In(recs, Content[sec][t])

\* The loop holds every entry of its directory, and has yielded those before x.
LoopInv ==
  pc = "loop" =>
    /\ \A e \in Children(dir.id) : In(recs, e)
    /\ \A z \in 1 .. x - 1 : recs[z] = Dot \/ Yielded(recs[z])

Waiting(d) == \E k \in 1 .. Len(stack) : stack[k].id = d

Reading(d) == pc \in {"records", "loop"} /\ dir.id = d

Exhausted(d) == \A e \in Children(d) : Yielded(e)

\* A directory that has been reached is waiting, being read, or exhausted.
ReachInv ==
  /\ pc = "pvd" => yielded = <<>>
  /\ pc = "walked" => stack = <<>>
  /\ pc \notin {"pvd", "failed"} =>
       \A d \in volume.dirs :
         IsRoot(d) \/ Yielded(d) => Waiting(d) \/ Reading(d) \/ Exhausted(d)

LEMMA AppendIn ==
  ASSUME NEW S, NEW q \in Seq(S), NEW a \in S
  PROVE  \A e : In(Append(q, a), e) <=> In(q, e) \/ e = a
<1>1. /\ Len(q) \in Nat /\ Len(Append(q, a)) = Len(q) + 1
      /\ Append(q, a)[Len(q) + 1] = a
      /\ \A z \in 1 .. Len(q) : Append(q, a)[z] = q[z]
  OBVIOUS
<1>2. \A z : z \in 1 .. Len(q) + 1 <=> z \in 1 .. Len(q) \/ z = Len(q) + 1
  BY <1>1
<1> DEFINE r == Append(q, a)
<1>3. \A z \in 1 .. Len(q) : r[z] = q[z]
  BY <1>1
<1>4. r[Len(q) + 1] = a /\ Len(r) = Len(q) + 1
  BY <1>1
<1> HIDE DEF r
<1>5. \A e : In(r, e) <=> In(q, e) \/ e = a
  BY <1>2, <1>3, <1>4 DEF In
<1> QED BY <1>5 DEF r

LEMMA ListStep ==
  TypeInv /\ ReaderInv /\ ListInv /\ [Next]_vars => ListInv'
<1> SUFFICES ASSUME TypeInv, ReaderInv, ListInv, [Next]_vars, pc' = "records"
             PROVE  ListInv'
  BY DEF ListInv
<1>0. /\ WalkTypeOK /\ WalkTypeOK' /\ volume' = volume
      /\ \A c : Live(c)' = Live(c)
      /\ dir'.id \in volume.dirs /\ Content' \in Seq(Seq(Ids \cup {Dot, End}))
  <2>1. WalkTypeOK /\ WalkTypeOK' /\ volume' = volume /\ Given
    BY TypeStep, FrozenStep DEF TypeInv, TypeOK
  <2>2. dir'.id \in volume.dirs
    BY <2>1 DEF WalkTypeOK
  <2>3. Content' \in Seq(Seq(Ids \cup {Dot, End}))
    BY <2>1, <2>2, ContentNext
  <2> QED BY <2>1, <2>2, <2>3 DEF Live
<1>1. CASE PopDirectory
  <2>1. x' = 1 /\ sec' = 1 /\ slot' = 1
    BY <1>1 DEF PopDirectory
  <2> QED BY <1>0, <2>1 DEF ListInv
<1>2. CASE ReadRecord
  <2>1. /\ x' = x /\ sec' = sec /\ slot' = slot + 1 /\ dir' = dir /\ pc = "records"
        /\ recs' = Append(recs, Content[sec][slot]) /\ sec <= Len(Content)
    BY <1>2, ReadingIs DEF ReadRecord
  <2>2. Content' = Content /\ slot \in Nat /\ recs \in Seq(Ids \cup {Dot})
    BY <1>0, <2>1, ContentFrozen DEF WalkTypeOK
  <2>3. Content[sec][slot] \in Ids \cup {Dot}
    <3>1. Len(recs') = Len(recs) + 1 /\ recs'[Len(recs) + 1] = Content[sec][slot]
            /\ Len(recs) \in Nat
      BY <2>1, <2>2
    <3> QED BY <1>0, <3>1 DEF WalkTypeOK
  <2>4. \A e : In(recs', e) <=> In(recs, e) \/ e = Content[sec][slot]
    BY <2>1, <2>2, <2>3, AppendIn
  <2>5. \A s \in 1 .. Len(Content) :
          s < sec => \A t \in Live(Content[s]) : In(recs', Content[s][t])
    BY <2>1, <2>4 DEF ListInv
  <2>6. \A t \in 1 .. slot : In(recs', Content[sec][t])
    <3>1. \A t \in 1 .. slot : t \in 1 .. slot - 1 \/ t = slot
      BY <2>2
    <3> QED BY <2>1, <2>4, <3>1 DEF ListInv
  <2>7. slot' - 1 = slot /\ x' = 1
    BY <2>1, <2>2 DEF ListInv
  <2> QED BY <1>0, <2>1, <2>2, <2>5, <2>6, <2>7 DEF ListInv, In
<1>3. CASE NextSector
  <2>1. /\ x' = x /\ sec' = sec + 1 /\ slot' = 1 /\ dir' = dir /\ recs' = recs
        /\ pc = "records" /\ sec <= Len(Content)
        /\ ~(slot <= Len(Content[sec]) /\ Content[sec][slot] # End)
    BY <1>3, ReadingIs DEF NextSector
  <2>2. Content' = Content /\ slot \in Nat \ {0} /\ sec \in Nat
    BY <1>0, <2>1, ContentFrozen DEF WalkTypeOK
  <2>3. sec \in 1 .. Len(Content) /\ Content[sec] \in Seq(Ids \cup {Dot, End})
    BY <1>0, <2>1, <2>2 DEF WalkTypeOK
  <2>4. \A t \in Live(Content[sec]) : t \in 1 .. slot - 1
    <3> SUFFICES ASSUME NEW t \in Live(Content[sec]), ~(t < slot) PROVE FALSE
      BY <2>2, <2>3 DEF Live
    <3>1. /\ t \in 1 .. Len(Content[sec])
          /\ \A u \in 1 .. t : Content[sec][u] # End
      BY DEF Live
    <3>2. slot \in 1 .. t /\ slot <= Len(Content[sec])
      BY <2>2, <2>3, <3>1
    <3> QED BY <2>1, <3>1, <3>2
  <2>5. \A t \in Live(Content[sec]) : In(recs, Content[sec][t])
    BY <2>1, <2>4 DEF ListInv
  <2>6. \A s \in 1 .. Len(Content) : s < sec + 1 => s < sec \/ s = sec
    BY <2>2
  <2>7. \A s \in 1 .. Len(Content) :
          s < sec + 1 => \A t \in Live(Content[s]) : In(recs, Content[s][t])
    BY <2>1, <2>5, <2>6 DEF ListInv
  <2>8. x' = 1 /\ \A t \in 1 .. slot' - 1 : FALSE
    BY <2>1 DEF ListInv
  <2> QED BY <1>0, <2>1, <2>2, <2>7, <2>8 DEF ListInv, In
<1>4. CASE UNCHANGED <<pc, walkVars>>
  <2>1. UNCHANGED <<pc, x, sec, slot, recs, Content>>
    BY <1>4, ContentFrozen DEF walkVars
  <2> QED BY <1>0, <2>1 DEF ListInv, In
<1>5. PopDirectory \/ NextSector \/ ReadRecord \/ UNCHANGED <<pc, walkVars>>
  BY DEF Next, Step, Done, Walk, WalkStep, Claim, TakeClaim, LastPiece, vars,
         NoPrimary, StartAtRoot, RecordsRead, SkipDots, YieldFile, YieldDirectory,
         DirectoryDone, WalkEnds
<1> QED BY <1>1, <1>2, <1>3, <1>4, <1>5

\* A step yields at most what the loop has found.
LEMMA YieldedGrows ==
  ASSUME TypeInv, [Next]_vars
  PROVE  /\ \A e : Yielded(e) => Yielded(e)'
         /\ YieldFile \/ YieldDirectory =>
              \A e : Yielded(e)' <=> Yielded(e) \/ e = recs[x]
         /\ ~(YieldFile \/ YieldDirectory) => yielded' = yielded
<1>1. ~(YieldFile \/ YieldDirectory) => yielded' = yielded
  BY DEF Next, Step, Done, Walk, WalkStep, Claim, TakeClaim, LastPiece, vars, walkVars,
         NoPrimary, StartAtRoot, PopDirectory, ReadRecord, NextSector, RecordsRead,
         SkipDots, DirectoryDone, WalkEnds
<1>2. ASSUME YieldFile \/ YieldDirectory
      PROVE  \A e : Yielded(e)' <=> Yielded(e) \/ e = recs[x]
  <2>1. yielded' = Append(yielded, Found) /\ yielded \in Seq(Visits)
    BY <1>2 DEF YieldFile, YieldDirectory, TypeInv, TypeOK, WalkTypeOK
  <2>2. Found.id = recs[x]
    BY DEF Found
  <2> HIDE DEF Found
  <2>3. /\ Len(yielded) \in Nat /\ Len(yielded') = Len(yielded) + 1
        /\ yielded'[Len(yielded) + 1] = Found
        /\ \A y \in 1 .. Len(yielded) : yielded'[y] = yielded[y]
    BY <2>1
  <2>4. \A y : y \in 1 .. Len(yielded) + 1 <=> y \in 1 .. Len(yielded) \/ y = Len(yielded) + 1
    BY <2>3
  <2> QED BY <2>2, <2>3, <2>4 DEF Yielded
<1>3. \A e : Yielded(e) => Yielded(e)'
  BY <1>1, <1>2 DEF Yielded
<1> QED BY <1>1, <1>2, <1>3

LEMMA LoopStep ==
  TypeInv /\ ListInv /\ LoopInv /\ [Next]_vars => LoopInv'
<1> SUFFICES ASSUME TypeInv, ListInv, LoopInv, [Next]_vars, pc' = "loop"
             PROVE  LoopInv'
  BY DEF LoopInv
<1>0. /\ WalkTypeOK /\ \A d : Children(d)' = Children(d)
      /\ \A e : Yielded(e) => Yielded(e)'
  BY FrozenStep, YieldedGrows DEF TypeInv, TypeOK
<1>1. CASE RecordsRead
  <2>1. pc = "records" /\ sec > Len(Content) /\ UNCHANGED <<dir, recs, x>>
    BY <1>1, ReadingIs DEF RecordsRead, walkVars
  <2>2. x = 1 /\ sec \in Nat /\ Len(Content) \in Nat
    <3>1. dir.id \in volume.dirs
      BY <1>0, <2>1 DEF WalkTypeOK
    <3> QED BY <1>0, <2>1, <3>1, GivenFacts DEF ListInv, WalkTypeOK, TypeInv, Content
  <2>3. ASSUME NEW e \in Children(dir.id)
        PROVE  In(recs, e)
    <3>1. PICK s \in 1 .. Len(Content) : \E t \in Live(Content[s]) : e = Content[s][t]
      <4>1. \A c : c \in Children(dir.id) =>
              \E s \in 1 .. Len(Content) : \E t \in Live(Content[s]) : c = Content[s][t]
        <5>1. \A c : c \in Children(dir.id) <=>
                /\ c # Dot
                /\ \E s \in 1 .. Len(Sectors(dir.id)) :
                     \E t \in Live(Sectors(dir.id)[s]) :
                       c = Sectors(dir.id)[s][t]
          BY ChildrenAre, Zenon
        <5> QED BY <5>1, Zenon DEF Content
      <4> QED BY <2>3, <4>1
    <3>2. s < sec
      BY <2>1, <2>2, <3>1
    <3> QED BY <2>1, <3>1, <3>2 DEF ListInv
  <2>4. x' = 1 /\ dir' = dir /\ recs' = recs
    BY <2>1, <2>2
  <2>5. \A z \in 1 .. x' - 1 : FALSE
    BY <2>4
  <2> QED BY <1>0, <2>3, <2>4, <2>5 DEF LoopInv, In
<1>2. CASE SkipDots \/ YieldFile \/ YieldDirectory
  <2>1. pc = "loop" /\ x' = x + 1 /\ UNCHANGED <<dir, recs>> /\ x \in Nat
    BY <1>0, <1>2 DEF SkipDots, YieldFile, YieldDirectory, WalkTypeOK
  <2>2. \A e : e = recs[x] => e = Dot \/ Yielded(e)'
    <3>1. CASE SkipDots
      BY <3>1 DEF SkipDots
    <3>2. CASE YieldFile \/ YieldDirectory
      BY <3>2, YieldedGrows
    <3> QED BY <1>2, <3>1, <3>2
  <2>3. \A z \in 1 .. x - 1 : \A e : e = recs[z] => e = Dot \/ Yielded(e)'
    BY <1>0, <2>1 DEF LoopInv
  <2>4. \A z \in 1 .. x' - 1 : z \in 1 .. x - 1 \/ z = x
    BY <2>1
  <2>5. \A z \in 1 .. x' - 1 : \A e : e = recs[z] => e = Dot \/ Yielded(e)'
    BY <2>2, <2>3, <2>4
  <2>6. \A z \in 1 .. x' - 1 :
          recs'[z] = Dot \/ \E y \in 1 .. Len(yielded') : yielded'[y].id = recs'[z]
    BY <2>1, <2>5 DEF Yielded
  <2>7. \A e \in Children(dir.id)' : In(recs, e)'
    BY <1>0, <2>1 DEF LoopInv, In
  <2> QED BY <2>6, <2>7 DEF LoopInv, Yielded
<1>3. CASE UNCHANGED <<pc, walkVars>>
  BY <1>0, <1>3 DEF LoopInv, walkVars, In, Yielded
<1>4. RecordsRead \/ SkipDots \/ YieldFile \/ YieldDirectory \/ UNCHANGED <<pc, walkVars>>
  BY DEF Next, Step, Done, Walk, WalkStep, Claim, TakeClaim, LastPiece, vars,
         NoPrimary, StartAtRoot, PopDirectory, ReadRecord, NextSector,
         DirectoryDone, WalkEnds
<1> QED BY <1>1, <1>2, <1>3, <1>4

LEMMA ReachStep ==
  TypeInv /\ LoopInv /\ ReachInv /\ [Next]_vars => ReachInv'
<1> SUFFICES ASSUME TypeInv, LoopInv, ReachInv, [Next]_vars PROVE ReachInv'
  OBVIOUS
<1>0. /\ WalkTypeOK /\ volume' = volume
      /\ \A d : Children(d)' = Children(d)
      /\ \A d : IsRoot(d)' <=> IsRoot(d)
      /\ \A e : Yielded(e) => Yielded(e)'
      /\ \A d : Exhausted(d) => Exhausted(d)'
  <2>1. /\ WalkTypeOK /\ volume' = volume
        /\ \A d : Children(d)' = Children(d)
        /\ \A d : IsRoot(d)' <=> IsRoot(d)
        /\ \A e : Yielded(e) => Yielded(e)'
    BY FrozenStep, YieldedGrows DEF TypeInv, TypeOK
  <2> QED BY <2>1 DEF Exhausted
<1>1. CASE NoPrimary
  BY <1>1 DEF NoPrimary, ReachInv
<1>2. CASE StartAtRoot
  <2>1. PICK k \in 1 .. Len(volume.desc) :
          /\ IsPvd(k)
          /\ stack' = <<[id |-> volume.desc[k].root, path |-> <<>>]>>
    BY <1>2 DEF StartAtRoot
  <2>2. pc' = "pop" /\ yielded' = <<>>
    BY <1>2 DEF StartAtRoot, ReachInv
  <2>3. IsRoot(volume.desc[k].root)
    BY <2>1 DEF IsRoot
  <2>4. ASSUME NEW d, IsRoot(d) PROVE Waiting(d)'
    <3>1. d = volume.desc[k].root
      BY <2>3, <2>4, OneRoot
    <3> QED BY <2>1, <3>1 DEF Waiting
  <2>5. \A d : ~Yielded(d)'
    BY <2>2 DEF Yielded
  <2> QED BY <1>0, <2>2, <2>4, <2>5 DEF ReachInv
<1>3. CASE PopDirectory
  <2>1. /\ pc = "pop" /\ pc' = "records" /\ stack # <<>> /\ stack \in Seq(Visits)
        /\ stack' = Tail(stack) /\ dir' = Head(stack) /\ yielded' = yielded
    BY <1>0, <1>3 DEF PopDirectory, WalkTypeOK
  <2>2. /\ Len(stack') = Len(stack) - 1 /\ Len(stack) \in Nat /\ dir' = stack[1]
        /\ \A k \in 1 .. Len(stack) - 1 : stack'[k] = stack[k + 1]
    BY <2>1
  <2>3. ASSUME NEW d, Waiting(d) PROVE Waiting(d)' \/ dir'.id = d
    <3>1. PICK k \in 1 .. Len(stack) : stack[k].id = d
      BY <2>3 DEF Waiting
    <3>2. CASE k = 1
      BY <2>2, <3>1, <3>2
    <3>3. CASE k # 1
      <4>1. k - 1 \in 1 .. Len(stack') /\ stack'[k - 1] = stack[k]
        BY <2>2, <3>3
      <4> QED BY <3>1, <4>1 DEF Waiting
    <3> QED BY <3>2, <3>3
  <2>4. \A d : ~Reading(d) /\ (Yielded(d)' <=> Yielded(d))
    BY <2>1 DEF Reading, Yielded
  <2> QED BY <1>0, <2>1, <2>3, <2>4 DEF ReachInv, Reading
<1>4. CASE YieldFile \/ YieldDirectory
  <2>1. /\ pc = "loop" /\ UNCHANGED <<pc, dir>> /\ stack \in Seq(Visits)
        /\ stack' \in {stack, Append(stack, Found)}
        /\ recs[x] \in volume.dirs => stack' = Append(stack, Found)
        /\ x \in 1 .. Len(recs) /\ dir \in Visits /\ recs \in Seq(Ids \cup {Dot})
        /\ recs[x] # Dot
    <3>1. Dot \notin volume.dirs
      BY GivenFacts DEF Dot, TypeInv
    <3> QED BY <1>0, <1>4, <3>1 DEF YieldFile, YieldDirectory, WalkTypeOK
  <2>2. Found \in Visits /\ Found.id = recs[x]
    <3>1. recs[x] \in Ids
      BY <2>1
    <3> QED BY <2>1, <3>1 DEF Found, Visits
  <2> HIDE DEF Found
  <2>3. \A d : Waiting(d) => Waiting(d)'
    <3>1. \A k \in 1 .. Len(stack) : k \in 1 .. Len(stack') /\ stack'[k] = stack[k]
      BY <2>1, <2>2
    <3> QED BY <3>1 DEF Waiting
  <2>4. \A d \in volume.dirs : d = recs[x] => Waiting(d)'
    <3> SUFFICES ASSUME NEW d \in volume.dirs, d = recs[x] PROVE Waiting(d)'
      OBVIOUS
    <3>0. stack' = Append(stack, Found)
      BY <2>1
    <3>1. Len(stack') \in 1 .. Len(stack') /\ stack'[Len(stack')] = Found
      BY <2>1, <2>2, <3>0
    <3> QED BY <2>2, <3>1 DEF Waiting
  <2>5. \A d : Reading(d)' <=> Reading(d)
    BY <2>1 DEF Reading
  <2>6. \A d : Yielded(d)' <=> Yielded(d) \/ d = recs[x]
    BY <1>4, YieldedGrows
  <2> QED BY <1>0, <2>1, <2>3, <2>4, <2>5, <2>6 DEF ReachInv
<1>5. CASE DirectoryDone
  <2>1. /\ pc = "loop" /\ pc' = "pop" /\ x > Len(recs) /\ x \in Nat /\ Len(recs) \in Nat
        /\ UNCHANGED <<stack, yielded>>
    BY <1>0, <1>5 DEF DirectoryDone, walkVars, WalkTypeOK
  <2>2. Exhausted(dir.id)
    <3> SUFFICES ASSUME NEW e \in Children(dir.id) PROVE Yielded(e)
      BY DEF Exhausted
    <3>1. PICK z \in 1 .. Len(recs) : recs[z] = e
      BY <2>1 DEF LoopInv, In
    <3>2. z \in 1 .. x - 1
      BY <2>1
    <3>3. e # Dot
      BY ChildrenAre
    <3> QED BY <2>1, <3>1, <3>2, <3>3 DEF LoopInv
  <2>3. \A d : Reading(d) => Exhausted(d)
    BY <2>2 DEF Reading
  <2>4. \A d : (Waiting(d)' <=> Waiting(d)) /\ (Yielded(d)' <=> Yielded(d))
    BY <2>1 DEF Waiting, Yielded
  <2> QED BY <1>0, <2>1, <2>3, <2>4 DEF ReachInv
<1>6. CASE /\ UNCHANGED <<stack, dir, yielded>>
           /\ pc' = "walked" => stack = <<>>
           /\ pc' = "pvd" => pc = "pvd"
           /\ pc \in {"pvd", "failed"} <=> pc' \in {"pvd", "failed"}
           /\ pc \in {"records", "loop"} <=> pc' \in {"records", "loop"}
  <2>1. \A d : /\ Waiting(d)' <=> Waiting(d)
               /\ Reading(d)' <=> Reading(d)
               /\ Yielded(d)' <=> Yielded(d)
    BY <1>6 DEF Waiting, Reading, Yielded
  <2> QED BY <1>0, <1>6, <2>1 DEF ReachInv
<1>7. CASE ReadRecord \/ NextSector \/ RecordsRead \/ SkipDots
  <2>1. UNCHANGED <<stack, dir, yielded>>
    BY <1>7 DEF ReadRecord, NextSector, RecordsRead, SkipDots, walkVars
  <2>2. pc \in {"records", "loop"} /\ pc' \in {"records", "loop"}
    BY <1>7 DEF ReadRecord, NextSector, RecordsRead, SkipDots
  <2> QED BY <1>6, <2>1, <2>2
<1>8. CASE WalkEnds \/ Claim \/ TakeClaim \/ LastPiece
  <2>1. UNCHANGED <<stack, dir, yielded>>
    BY <1>8 DEF WalkEnds, Claim, TakeClaim, LastPiece, walkVars
  <2>2. /\ pc \in {"pop", "walked", "map"} /\ pc' \in {"walked", "map", "mapped"}
        /\ pc' = "walked" => stack = <<>>
    BY <1>8 DEF WalkEnds, Claim, TakeClaim, LastPiece
  <2> QED BY <1>6, <2>1, <2>2
<1>9. CASE UNCHANGED vars
  BY <1>6, <1>9 DEF vars, walkVars, ReachInv
<1> QED BY <1>1, <1>2, <1>3, <1>4, <1>5, <1>7, <1>8, <1>9
        DEF Next, Step, Done, Walk, WalkStep

\* When the walk ends it has yielded all that can be reached from the root,
\* over every sector of every directory, on every disc.
THEOREM NothingIsLeftOut == Spec => []WalkIsComplete
<1>1. Init => ReaderInv /\ ListInv /\ LoopInv /\ ReachInv
  BY DEF Init, WalkInit, ReaderInv, ListInv, LoopInv, ReachInv
<1>2. TypeInv /\ ReachInv => WalkIsComplete
  BY DEF ReachInv, WalkIsComplete, Waiting, Reading, Exhausted, TypeInv, TypeOK, WalkTypeOK
<1> QED BY <1>1, <1>2, TypeInit, TypeStep, ReaderStep, ListStep, LoopStep, ReachStep,
           PTL DEF Spec

-----------------------------------------------------------------------------
(* Nothing is yielded twice on a tree                                      *)

Apart(q) == \A z, w \in 1 .. Len(q) : q[z].id = q[w].id => z = w

Reached(d) == IsRoot(d) \/ Yielded(d)

\* The record e lies in the sectors c in front of place v of sector u.
Passed(c, u, v, e) ==
  \E s \in 1 .. Len(c) : \E t \in Live(c[s]) :
    (s < u \/ (s = u /\ t < v)) /\ e = c[s][t]

\* No entry is in the list of records twice.
SinglesInv ==
  IsTree /\ pc \in {"records", "loop"} =>
    /\ \A z, w \in 1 .. Len(recs) : recs[z] = recs[w] => recs[z] = Dot \/ z = w
    /\ pc = "records" => \A z \in 1 .. Len(recs) : recs[z] = Dot \/ Passed(Content, sec, slot, recs[z])

\* The walk is going to come to e in the directory it is reading.
Pending(e) ==
  \/ pc = "records" /\ e \in Children(dir.id)
  \/ pc = "loop" /\ \E z \in x .. Len(recs) : e = recs[z] /\ e # Dot

\* What a directory that waits holds has not been yielded, and what has been
\* yielded is held by the root or by a directory yielded before.
OnceInv ==
  IsTree =>
    /\ Apart(yielded) /\ Apart(stack)
    /\ pc = "pvd" => stack = <<>>
    /\ \A d : Waiting(d) => Reached(d) /\ \A e \in Children(d) : ~Yielded(e)
    /\ \A d \in volume.dirs : \A e \in Children(d) : Yielded(e) => Reached(d)
    /\ \A d : Reading(d) => Reached(d) /\ ~Waiting(d)
    /\ \A e : Pending(e) => ~Yielded(e)

LEMMA TreeFrozen == ASSUME [Next]_vars PROVE IsTree' <=> IsTree
<1>1. volume' = volume
  BY FrozenStep
<1>2. /\ \A d : IsRoot(d)' <=> IsRoot(d)
      /\ \A d : Children(d)' = Children(d)
      /\ \A c : Live(c)' = Live(c)
  BY FrozenStep DEF Live
<1> QED BY <1>1, <1>2, SectorsFrozen DEF IsTree

LEMMA PassedGrows ==
  ASSUME NEW c \in Seq(Seq(Ids \cup {Dot, End})),
         NEW u \in 1 .. Len(c), NEW v \in Nat
  PROVE  /\ \A e : Passed(c, u, v, e) => Passed(c, u, v + 1, e) /\ Passed(c, u + 1, 1, e)
         /\ v \in Live(c[u]) => Passed(c, u, v + 1, c[u][v])
<1>1. \A s \in 1 .. Len(c) : \A t \in Live(c[s]) :
        (s < u \/ (s = u /\ t < v)) =>
          (s < u \/ (s = u /\ t < v + 1)) /\ (s < u + 1 \/ (s = u + 1 /\ t < 1))
  <2>1. \A s \in 1 .. Len(c) : \A t \in Live(c[s]) : s \in Nat /\ t \in Nat
    BY DEF Live
  <2>2. u \in Nat
    OBVIOUS
  <2> SUFFICES ASSUME NEW s \in 1 .. Len(c), NEW t \in Live(c[s]),
                      s < u \/ (s = u /\ t < v)
               PROVE  (s < u \/ (s = u /\ t < v + 1)) /\ (s < u + 1 \/ (s = u + 1 /\ t < 1))
    OBVIOUS
  <2>3. s \in Nat /\ t \in Nat
    BY <2>1
  <2> QED BY <2>2, <2>3
<1>2. v < v + 1
  OBVIOUS
<1> QED BY <1>1, <1>2, Zenon DEF Passed

LEMMA SinglesStep ==
  TypeInv /\ ReaderInv /\ SinglesInv /\ [Next]_vars => SinglesInv'
<1> SUFFICES ASSUME TypeInv, ReaderInv, SinglesInv, [Next]_vars, IsTree,
                    pc' \in {"records", "loop"}
             PROVE  SinglesInv'
  BY TreeFrozen DEF SinglesInv
<1>0. WalkTypeOK /\ volume' = volume
  BY FrozenStep DEF TypeInv, TypeOK
<1>1. CASE PopDirectory
  <2>1. recs' = <<>>
    BY <1>1 DEF PopDirectory
  <2> QED BY <2>1 DEF SinglesInv
<1>2. CASE ReadRecord
  <2>1. /\ sec' = sec /\ slot' = slot + 1 /\ dir' = dir /\ pc = "records"
        /\ recs' = Append(recs, Content[sec][slot])
    BY <1>2, ReadingIs DEF ReadRecord
  <2>2. /\ Content' = Content /\ slot \in Nat /\ recs \in Seq(Ids \cup {Dot})
        /\ slot \in Live(Content[sec]) /\ dir.id \in volume.dirs
    BY <1>0, <1>2, <2>1, ReadsChild, ContentFrozen DEF WalkTypeOK
  <2>3. Content \in Seq(Seq(Ids \cup {Dot, End})) /\ sec \in 1 .. Len(Content)
    <3>1. Content \in Seq(Seq(Ids \cup {Dot, End}))
      BY <2>2, GivenFacts DEF TypeInv, Content
    <3> QED BY <1>0, <1>2, <3>1, ReadingIs DEF WalkTypeOK
  <2> DEFINE a == Content[sec][slot]
  <2>4. \A z \in 1 .. Len(recs) : recs[z] = Dot \/ Passed(Content, sec, slot, recs[z])
    BY <2>1 DEF SinglesInv
  <2>5. a = Dot \/ ~Passed(Content, sec, slot, a)
    <3> SUFFICES ASSUME NEW s \in 1 .. Len(Content), NEW t \in Live(Content[s]),
                        s < sec \/ (s = sec /\ t < slot), a = Content[s][t]
                 PROVE  a = Dot
      BY DEF Passed
    <3>1. ~(s = sec /\ t = slot)
      BY <2>2, <2>3
    <3>2. \A u, w \in 1 .. Len(Content) : \A k \in Live(Content[u]), m \in Live(Content[w]) :
            Content[u][k] = Content[w][m] => Content[u][k] = Dot \/ (u = w /\ k = m)
      BY <2>2, Zenon DEF IsTree, Content
    <3>3. \A k \in Live(Content[sec]), m \in Live(Content[s]) :
            Content[sec][k] = Content[s][m] => Content[sec][k] = Dot \/ (sec = s /\ k = m)
      BY <2>3, <3>2
    <3>4. Content[sec][slot] = Content[s][t] =>
            Content[sec][slot] = Dot \/ (sec = s /\ slot = t)
      BY <2>2, <3>3
    <3>5. a = Dot \/ (s = sec /\ t = slot)
      BY <3>4
    <3> QED BY <3>1, <3>5
  <2>6. /\ \A e : Passed(Content, sec, slot, e) => Passed(Content, sec, slot + 1, e)
        /\ Passed(Content, sec, slot + 1, a)
    BY <2>2, <2>3, PassedGrows
  <2>7. /\ Len(recs') = Len(recs) + 1 /\ Len(recs) \in Nat
        /\ recs'[Len(recs) + 1] = a
        /\ \A z \in 1 .. Len(recs) : recs'[z] = recs[z]
    BY <2>1, <2>2
  <2> HIDE DEF a
  <2>8. \A z \in 1 .. Len(recs') : z \in 1 .. Len(recs) \/ z = Len(recs) + 1
    BY <2>7
  <2>9. \A z \in 1 .. Len(recs') :
          recs'[z] = Dot \/ Passed(Content, sec, slot + 1, recs'[z])
    BY <2>4, <2>6, <2>7, <2>8
  <2>10. \A z \in 1 .. Len(recs) : recs[z] = a => a = Dot
    BY <2>4, <2>5
  <2>11. \A z, w \in 1 .. Len(recs) : recs[z] = recs[w] => recs[z] = Dot \/ z = w
    BY <2>1 DEF SinglesInv
  <2>12. \A z, w \in 1 .. Len(recs') : recs'[z] = recs'[w] => recs'[z] = Dot \/ z = w
    BY <2>7, <2>8, <2>10, <2>11
  <2> QED BY <2>1, <2>2, <2>9, <2>12 DEF SinglesInv
<1>3. CASE NextSector
  <2>1. /\ sec' = sec + 1 /\ slot' = 1 /\ dir' = dir /\ pc = "records" /\ recs' = recs
    BY <1>3 DEF NextSector
  <2>2. Content' = Content /\ slot \in Nat /\ dir.id \in volume.dirs
    BY <1>0, <2>1, ContentFrozen DEF WalkTypeOK
  <2>3. Content \in Seq(Seq(Ids \cup {Dot, End})) /\ sec \in 1 .. Len(Content)
    <3>1. Content \in Seq(Seq(Ids \cup {Dot, End}))
      BY <2>2, GivenFacts DEF TypeInv, Content
    <3> QED BY <1>0, <1>3, <3>1, ReadingIs DEF WalkTypeOK
  <2>4. \A e : Passed(Content, sec, slot, e) => Passed(Content, sec + 1, 1, e)
    BY <2>2, <2>3, PassedGrows
  <2>5. /\ \A z, w \in 1 .. Len(recs) : recs[z] = recs[w] => recs[z] = Dot \/ z = w
        /\ \A z \in 1 .. Len(recs) : recs[z] = Dot \/ Passed(Content, sec, slot, recs[z])
    BY <2>1 DEF SinglesInv
  <2>6. \A z \in 1 .. Len(recs) : recs[z] = Dot \/ Passed(Content, sec + 1, 1, recs[z])
    BY <2>4, <2>5
  <2> QED BY <2>1, <2>2, <2>5, <2>6 DEF SinglesInv
<1>4. CASE UNCHANGED recs /\ pc \in {"records", "loop"} /\ pc' = "loop"
  BY <1>4 DEF SinglesInv
<1>5. CASE UNCHANGED <<pc, walkVars>>
  <2>1. UNCHANGED <<pc, sec, slot, recs, Content>>
    BY <1>5, ContentFrozen DEF walkVars
  <2> QED BY <2>1 DEF SinglesInv
<1>6. PopDirectory \/ NextSector \/ ReadRecord \/ UNCHANGED <<pc, walkVars>>
        \/ (UNCHANGED recs /\ pc \in {"records", "loop"} /\ pc' = "loop")
  BY DEF Next, Step, Done, Walk, WalkStep, Claim, TakeClaim, LastPiece, vars, walkVars,
         NoPrimary, StartAtRoot, RecordsRead, SkipDots, YieldFile, YieldDirectory,
         DirectoryDone, WalkEnds
<1> QED BY <1>1, <1>2, <1>3, <1>4, <1>5, <1>6

\* A sequence that takes on an element with a new id stays apart.
LEMMA ApartGrows ==
  ASSUME NEW q \in Seq(Visits), Apart(q), NEW v \in Visits,
         \A z \in 1 .. Len(q) : q[z].id # v.id
  PROVE  Apart(Append(q, v))
<1> DEFINE r == Append(q, v)
<1>1. /\ Len(q) \in Nat /\ Len(r) = Len(q) + 1 /\ r[Len(q) + 1] = v
      /\ \A z \in 1 .. Len(q) : r[z] = q[z]
  OBVIOUS
<1> HIDE DEF r
<1>2. \A z \in 1 .. Len(r) : z \in 1 .. Len(q) \/ z = Len(q) + 1
  BY <1>1
<1>3. Apart(r)
  BY <1>1, <1>2 DEF Apart
<1> QED BY <1>3 DEF r

LEMMA OnceStep ==
  /\ TypeInv /\ PathInv /\ SinglesInv /\ ReachInv /\ OnceInv
  /\ [Next]_vars
  => OnceInv'
<1> SUFFICES ASSUME TypeInv, PathInv, SinglesInv, ReachInv, OnceInv, [Next]_vars, IsTree
             PROVE  OnceInv'
  BY TreeFrozen DEF OnceInv
<1>0. /\ WalkTypeOK /\ volume' = volume
      /\ \A d : Children(d)' = Children(d)
      /\ \A d : IsRoot(d)' <=> IsRoot(d)
  BY FrozenStep DEF TypeInv, TypeOK
<1>1. /\ Apart(yielded) /\ Apart(stack)
      /\ pc = "pvd" => stack = <<>>
      /\ \A d : Waiting(d) => Reached(d) /\ \A e \in Children(d) : ~Yielded(e)
      /\ \A d \in volume.dirs : \A e \in Children(d) : Yielded(e) => Reached(d)
      /\ \A d : Reading(d) => Reached(d) /\ ~Waiting(d)
      /\ \A e : Pending(e) => ~Yielded(e)
  BY DEF OnceInv
<1>2. ASSUME /\ Apart(yielded') /\ Apart(stack')
             /\ pc' = "pvd" => stack' = <<>>
             /\ \A d : Waiting(d)' => Reached(d)' /\ \A e \in Children(d) : ~Yielded(e)'
             /\ \A d \in volume.dirs : \A e \in Children(d) : Yielded(e)' => Reached(d)'
             /\ \A d : Reading(d)' => Reached(d)' /\ ~Waiting(d)'
             /\ \A e : Pending(e)' => ~Yielded(e)'
      PROVE  OnceInv'
  BY <1>0, <1>2 DEF OnceInv, Apart
<1>3. ASSUME yielded' = yielded
      PROVE  \A d : (Yielded(d)' <=> Yielded(d)) /\ (Reached(d)' <=> Reached(d))
  BY <1>0, <1>3 DEF Yielded, Reached
<1>4. ASSUME stack' = stack
      PROVE  \A d : Waiting(d)' <=> Waiting(d)
  BY <1>4 DEF Waiting
<1>5. CASE UNCHANGED <<stack, dir, recs, x, yielded>>
           /\ (pc' = pc \/ pc' \notin {"pvd", "records", "loop"})
  <2>1. \A d : Reading(d)' => Reading(d)
    BY <1>5 DEF Reading
  <2>2. \A e : Pending(e)' => Pending(e)
    BY <1>0, <1>5 DEF Pending
  <2> QED BY <1>1, <1>2, <1>3, <1>4, <1>5, <2>1, <2>2
<1>6. CASE StartAtRoot
  <2>1. PICK k \in 1 .. Len(volume.desc) :
          IsPvd(k) /\ stack' = <<[id |-> volume.desc[k].root, path |-> <<>>]>>
    BY <1>6 DEF StartAtRoot
  <2>2. pc' = "pop" /\ yielded' = <<>>
    BY <1>6 DEF StartAtRoot, ReachInv
  <2>3. \A d : ~Yielded(d)'
    BY <2>2 DEF Yielded
  <2>4. \A d : Waiting(d)' => IsRoot(d)
    BY <2>1 DEF Waiting, IsRoot
  <2>5. Apart(stack') /\ Apart(yielded')
    BY <2>1, <2>2 DEF Apart
  <2>6. \A d : IsRoot(d) => Reached(d)'
    BY <1>0 DEF Reached
  <2> QED BY <1>2, <2>2, <2>3, <2>4, <2>5, <2>6 DEF Reading, Pending
<1>7. CASE PopDirectory
  <2>1. /\ pc' = "records" /\ stack # <<>> /\ stack \in Seq(Visits)
        /\ stack' = Tail(stack) /\ dir' = Head(stack) /\ yielded' = yielded
    BY <1>0, <1>7 DEF PopDirectory, WalkTypeOK
  <2>2. /\ Len(stack') = Len(stack) - 1 /\ Len(stack) \in Nat \ {0} /\ dir' = stack[1]
        /\ \A k \in 1 .. Len(stack') : stack'[k] = stack[k + 1] /\ k + 1 \in 1 .. Len(stack)
    BY <2>1
  <2>3. 1 \in 1 .. Len(stack) /\ \A k \in 1 .. Len(stack') : k + 1 # 1
    BY <2>2
  <2>4. \A d : Waiting(d)' => Waiting(d)
    BY <2>2 DEF Waiting
  <2>5. \A d : Reading(d)' => Waiting(d) /\ ~Waiting(d)'
    <3> SUFFICES ASSUME NEW d, d = stack[1].id
                 PROVE  Waiting(d) /\ ~Waiting(d)'
      BY <2>2 DEF Reading
    <3>1. \A k \in 1 .. Len(stack') : stack'[k].id # stack[1].id
      BY <1>1, <2>2, <2>3 DEF Apart
    <3> QED BY <2>3, <3>1 DEF Waiting
  <2>6. \A e : Pending(e)' => ~Yielded(e)
    <3> SUFFICES ASSUME NEW e, e \in Children(stack[1].id) PROVE ~Yielded(e)
      BY <1>0, <2>1, <2>2 DEF Pending
    <3>1. Waiting(stack[1].id)
      BY <2>3 DEF Waiting
    <3> QED BY <1>1, <3>1
  <2>7. Apart(stack')
    <3> SUFFICES ASSUME NEW z \in 1 .. Len(stack'), NEW w \in 1 .. Len(stack'),
                        stack'[z].id = stack'[w].id
                 PROVE  z = w
      BY DEF Apart
    <3>1. z + 1 = w + 1
      BY <1>1, <2>2 DEF Apart
    <3> QED BY <2>2, <3>1
  <2> QED BY <1>1, <1>2, <1>3, <2>1, <2>4, <2>5, <2>6, <2>7
<1>8. CASE ReadRecord
  <2>1. UNCHANGED <<stack, dir, yielded, pc>> /\ pc = "records"
    BY <1>8 DEF ReadRecord
  <2>2. \A d : Reading(d)' => Reading(d)
    BY <2>1 DEF Reading
  <2>3. \A e : Pending(e)' => Pending(e)
    BY <1>0, <2>1 DEF Pending
  <2> QED BY <1>1, <1>2, <1>3, <1>4, <2>1, <2>2, <2>3
<1>9. CASE RecordsRead
  <2>1. UNCHANGED <<stack, dir, yielded, recs, x>> /\ pc = "records" /\ pc' = "loop"
    BY <1>9 DEF RecordsRead, walkVars
  <2>2. \A d : Reading(d)' => Reading(d)
    BY <2>1 DEF Reading
  <2>3. \A e : Pending(e)' => Pending(e)
    <3>1. \A z \in 1 .. Len(recs) : recs[z] = Dot \/ recs[z] \in Children(dir.id)
      BY <2>1 DEF PathInv
    <3>2. \A z \in x .. Len(recs) : z \in 1 .. Len(recs)
      BY <1>0 DEF WalkTypeOK
    <3> QED BY <2>1, <3>1, <3>2 DEF Pending
  <2> QED BY <1>1, <1>2, <1>3, <1>4, <2>1, <2>2, <2>3
<1>10. CASE SkipDots
  <2>1. UNCHANGED <<stack, dir, yielded, recs, pc>> /\ x' = x + 1 /\ pc = "loop"
    BY <1>10 DEF SkipDots
  <2>2. \A d : Reading(d)' => Reading(d)
    BY <2>1 DEF Reading
  <2>3. \A e : Pending(e)' => Pending(e)
    <3>1. \A z \in x + 1 .. Len(recs) : z \in x .. Len(recs)
      BY <1>0 DEF WalkTypeOK
    <3> QED BY <2>1, <3>1 DEF Pending
  <2> QED BY <1>1, <1>2, <1>3, <1>4, <2>1, <2>2, <2>3
<1>11. CASE YieldFile \/ YieldDirectory
  <2> DEFINE a == recs[x]
  <2>1. /\ pc = "loop" /\ UNCHANGED <<pc, dir, recs>> /\ x' = x + 1
        /\ stack \in Seq(Visits) /\ yielded \in Seq(Visits)
        /\ yielded' = Append(yielded, Found)
        /\ stack' = stack \/ (a \in volume.dirs /\ stack' = Append(stack, Found))
        /\ x \in 1 .. Len(recs) /\ dir \in Visits /\ recs \in Seq(Ids \cup {Dot})
        /\ a # Dot /\ dir.id \in volume.dirs
    <3>1. Dot \notin volume.dirs
      BY GivenFacts DEF Dot, TypeInv
    <3> QED BY <1>0, <1>11, <3>1 DEF YieldFile, YieldDirectory, WalkTypeOK
  <2>2. Found \in Visits /\ Found.id = a
    <3>1. recs[x] \in Ids
      BY <2>1
    <3> QED BY <2>1, <3>1 DEF Found, Visits
  <2>3. Len(recs) \in Nat /\ x \in x .. Len(recs) /\ x \in Nat
    BY <2>1
  <2>4. a \in Children(dir.id)
    BY <2>1 DEF PathInv
  <2> HIDE DEF a, Found
  <2>5. \A d : Yielded(d)' <=> Yielded(d) \/ d = a
    BY <1>11, YieldedGrows DEF a
  <2>6. \A d : Reached(d)' <=> Reached(d) \/ d = a
    BY <1>0, <2>5 DEF Reached
  <2>7. ~Yielded(a) /\ ~Reached(a) /\ ~Waiting(a)
    <3>1. Pending(a)
      BY <2>1, <2>3 DEF Pending, a
    <3>2. ~IsRoot(a)
      BY <2>1, <2>4, Zenon DEF IsTree
    <3> QED BY <1>1, <3>1, <3>2 DEF Reached
  <2>8. Reading(dir.id)
    BY <2>1 DEF Reading
  <2>9. \A d \in volume.dirs : a \in Children(d) => d = dir.id
    BY <2>1, <2>4 DEF IsTree
  <2>10. \A d : Waiting(d)' <=> Waiting(d) \/ (stack' # stack /\ d = a)
    <3>1. CASE stack' = stack
      BY <1>4, <3>1
    <3>2. CASE stack' = Append(stack, Found)
      <4>1. /\ Len(stack) \in Nat /\ Len(stack') = Len(stack) + 1
            /\ stack'[Len(stack) + 1] = Found
            /\ \A k \in 1 .. Len(stack) : stack'[k] = stack[k]
        BY <2>1, <2>2, <3>2
      <4>2. \A k : k \in 1 .. Len(stack') <=> k \in 1 .. Len(stack) \/ k = Len(stack) + 1
        BY <4>1
      <4>3. stack' # stack
        BY <4>1
      <4>4. \A d : Waiting(d)' <=> Waiting(d) \/ d = a
        BY <2>2, <4>1, <4>2 DEF Waiting
      <4> QED BY <4>3, <4>4
    <3> QED BY <2>1, <3>1, <3>2
  <2>11. Apart(yielded') /\ Apart(stack')
    <3>1. /\ \A z \in 1 .. Len(yielded) : yielded[z].id # Found.id
          /\ \A z \in 1 .. Len(stack) : stack[z].id # Found.id
      BY <2>2, <2>7 DEF Yielded, Waiting
    <3> QED BY <1>1, <2>1, <2>2, <3>1, ApartGrows
  <2>12. ASSUME NEW d, Waiting(d)'
         PROVE  Reached(d)' /\ \A e \in Children(d) : ~Yielded(e)'
    <3>0. \A k \in 1 .. Len(stack) : stack[k].id \in volume.dirs
      BY <1>0 DEF WalkTypeOK
    <3>1. CASE Waiting(d)
      <4>1. d \in volume.dirs /\ d # dir.id
        BY <1>1, <2>8, <3>0, <3>1 DEF Waiting
      <4>2. a \notin Children(d)
        BY <2>9, <4>1
      <4> QED BY <1>1, <2>5, <2>6, <3>1, <4>2
    <3>2. CASE stack' # stack /\ d = a
      <4>1. a \in volume.dirs
        BY <2>1, <3>2
      <4>2. \A e \in Children(a) : ~Yielded(e)
        BY <1>1, <2>7, <4>1
      <4>3. a \notin Children(a)
        BY <1>1, <2>7, <2>8, <2>9, <4>1
      <4> QED BY <2>5, <2>6, <3>2, <4>2, <4>3
    <3> QED BY <2>10, <2>12, <3>1, <3>2
  <2>13. \A d \in volume.dirs : \A e \in Children(d) : Yielded(e)' => Reached(d)'
    BY <1>1, <2>5, <2>6, <2>8, <2>9
  <2>14. \A d : Reading(d)' => Reached(d)' /\ ~Waiting(d)'
    <3>1. \A d : Reading(d)' => d = dir.id
      BY <2>1 DEF Reading
    <3> QED BY <1>1, <2>6, <2>7, <2>8, <2>10, <3>1
  <2>15. \A e : Pending(e)' => ~Yielded(e)'
    <3> SUFFICES ASSUME NEW z \in x + 1 .. Len(recs), recs[z] # Dot
                 PROVE  ~Yielded(recs[z]) /\ recs[z] # a
      BY <2>1, <2>5 DEF Pending
    <3>1. z \in x .. Len(recs) /\ z \in 1 .. Len(recs) /\ z # x
      BY <2>1, <2>3
    <3>2. Pending(recs[z])
      BY <2>1, <3>1 DEF Pending
    <3>3. recs[z] # a
      BY <2>1, <3>1 DEF SinglesInv, a
    <3> QED BY <1>1, <3>2, <3>3
  <2> QED BY <1>2, <2>1, <2>11, <2>12, <2>13, <2>14, <2>15
<1>12. \/ UNCHANGED <<stack, dir, recs, x, yielded>>
          /\ (pc' = pc \/ pc' \notin {"pvd", "records", "loop"})
       \/ StartAtRoot \/ PopDirectory \/ ReadRecord \/ RecordsRead \/ SkipDots
       \/ YieldFile \/ YieldDirectory
  BY DEF Next, Step, Done, Walk, WalkStep, Claim, TakeClaim, LastPiece, vars, walkVars,
         NoPrimary, NextSector, DirectoryDone, WalkEnds
<1> QED BY <1>5, <1>6, <1>7, <1>8, <1>9, <1>10, <1>11, <1>12

\* On every disc whose directories form a tree, of whatever depth and in however
\* many sectors, the walk yields no entry a second time.
THEOREM NoneIsYieldedTwice == Spec => []YieldedOnce
<1>1. Init => SinglesInv /\ OnceInv
  BY DEF Init, WalkInit, SinglesInv, OnceInv, Apart, Waiting, Yielded, Reading, Pending
<1>2. Init => ReaderInv /\ PathInv /\ ListInv /\ LoopInv /\ ReachInv
  BY DEF Init, WalkInit, ReaderInv, PathInv, ListInv, LoopInv, ReachInv
<1>3. OnceInv => YieldedOnce
  BY DEF OnceInv, Apart, YieldedOnce
<1> QED BY <1>1, <1>2, <1>3, TypeInit, TypeStep, ReaderStep, PathStep, ListStep, LoopStep,
           ReachStep, SinglesStep, OnceStep, PTL DEF Spec

-----------------------------------------------------------------------------
(* The extraction                                                          *)

LEMMA ToolsStepIs == [ToolsNext]_toolVars => [Next]_vars
<1> SUFFICES ASSUME [ToolsNext]_toolVars PROVE [Next]_vars
  OBVIOUS
<1>1. CASE WalkOn \/ MapOn
  BY <1>1 DEF WalkOn, MapOn, Next, Step
<1>2. CASE ~(WalkOn \/ MapOn)
  BY <1>2 DEF ToolsNext, ToolsStep, MakeDirectory, OpenFile, NameTaken, AtEntry, CopyChunk,
              CloseFile, ExtractDone, Done, toolVars
<1> QED BY <1>1, <1>2

\* Copying the files out as they are yielded disturbs neither the walk nor the
\* map: every step of the tools is one of theirs or none.
THEOREM ExtractionLeavesWalk == ToolsSpec => Init /\ [][Next]_vars
<1>1. ToolsInit => Init
  BY DEF ToolsInit
<1> QED BY <1>1, ToolsStepIs, PTL DEF ToolsSpec

\* What the destination holds of the files dealt with.
Copied ==
  /\ DOMAIN out = {Dest(y) : y \in FilesTaken}
  /\ \A y \in FilesTaken :
       (\A z \in FilesTaken : Dest(z) = Dest(y) => z <= y) => out[Dest(y)] = Held(yielded[y].id)

\* The sectors of entry e that c of them are copied of.
Part(s, e, c) ==
  /\ s \in Seq(Nat)
  /\ Len(s) = c
  /\ \A q \in 1 .. c : s[q] = volume.lba[e] + q - 1

\* The same with a file half written.
Copying ==
  /\ taken < Len(yielded)
  /\ Entry \notin volume.dirs
  /\ Dest(taken + 1) \notin made
  /\ DOMAIN out = {Dest(y) : y \in FilesTaken} \cup {Dest(taken + 1)}
  /\ \A y \in FilesTaken :
       (\A z \in FilesTaken : Dest(z) = Dest(y) => z <= y) /\ Dest(y) # Dest(taken + 1)
         => out[Dest(y)] = Held(yielded[y].id)
  /\ \E c \in Nat :
       /\ c + left = volume.size[Entry]
       /\ fpos = volume.lba[Entry] + c
       /\ c > 0 => fpos <= volume.sectors
       /\ Part(out[Dest(taken + 1)], Entry, c)

ExtractInv ==
  /\ taken \in 0 .. Len(yielded)
  /\ left \in Nat
  /\ made \cap DOMAIN out = {}
  /\ nfiles = Cardinality(FilesTaken)
  /\ IF exPc = "copy" THEN Copying ELSE Copied

LEMMA ExtractFrozen ==
  ASSUME UNCHANGED <<volume, layout, taken, out>>,
         \A y \in 1 .. taken : yielded'[y] = yielded[y]
  PROVE  FilesTaken' = FilesTaken /\ (Copied => Copied')
<1>1. FilesTaken' = FilesTaken /\ \A y \in FilesTaken : y \in 1 .. taken
  BY DEF FilesTaken
<1>2. \A y \in FilesTaken : Dest(y)' = Dest(y) /\ Held(yielded[y].id)' = Held(yielded[y].id)
  BY <1>1 DEF Dest, Held, Present
<1> QED BY <1>1, <1>2 DEF Copied

LEMMA TakenFinite ==
  ASSUME taken \in Nat
  PROVE  IsFiniteSet(FilesTaken) /\ Cardinality(FilesTaken) \in Nat
<1>1. IsFiniteSet(1 .. taken)
  BY FS_Interval
<1>2. FilesTaken \subseteq 1 .. taken
  BY DEF FilesTaken
<1> QED BY <1>1, <1>2, FS_Subset, FS_CardinalityType

\* All that the image has of a file has been read when a read returns nothing.
LEMMA AllPresent ==
  ASSUME NEW e, volume.lba[e] \in Nat, volume.size[e] \in Nat, volume.sectors \in Nat,
         NEW c \in Nat, left \in Nat, c + left = volume.size[e], fpos = volume.lba[e] + c,
         c > 0 => fpos <= volume.sectors, Got = 0
  PROVE  c = Present(e)
<1>1. CHUNK \in Nat /\ CHUNK > 0
  BY ExtractAssumption
<1>2. left = 0 \/ fpos >= volume.sectors
  BY <1>1 DEF Got, Smaller
<1> QED BY <1>2 DEF Present, Smaller

LEMMA WholeFile ==
  ASSUME NEW e, NEW s, Part(s, e, Present(e)), Present(e) \in Nat
  PROVE  s = Held(e)
<1>1. s \in [1 .. Present(e) -> Nat]
  BY DEF Part
<1> QED BY <1>1 DEF Part, Held

LEMMA MoreOfIt ==
  ASSUME NEW e, volume.lba[e] \in Nat, NEW s, NEW c \in Nat, NEW g \in Nat, NEW f \in Nat,
         Part(s, e, c), f = volume.lba[e] + c
  PROVE  Part(s \o [q \in 1 .. g |-> f + q - 1], e, c + g)
<1> DEFINE t == [q \in 1 .. g |-> f + q - 1]
<1>1. t \in Seq(Nat) /\ Len(t) = g /\ \A q \in 1 .. g : t[q] = f + q - 1
  <2>1. \A q \in 1 .. g : f + q - 1 \in Nat
    OBVIOUS
  <2>2. t \in [1 .. g -> Nat]
    BY <2>1
  <2> QED BY <2>2
<1> HIDE DEF t
<1>2. s \in Seq(Nat) /\ Len(s) = c /\ \A q \in 1 .. c : s[q] = volume.lba[e] + q - 1
  BY DEF Part
<1>3. /\ s \o t \in Seq(Nat)
      /\ Len(s \o t) = c + g
      /\ \A q \in 1 .. c + g : (s \o t)[q] = IF q <= c THEN s[q] ELSE t[q - c]
  <2>1. /\ s \o t \in Seq(Nat)
        /\ Len(s \o t) = Len(s) + Len(t)
        /\ \A q \in 1 .. Len(s) + Len(t) :
             (s \o t)[q] = IF q <= Len(s) THEN s[q] ELSE t[q - Len(s)]
    BY <1>1, <1>2, ConcatProperties
  <2> QED BY <1>1, <1>2, <2>1
<1>4. ASSUME NEW q \in 1 .. c + g PROVE (s \o t)[q] = volume.lba[e] + q - 1
  <2>1. CASE q <= c
    <3>1. (s \o t)[q] = s[q] /\ q \in 1 .. c
      BY <1>3, <2>1
    <3> QED BY <1>2, <3>1
  <2>2. CASE ~(q <= c)
    <3>1. (s \o t)[q] = t[q - c] /\ q - c \in 1 .. g
      BY <1>3, <2>2
    <3>2. t[q - c] = f + (q - c) - 1
      BY <1>1, <3>1
    <3> QED BY <3>1, <3>2
  <2> QED BY <2>1, <2>2
<1>5. Part(s \o t, e, c + g)
  BY <1>3, <1>4 DEF Part
<1> QED BY <1>5 DEF t

\* What the copying leaves alone stays as it is.
LEMMA Unmoved ==
  ASSUME UNCHANGED vars
  PROVE  /\ UNCHANGED <<volume, layout, yielded>>
         /\ \A y : Dest(y)' = Dest(y) /\ Held(yielded[y].id)' = Held(yielded[y].id)
<1>1. UNCHANGED <<volume, layout, yielded>>
  BY DEF vars, walkVars
<1> QED BY <1>1 DEF Dest, Held, Present

\* The record of the next entry, as numbers.
LEMMA EntryIs ==
  ASSUME TypeInv, taken \in Nat, taken < Len(yielded)
  PROVE  /\ Entry \in Ids
         /\ volume.lba[Entry] \in Nat
         /\ volume.size[Entry] \in Nat
         /\ volume.sectors \in Nat
<1>1. yielded \in Seq(Visits) /\ taken + 1 \in 1 .. Len(yielded)
  BY DEF TypeInv, TypeOK, WalkTypeOK
<1>2. yielded[taken + 1] \in Visits
  BY <1>1
<1>3. Entry \in Ids
  BY <1>2 DEF Entry, Visits
<1> QED BY <1>3, GivenFacts DEF TypeInv

LEMMA OpenKeeps ==
  ASSUME TypeInv, ExtractInv, OpenFile
  PROVE  ExtractInv'
<1>1. /\ taken \in Nat /\ taken < Len(yielded) /\ Copied
      /\ Len(yielded) \in Nat
  BY DEF ExtractInv, OpenFile, AtEntry, TypeInv, TypeOK, WalkTypeOK
<1>2. PICK e : e = Entry
  OBVIOUS
<1>3. PICK d : d = Dest(taken + 1)
  OBVIOUS
<1>4. /\ UNCHANGED vars /\ taken' = taken /\ made' = made /\ nfiles' = nfiles
      /\ e \notin volume.dirs /\ d \notin made /\ exPc' = "copy"
      /\ fpos' = volume.lba[e] /\ left' = volume.size[e]
      /\ out' = [p \in DOMAIN out \cup {d} |-> IF p = d THEN <<>> ELSE out[p]]
  BY <1>2, <1>3 DEF OpenFile, AtEntry
<1>5. /\ UNCHANGED <<volume, layout, yielded>>
      /\ \A y : Dest(y)' = Dest(y) /\ Held(yielded[y].id)' = Held(yielded[y].id)
  BY <1>4, Unmoved
<1>6. FilesTaken' = FilesTaken /\ Entry' = e
  BY <1>2, <1>4, <1>5 DEF FilesTaken, Entry
<1>7. Dest(taken + 1)' = d
  BY <1>3, <1>4, <1>5 DEF Dest
<1>8. DOMAIN out' = {Dest(y) : y \in FilesTaken} \cup {d} /\ out'[d] = <<>>
  BY <1>1, <1>4 DEF Copied
<1>9. \A y \in FilesTaken :
        (\A z \in FilesTaken : Dest(z) = Dest(y) => z <= y) /\ Dest(y) # d
          => out'[Dest(y)] = Held(yielded[y].id)
  BY <1>1, <1>4 DEF Copied
<1>10. volume.lba[e] \in Nat /\ volume.size[e] \in Nat
  BY <1>1, <1>2, EntryIs
<1>11. Part(out[d], e, 0)'
  <2>1. out'[d] \in Seq(Nat) /\ Len(out'[d]) = 0
    BY <1>8
  <2> QED BY <2>1 DEF Part
<1>12. \E c \in Nat :
         /\ c + left' = volume'.size[e]
         /\ fpos' = volume'.lba[e] + c
         /\ c > 0 => fpos' <= volume'.sectors
         /\ Part(out[d], e, c)'
  <2>1. /\ 0 + left' = volume'.size[e]
        /\ fpos' = volume'.lba[e] + 0
        /\ ~(0 > 0)
    BY <1>4, <1>5, <1>10
  <2> QED BY <1>11, <2>1, Zenon
<1>13. Copying'
  <2>1. /\ taken' < Len(yielded')
        /\ Entry' \notin volume'.dirs
        /\ Dest(taken + 1)' \notin made'
    BY <1>1, <1>4, <1>5, <1>6, <1>7
  <2>2. DOMAIN out' = {Dest(y)' : y \in FilesTaken'} \cup {Dest(taken + 1)'}
    BY <1>5, <1>6, <1>7, <1>8
  <2>3. \A y \in FilesTaken' :
          (\A z \in FilesTaken' : Dest(z)' = Dest(y)' => z <= y) /\ Dest(y)' # Dest(taken + 1)'
            => out'[Dest(y)'] = Held(yielded[y].id)'
    BY <1>5, <1>6, <1>7, <1>9
  <2>4. \E c \in Nat :
          /\ c + left' = volume'.size[Entry']
          /\ fpos' = volume'.lba[Entry'] + c
          /\ c > 0 => fpos' <= volume'.sectors
          /\ Part(out[Dest(taken + 1)], Entry, c)'
    BY <1>6, <1>7, <1>12 DEF Part
  <2> QED BY <2>1, <2>2, <2>3, <2>4 DEF Copying
<1>14. made' \cap DOMAIN out' = {}
  BY <1>1, <1>4, <1>8 DEF ExtractInv, Copied
<1> QED BY <1>4, <1>5, <1>6, <1>10, <1>13, <1>14 DEF ExtractInv

LEMMA CopyKeeps ==
  ASSUME TypeInv, ExtractInv, CopyChunk
  PROVE  ExtractInv'
<1>1. Copying /\ taken \in Nat /\ taken < Len(yielded) /\ left \in Nat
  BY DEF ExtractInv, CopyChunk, Copying
<1>2. PICK e : e = Entry
  OBVIOUS
<1>3. PICK d : d = Dest(taken + 1)
  OBVIOUS
<1>4. PICK c \in Nat : /\ c + left = volume.size[e]
                       /\ fpos = volume.lba[e] + c
                       /\ Part(out[d], e, c)
  BY <1>1, <1>2, <1>3 DEF Copying
<1>5. /\ volume.lba[e] \in Nat /\ volume.size[e] \in Nat /\ volume.sectors \in Nat
      /\ fpos \in Nat
  BY <1>1, <1>2, <1>4, EntryIs
<1>6. PICK g : g = Got
  OBVIOUS
<1>7. g \in Nat /\ g <= left /\ fpos + g <= volume.sectors
  <2>1. g > 0 /\ CHUNK \in Nat
    BY <1>6, ExtractAssumption DEF CopyChunk
  <2>2. fpos < volume.sectors /\ g = Smaller(Smaller(left, CHUNK), volume.sectors - fpos)
    BY <1>6, <2>1 DEF Got
  <2> QED BY <1>1, <1>5, <2>1, <2>2 DEF Smaller
<1>8. /\ UNCHANGED vars /\ taken' = taken /\ made' = made /\ nfiles' = nfiles /\ exPc' = "copy"
      /\ fpos' = fpos + g /\ left' = left - g
      /\ out' = [out EXCEPT ![d] = @ \o [q \in 1 .. g |-> fpos + q - 1]]
  BY <1>3, <1>6 DEF CopyChunk
<1>9. /\ UNCHANGED <<volume, layout, yielded>>
      /\ \A y : Dest(y)' = Dest(y) /\ Held(yielded[y].id)' = Held(yielded[y].id)
  BY <1>8, Unmoved
<1>10. FilesTaken' = FilesTaken /\ Entry' = e
  BY <1>2, <1>8, <1>9 DEF FilesTaken, Entry
<1>11. Dest(taken + 1)' = d
  BY <1>3, <1>8, <1>9 DEF Dest
<1>12. /\ DOMAIN out = {Dest(y) : y \in FilesTaken} \cup {d}
       /\ DOMAIN out' = DOMAIN out
       /\ out'[d] = out[d] \o [q \in 1 .. g |-> fpos + q - 1]
       /\ \A p \in DOMAIN out : p # d => out'[p] = out[p]
  BY <1>1, <1>3, <1>8 DEF Copying
<1>13. Part(out'[d], e, c + g)
  <2>1. PICK f \in Nat : f = fpos
    BY <1>5
  <2>2. PICK w : w = out[d]
    OBVIOUS
  <2>3. Part(w, e, c) /\ f = volume.lba[e] + c /\ out'[d] = w \o [q \in 1 .. g |-> f + q - 1]
    BY <1>4, <1>12, <2>1, <2>2
  <2>4. Part(w \o [q \in 1 .. g |-> f + q - 1], e, c + g)
    BY <1>5, <1>7, <2>3, MoreOfIt
  <2> QED BY <2>3, <2>4
<1>14. /\ (c + g) + left' = volume'.size[e]
       /\ fpos' = volume'.lba[e] + (c + g)
       /\ fpos' <= volume'.sectors
       /\ c + g \in Nat
       /\ left' \in Nat
  BY <1>1, <1>4, <1>5, <1>7, <1>8, <1>9
<1>15. Copying'
  <2>1. /\ taken' < Len(yielded')
        /\ Entry' \notin volume'.dirs
        /\ Dest(taken + 1)' \notin made'
    BY <1>1, <1>2, <1>3, <1>8, <1>9, <1>10, <1>11 DEF Copying
  <2>2. DOMAIN out' = {Dest(y)' : y \in FilesTaken'} \cup {Dest(taken + 1)'}
    BY <1>9, <1>10, <1>11, <1>12
  <2>3. \A y \in FilesTaken' :
          (\A z \in FilesTaken' : Dest(z)' = Dest(y)' => z <= y) /\ Dest(y)' # Dest(taken + 1)'
            => out'[Dest(y)'] = Held(yielded[y].id)'
    <3>1. \A y \in FilesTaken :
            (\A z \in FilesTaken : Dest(z) = Dest(y) => z <= y) /\ Dest(y) # d
              => out[Dest(y)] = Held(yielded[y].id)
      BY <1>1, <1>3 DEF Copying
    <3>2. \A y \in FilesTaken :
            (\A z \in FilesTaken : Dest(z) = Dest(y) => z <= y) /\ Dest(y) # d
              => out'[Dest(y)] = Held(yielded[y].id)
      BY <1>12, <3>1
    <3> QED BY <1>9, <1>10, <1>11, <3>2
  <2>4. \E k \in Nat :
          /\ k + left' = volume'.size[Entry']
          /\ fpos' = volume'.lba[Entry'] + k
          /\ k > 0 => fpos' <= volume'.sectors
          /\ Part(out[Dest(taken + 1)], Entry, k)'
    <3>1. Part(out[Dest(taken + 1)], Entry, c + g)'
      BY <1>9, <1>10, <1>11, <1>13 DEF Part
    <3>2. /\ (c + g) + left' = volume'.size[Entry']
          /\ fpos' = volume'.lba[Entry'] + (c + g)
          /\ fpos' <= volume'.sectors
          /\ c + g \in Nat
      BY <1>10, <1>14
    <3> QED BY <3>1, <3>2, Zenon
  <2> QED BY <2>1, <2>2, <2>3, <2>4 DEF Copying
<1> QED BY <1>8, <1>9, <1>10, <1>12, <1>14, <1>15 DEF ExtractInv

LEMMA CloseKeeps ==
  ASSUME TypeInv, ExtractInv, CloseFile
  PROVE  ExtractInv'
<1>1. Copying /\ taken \in Nat /\ taken < Len(yielded) /\ left \in Nat /\ Got = 0
  BY DEF ExtractInv, CloseFile, Copying
<1>2. PICK e : e = Entry
  OBVIOUS
<1>3. PICK d : d = Dest(taken + 1)
  OBVIOUS
<1>4. PICK c \in Nat : /\ c + left = volume.size[e]
                       /\ fpos = volume.lba[e] + c
                       /\ c > 0 => fpos <= volume.sectors
                       /\ Part(out[d], e, c)
  BY <1>1, <1>2, <1>3 DEF Copying
<1>5. out[d] = Held(e)
  <2>1. c = Present(e)
    BY <1>1, <1>2, <1>4, EntryIs, AllPresent
  <2> QED BY <1>4, <2>1, WholeFile
<1>6. /\ UNCHANGED vars /\ taken' = taken + 1 /\ nfiles' = nfiles + 1 /\ exPc' = "next"
      /\ UNCHANGED <<left, made, out>>
  BY DEF CloseFile
<1>7. /\ UNCHANGED <<volume, layout, yielded>>
      /\ \A y : Dest(y)' = Dest(y) /\ Held(yielded[y].id)' = Held(yielded[y].id)
  BY <1>6, Unmoved
<1>8. /\ FilesTaken' = FilesTaken \cup {taken + 1}
      /\ taken + 1 \notin FilesTaken
      /\ \A y \in FilesTaken : y \in Nat /\ y < taken + 1
  <2>1. yielded[taken + 1].id \notin volume.dirs
    BY <1>1 DEF Copying, Entry
  <2> QED BY <1>1, <1>6, <1>7, <2>1 DEF FilesTaken
<1>9. /\ DOMAIN out = {Dest(y) : y \in FilesTaken} \cup {d}
      /\ \A y \in FilesTaken :
           (\A z \in FilesTaken : Dest(z) = Dest(y) => z <= y) /\ Dest(y) # d
             => out[Dest(y)] = Held(yielded[y].id)
  BY <1>1, <1>3 DEF Copying
<1>10. Copied'
  <2>1. DOMAIN out' = {Dest(y)' : y \in FilesTaken'}
    BY <1>3, <1>6, <1>7, <1>8, <1>9
  <2>2. ASSUME NEW y \in FilesTaken', \A z \in FilesTaken' : Dest(z)' = Dest(y)' => z <= y
        PROVE  out'[Dest(y)'] = Held(yielded[y].id)'
    <3>1. CASE y = taken + 1
      BY <1>2, <1>3, <1>5, <1>6, <1>7, <3>1 DEF Entry
    <3>2. CASE y # taken + 1
      <4>1. y \in FilesTaken /\ taken + 1 \in FilesTaken'
        BY <1>8, <3>2
      <4>2. Dest(y) # d
        <5> SUFFICES ASSUME Dest(y) = d PROVE FALSE
          OBVIOUS
        <5>1. taken + 1 <= y
          BY <1>3, <1>7, <2>2, <4>1
        <5> QED BY <1>1, <1>8, <4>1, <5>1
      <4>3. \A z \in FilesTaken : Dest(z) = Dest(y) => z <= y
        BY <1>7, <1>8, <2>2
      <4> QED BY <1>6, <1>7, <1>9, <4>1, <4>2, <4>3
    <3> QED BY <3>1, <3>2
  <2> QED BY <2>1, <2>2 DEF Copied
<1>11. nfiles' = Cardinality(FilesTaken')
  <2>1. nfiles = Cardinality(FilesTaken)
    BY DEF ExtractInv
  <2> QED BY <1>1, <1>6, <1>8, <2>1, TakenFinite, FS_AddElement
<1>12. taken' \in 0 .. Len(yielded')
  BY <1>1, <1>6, <1>7 DEF ExtractInv
<1> QED BY <1>6, <1>10, <1>11, <1>12 DEF ExtractInv

LEMMA ExtractStep ==
  TypeInv /\ ExtractInv /\ [ToolsNext]_toolVars => ExtractInv'
<1> SUFFICES ASSUME TypeInv, ExtractInv, [ToolsNext]_toolVars
             PROVE  ExtractInv'
  OBVIOUS
<1>0. taken \in Nat /\ Len(yielded) \in Nat
  BY DEF ExtractInv, TypeInv, TypeOK, WalkTypeOK
<1>1. CASE /\ UNCHANGED <<volume, layout, taken, left, made, out, nfiles>>
           /\ exPc # "copy" /\ exPc' # "copy"
           /\ yielded' = yielded \/ \E f : yielded' = Append(yielded, f)
  <2>1. /\ \A y \in 1 .. taken : yielded'[y] = yielded[y]
        /\ taken \in 0 .. Len(yielded')
    <3>1. yielded \in Seq(Visits) /\ taken \in 0 .. Len(yielded)
      BY DEF ExtractInv, TypeInv, TypeOK, WalkTypeOK
    <3>2. ASSUME NEW f, yielded' = Append(yielded, f)
          PROVE  /\ Len(yielded') = Len(yielded) + 1
                 /\ \A y \in 1 .. Len(yielded) : yielded'[y] = yielded[y]
      BY <3>1, <3>2
    <3>3. CASE yielded' = yielded
      BY <3>1, <3>3
    <3>4. CASE yielded' # yielded
      <4>1. /\ Len(yielded') = Len(yielded) + 1
            /\ \A y \in 1 .. Len(yielded) : yielded'[y] = yielded[y]
        BY <1>1, <3>2, <3>4
      <4> QED BY <1>0, <3>1, <4>1
    <3> QED BY <3>3, <3>4
  <2>2. FilesTaken' = FilesTaken /\ Copied'
    BY <1>1, <2>1, ExtractFrozen DEF ExtractInv
  <2> QED BY <1>1, <2>1, <2>2 DEF ExtractInv
<1>2. CASE WalkOn
  <2>1. /\ UNCHANGED <<taken, left, made, out, nfiles, exPc>> /\ exPc # "copy" /\ Walk
    BY <1>2 DEF WalkOn
  <2>2. volume' = volume /\ layout' = layout
    BY <2>1, FrozenStep DEF Next, Step
  <2>3. yielded' = yielded \/ \E f : yielded' = Append(yielded, f)
    BY <2>1 DEF Walk, WalkStep, NoPrimary, StartAtRoot, PopDirectory, ReadRecord, NextSector,
                RecordsRead, SkipDots, YieldFile, YieldDirectory, DirectoryDone, WalkEnds, walkVars
  <2> QED BY <1>1, <2>1, <2>2, <2>3
<1>3. CASE MakeDirectory
  <2>1. /\ UNCHANGED vars /\ taken' = taken + 1 /\ UNCHANGED <<left, out, nfiles>>
        /\ exPc = "next" /\ exPc' = "next" /\ taken < Len(yielded)
        /\ Entry \in volume.dirs
        /\ Dest(taken + 1) \notin DOMAIN out
        /\ made' = made \cup {Dest(taken + 1)}
    BY <1>3 DEF MakeDirectory, AtEntry
  <2>2. /\ UNCHANGED <<volume, layout, yielded>>
        /\ \A y : Dest(y)' = Dest(y) /\ Held(yielded[y].id)' = Held(yielded[y].id)
    BY <2>1, Unmoved
  <2>3. FilesTaken' = FilesTaken
    BY <1>0, <2>1, <2>2 DEF FilesTaken, Entry
  <2>4. Copied'
    BY <2>1, <2>2, <2>3 DEF ExtractInv, Copied
  <2>5. made' \cap DOMAIN out' = {} /\ taken' \in 0 .. Len(yielded')
    BY <1>0, <2>1, <2>2 DEF ExtractInv
  <2> QED BY <2>1, <2>3, <2>4, <2>5 DEF ExtractInv
<1>4. CASE NameTaken \/ ExtractDone
  <2>1. /\ UNCHANGED <<vars, taken, left, made, out, nfiles>>
        /\ exPc # "copy" /\ exPc' # "copy"
    BY <1>4 DEF NameTaken, ExtractDone, AtEntry
  <2> QED BY <1>1, <2>1, Unmoved
<1>5. CASE MapOn
  <2>1. UNCHANGED exVars /\ exPc # "copy" /\ (Claim \/ TakeClaim \/ LastPiece)
    BY <1>5 DEF MapOn
  <2>2. UNCHANGED <<volume, layout, yielded>>
    BY <2>1 DEF Claim, TakeClaim, LastPiece, walkVars
  <2> QED BY <1>1, <2>1, <2>2 DEF exVars
<1>6. CASE UNCHANGED toolVars \/ (Done /\ UNCHANGED exVars)
  <2>1. UNCHANGED vars /\ UNCHANGED exVars
    BY <1>6 DEF toolVars, Done
  <2>2. /\ UNCHANGED <<volume, layout, yielded>>
        /\ \A y : Dest(y)' = Dest(y) /\ Held(yielded[y].id)' = Held(yielded[y].id)
    BY <2>1, Unmoved
  <2>3. CASE exPc # "copy"
    BY <1>1, <2>1, <2>2, <2>3 DEF exVars
  <2>4. CASE exPc = "copy"
    <3>1. FilesTaken' = FilesTaken /\ Entry' = Entry
      BY <2>1, <2>2 DEF FilesTaken, Entry, exVars
    <3>2. Dest(taken + 1)' = Dest(taken + 1)
      BY <2>1, <2>2 DEF Dest, exVars
    <3>3. \A w, e, c : Part(w, e, c)' <=> Part(w, e, c)
      BY <2>2 DEF Part
    <3>4. Copying'
      BY <2>1, <2>2, <2>4, <3>1, <3>2, <3>3 DEF ExtractInv, Copying, exVars
    <3> QED BY <2>1, <2>2, <2>4, <3>1, <3>4 DEF ExtractInv, exVars
  <2> QED BY <2>3, <2>4
<1> QED BY <1>2, <1>3, <1>4, <1>5, <1>6, OpenKeeps, CopyKeeps, CloseKeeps
        DEF ToolsNext, ToolsStep

\* On every disc, however its files lie and whatever versions they have, the
\* extraction copies out of each what its record describes and the image holds.
THEOREM FilesAreWhole == ToolsSpec => []FilesAreTheirRecords
<1>1. ToolsInit => TypeInv /\ ExtractInv
  <2> SUFFICES ASSUME ToolsInit PROVE TypeInv /\ ExtractInv
    OBVIOUS
  <2>1. /\ TypeInv /\ yielded = <<>> /\ taken = 0 /\ left = 0 /\ made = {} /\ out = <<>>
        /\ nfiles = 0 /\ exPc = "next"
    BY TypeInit DEF ToolsInit, Init, WalkInit
  <2>2. FilesTaken = {} /\ DOMAIN out = {}
    BY <2>1 DEF FilesTaken
  <2>3. Copied
    BY <2>2 DEF Copied
  <2> QED BY <2>1, <2>2, <2>3, FS_EmptySet DEF ExtractInv
<1>2. ExtractInv => FilesAreTheirRecords
  BY DEF ExtractInv, Copied, FilesAreTheirRecords
<1> QED BY <1>1, <1>2, ToolsStepIs, TypeStep, ExtractStep, PTL DEF ToolsSpec

=============================================================================
