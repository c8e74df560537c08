----------------------------- MODULE SectorMap -----------------------------
(***************************************************************************)
(* src/tools/sector_map.py: the system area, the descriptors, the path     *)
(* tables and what the directory walk yields each claim a run of sectors;  *)
(* what lies between the claims, taken in order, is slack.                 *)
(***************************************************************************)
EXTENDS DiscWalk

CONSTANT Layouts  \* what else there is on a disc, see LayoutAssumption

Extents == [first : Nat, last : Nat]

ASSUME LayoutAssumption ==
  \A a \in Layouts :
    /\ a.tables \subseteq Extents
    /\ \A c \in a.tables : c.first <= c.last
    /\ a.blank \subseteq Nat

VARIABLES
  layout,  \* tables: the extents of the two path tables; blank: the sectors
           \* that are all zero
  claims,  \* the claims still ahead in the sorted list
  cursor,
  slack    \* the pieces of slack, with what the report says they contain

mapVars == <<claims, cursor, slack>>
vars    == <<volume, walkVars, pc, layout, mapVars>>

Init ==
  /\ WalkInit
  /\ layout \in Layouts
  /\ claims = {}
  /\ cursor = 0
  /\ slack = <<>>

Walk == WalkStep /\ UNCHANGED <<layout, mapVars>>

Run(f, n) == [first |-> f, last |-> f + n - 1]

\* span = max(1, e.sectors): an empty file still claims a sector.
EntryClaim(e) == Run(volume.lba[e], IF volume.size[e] = 0 THEN 1 ELSE volume.size[e])

Claimed ==
  {Run(0, SystemArea)}
    \cup {Run(SystemArea + k - 1, 1) : k \in Described(volume)}
    \cup layout.tables
    \cup {EntryClaim(yielded[y].id) : y \in 1 .. Len(yielded)}

Claim ==
  /\ pc = "walked"
  /\ claims' = Claimed
  /\ pc' = "map"
  /\ UNCHANGED <<volume, walkVars, layout, cursor, slack>>

\* Only the first sector of a piece is read, and past the end of the image the
\* read returns nothing, which is all zero too.
Label(f) == IF f < volume.sectors /\ f \notin layout.blank THEN "data" ELSE "all zero"

Piece(f, l) == [first |-> f, last |-> l, label |-> Label(f)]

\* The claims are sorted by their first sector, then by their last.
Least(c) ==
  \A d \in claims : c.first < d.first \/ (c.first = d.first /\ c.last <= d.last)

\* Mutated form of TakeClaim: the cursor goes back when a claim lies inside an
\* earlier one.
TakeClaimBack ==
  /\ pc = "map"
  /\ \E c \in claims :
       /\ Least(c)
       /\ claims' = claims \ {c}
       /\ slack' = IF c.first > cursor
                   THEN Append(slack, Piece(cursor, c.first - 1))
                   ELSE slack
       /\ cursor' = c.last + 1
  /\ UNCHANGED <<volume, walkVars, pc, layout>>

TakeClaim ==
  /\ pc = "map"
  /\ \E c \in claims :
       /\ Least(c)
       /\ claims' = claims \ {c}
       /\ slack' = IF c.first > cursor
                   THEN Append(slack, Piece(cursor, c.first - 1))
                   ELSE slack
       /\ cursor' = IF c.last + 1 > cursor THEN c.last + 1 ELSE cursor
  /\ UNCHANGED <<volume, walkVars, pc, layout>>

LastPiece ==
  /\ pc = "map"
  /\ claims = {}
  /\ slack' = IF cursor < volume.sectors
              THEN Append(slack, Piece(cursor, volume.sectors - 1))
              ELSE slack
  /\ pc' = "mapped"
  /\ UNCHANGED <<volume, walkVars, layout, claims, cursor>>

Done == pc \in {"failed", "mapped"} /\ UNCHANGED vars

Step == Walk \/ Claim \/ TakeClaim \/ LastPiece

Next == Step \/ Done

Spec == Init /\ [][Next]_vars /\ WF_vars(Step)

-----------------------------------------------------------------------------
(* Properties                                                              *)

Pieces == [first : Nat, last : Nat, label : {"all zero", "data"}]

TypeOK ==
  /\ WalkTypeOK
  /\ claims \subseteq Extents
  /\ cursor \in Nat
  /\ slack \in Seq(Pieces)
  /\ pc \in {"pvd", "failed", "pop", "records", "loop", "walked", "map", "mapped"}

Covers(c, s) == c.first <= s /\ s <= c.last

InSlack(s) == \E k \in 1 .. Len(slack) : Covers(slack[k], s)

\* A sector of the image is slack exactly when nothing the volume describes
\* claims it, though claims may overlap, nest, touch or be given twice; the
\* pieces come in order and no two of them share a sector.
SlackIsUnclaimed ==
  pc = "mapped" =>
    /\ \A s \in 0 .. volume.sectors - 1 :
         InSlack(s) <=> \A c \in Claimed : ~Covers(c, s)
    /\ \A k \in 1 .. Len(slack) : slack[k].first <= slack[k].last
    /\ \A k, m \in 1 .. Len(slack) : k < m => slack[k].last < slack[m].first

\* The walk and the map end, on every disc whose directories form a tree.
Terminates == <>(pc \in {"failed", "mapped"})

=============================================================================
