------------------------------ MODULE Listing ------------------------------
(***************************************************************************)
(* src/tools/dismips.py and disppc.py: instead of comparing a routine of   *)
(* the report with another, its reader has it listed, by the address       *)
(* ring_sites.py gives (docs/06-decoder-lineage.md:11), or goes back from  *)
(* the site to the prologue in front of it and lists from there.           *)
(***************************************************************************)
EXTENDS Lineage

CONSTANTS
  Prologues,  \* the words addiu sp, sp, -N
  Reach       \* how many bytes find_prologue goes back (512)

ASSUME ListingAssumption ==
  /\ Prologues \subseteq Word \ Wanted
  /\ Reach \in Nat \ {0}

VARIABLES
  lpc,
  seen,   \* the site that is followed up
  back,   \* where find_prologue is, and the prologue it has found
  asked,  \* the address the listing is of
  pos, many,   \* the next offset and how many words are listed
  lines   \* what has been printed

listVars == <<lpc, seen, back, asked, pos, many, lines>>

FollowInit ==
  /\ Init
  /\ lpc = "idle"
  /\ seen = 0
  /\ back = Nowhere
  /\ asked = 0
  /\ pos = 0 /\ many = 0
  /\ lines = <<>>

-----------------------------------------------------------------------------
(* find_prologue                                                           *)

\* Where in the file ring_sites has read a site.
OffsetOf(x) == survey.off + hits[x] - survey.base

AskPrologue ==
  /\ pc = "sited" /\ lpc = "idle"
  /\ exe.kind # "dol"
  /\ seen' \in 1 .. Len(hits)
  /\ back' = OffsetOf(seen')
  /\ lpc' = "back"
  /\ UNCHANGED <<asked, pos, many, lines>>

\* Mutated form of InReach: the limit is taken for a number of words.
InReachWords ==
  lpc = "back" /\ back >= 0 /\ (OffsetOf(seen) - back) \div WIDTH < Reach

InReach == lpc = "back" /\ back >= 0 /\ OffsetOf(seen) - back < Reach

NoPrologueHere ==
  /\ InReach
  /\ WordAt(exe, back) \notin Prologues
  /\ back' = back - WIDTH
  /\ UNCHANGED <<lpc, seen, asked, pos, many, lines>>

PrologueFound ==
  /\ InReach
  /\ WordAt(exe, back) \in Prologues
  /\ lpc' = "found"
  /\ UNCHANGED <<seen, back, asked, pos, many, lines>>

NoneFound ==
  /\ lpc = "back"
  /\ ~InReach
  /\ lpc' = "none"
  /\ UNCHANGED <<seen, back, asked, pos, many, lines>>

-----------------------------------------------------------------------------
(* The listing                                                             *)

\* The offset dismips finds for --va, or that the reader gives disppc for --at.
Offset(v) == IF exe.kind = "dol" THEN DolOffset(exe, v) ELSE Sought(exe, v)

List(v) ==
  /\ asked' = v
  /\ many' \in Counts
  /\ IF Offset(v) = Nowhere
     THEN lpc' = "unmapped" /\ pos' = pos
     ELSE lpc' = "list" /\ pos' = Offset(v)
  /\ UNCHANGED <<back, lines>>

ListRoutine ==
  /\ pc = "sited" /\ lpc = "idle"
  /\ seen' \in 1 .. Len(starts)
  /\ starts[seen'] # Unknown
  /\ List(starts[seen'])

\* From the address that is printed with the prologue.
ListPrologue ==
  /\ lpc = "found"
  /\ List(AddressOf(exe, back))
  /\ seen' = seen

\* disppc counts on from --va.
Labelled == IF exe.kind = "dol" THEN asked + WIDTH * Len(lines) ELSE AddressOf(exe, pos)

Line ==
  /\ lpc = "list"
  /\ Len(lines) < many
  /\ Readable(exe, pos)
  /\ lines' = Append(lines, [at |-> Labelled, off |-> pos, word |-> WordAt(exe, pos)])
  /\ pos' = pos + WIDTH
  /\ UNCHANGED <<lpc, seen, back, asked, many>>

\* At the end of the file dismips stops and disppc raises.
ListDone ==
  /\ lpc = "list"
  /\ Len(lines) = many \/ ~Readable(exe, pos)
  /\ lpc' = IF exe.kind = "dol" /\ Len(lines) < many THEN "failed" ELSE "listed"
  /\ UNCHANGED <<seen, back, asked, pos, many, lines>>

ListEnd ==
  /\ lpc \in {"none", "unmapped", "listed", "failed"}
  /\ UNCHANGED listVars

ListStep ==
  \/ AskPrologue
  \/ NoPrologueHere
  \/ PrologueFound
  \/ NoneFound
  \/ ListRoutine
  \/ ListPrologue
  \/ Line
  \/ ListDone
  \/ ListEnd

followVars == <<vars, listVars>>

FollowNext ==
  \/ Next /\ lpc = "idle" /\ UNCHANGED listVars
  \/ ListStep /\ UNCHANGED vars

FollowSpec == FollowInit /\ [][FollowNext]_followVars

-----------------------------------------------------------------------------
(* Properties                                                              *)

Near ==
  {q \in 0 .. OffsetOf(seen) : /\ q % WIDTH = 0
                           /\ OffsetOf(seen) - q < Reach
                           /\ WordAt(exe, q) \in Prologues}

\* The prologue is the nearest one in front of the site, and is missed only where
\* there is none within reach: no other routine's is taken for it.  So it is in
\* the routine ring_sites.py names, if that has one within reach.
PrologueIsNearest ==
  /\ lpc = "none" => Near = {}
  /\ lpc = "found" =>
       /\ back \in Near
       /\ \A q \in Near : q <= back
       /\ starts[seen] # Unknown =>
            LET s == survey.off + starts[seen] - survey.base
            IN  (\E q \in Near : s <= q) => s <= back

\* The address v is in the segment that the listing is of.
InSegment(v) ==
  CASE exe.kind = "psx" -> TRUE
    [] OTHER -> \E k \in DOMAIN exe.heads : Holds(exe.heads[k], asked) /\ Holds(exe.heads[k], v)

\* A listing is of the address asked for: as far as its segment goes each line has
\* the next address, and its word is the one that decoder_lineage.py would read
\* there.  From a prologue in a segment it begins at that prologue, so that the
\* address printed with it leads back to it.
ListingAgrees ==
  lines # <<>> /\ Disjoint(exe.heads) /\ Apart(exe.heads) =>
    /\ \A x \in DOMAIN lines :
         LET v == asked + WIDTH * (x - 1)
         IN  InSegment(v) =>
               /\ lines[x].at = v
               /\ lines[x].off = Whereabouts(exe, v)
               /\ lines[x].word = WordAt(exe, Whereabouts(exe, v))
    /\ back # Nowhere /\ (exe.kind = "psx" \/ \E k \in DOMAIN exe.heads : InFile(exe.heads[k], back))
         => lines[1].off = back

=============================================================================
