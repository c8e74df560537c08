------------------------------ MODULE Archives ------------------------------
(***************************************************************************)
(* src/tools/codec_census.py cmd_archives: the members that decode to an   *)
(* archive are listed, with the kinds of what they hold, until there are   *)
(* as many lines as were asked for.                                        *)
(***************************************************************************)
EXTENDS CodecCensus

CONSTANT Limits  \* what --limit may be

ASSUME LimitAssumption == Limits \subseteq Nat \ {0}

VARIABLES
  limit,
  am,     \* the next member
  lines, \* what has been printed: the member, how many parts, and of which kinds
  apc

listingVars == <<limit, am, lines, apc>>

ListingInit ==
  /\ limit = 0
  /\ am = 1
  /\ lines = <<>>
  /\ apc = "idle"

AskArchives ==
  /\ apc = "idle"
  /\ limit' \in Limits
  /\ apc' = "listing"
  /\ UNCHANGED <<am, lines>>

\* Nothing is caught here: a block that raises would end the listing.  None does,
\* since what raises is no block.
IsListed(b) == b.len >= 16 /\ IsBlock(b) /\ IsArchive(Unpack(b))

ListingPass ==
  /\ apc = "listing"
  /\ am <= Len(container)
  /\ ~IsListed(container[am])
  /\ am' = am + 1
  /\ UNCHANGED <<limit, lines, apc>>

\* kind(out[mo:mo + 16], ms): sixteen bytes are looked at, which are those of the
\* parts behind it where the part is shorter, and never enough for ADPCM.
PartKind(out, e) ==
  LET head == Slice(out, e.off, 16)
  IN  Kind([len |-> e.size, at |-> head.at], head.len)

PartKinds(out) ==
  LET e == ArchiveParts(out)
      V == {PartKind(out, e[q]) : q \in DOMAIN e}
  IN  [v \in V |-> Cardinality({q \in DOMAIN e : PartKind(out, e[q]) = v})]

\* Mutated form of ListArchive: the count of lines is looked at before a line.
ListArchiveUnlimited ==
  /\ apc = "listing"
  /\ am <= Len(container)
  /\ IsListed(container[am])
  /\ LET out == Unpack(container[am])
     IN  lines' = Append(lines, [of |-> am, parts |-> U32(out, 0), kinds |-> PartKinds(out)])
  /\ am' = am + 1
  /\ apc' = IF Len(lines) >= limit THEN "listed" ELSE apc
  /\ UNCHANGED limit

ListArchive ==
  /\ apc = "listing"
  /\ am <= Len(container)
  /\ IsListed(container[am])
  /\ LET out == Unpack(container[am])
     IN  lines' = Append(lines, [of |-> am, parts |-> U32(out, 0), kinds |-> PartKinds(out)])
  /\ am' = am + 1
  /\ apc' = IF Len(lines') >= limit THEN "listed" ELSE apc
  /\ UNCHANGED limit

ListingEnds ==
  /\ apc = "listing"
  /\ am > Len(container)
  /\ apc' = "listed"
  /\ UNCHANGED <<limit, am, lines>>

ListingStep == AskArchives \/ ListingPass \/ ListArchive \/ ListingEnds

ListingDone == apc = "listed"

-----------------------------------------------------------------------------
(* Properties                                                              *)

Listed(m) ==
  LET v == BlockKind(m)
  IN  SumFunction([x \in DOMAIN lines |->
                     IF v \in DOMAIN lines[x].kinds THEN lines[x].kinds[v] ELSE 0])

InBundles(m) ==
  Cardinality({p \in InnerBlocks : Method(At(p)) = m /\ ~IsBlock(container[p[1]])})

LongParts ==
  \A x \in DOMAIN lines :
    LET e == PartsOf(lines[x].of) IN \A q \in DOMAIN e : e[q].size >= 16

\* The listing is of the archives the census has counted, as many of them as were
\* asked for.  Where that is all of them, their parts are as many as the census
\* has opened, and the blocks among them are those it has decoded one level down
\* and not in a bundle; but a part too short for the census may be shown as one.
ArchivesAgree ==
  ListingDone /\ pc = "reported" /\ nested =>
    /\ Len(lines) = Lesser(limit, archives)
    /\ Len(lines) < limit =>
         /\ archiveMembers = SumFunction([x \in DOMAIN lines |-> lines[x].parts])
         /\ \A m \in Known :
              /\ inner.methods[m] <= Listed(m) + InBundles(m)
              /\ LongParts => inner.methods[m] = Listed(m) + InBundles(m)

=============================================================================
