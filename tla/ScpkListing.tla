---------------------------- MODULE ScpkListing ----------------------------
(***************************************************************************)
(* src/tools/scpk.py cmd_list and cmd_member: the bundles of a disc are    *)
(* listed, as many as were asked for, and then each of those on the list   *)
(* is asked for by name and its members are shown.                         *)
(***************************************************************************)
EXTENDS ScpkCensus

CONSTANT ListLimits  \* what --limit may be

ASSUME ListLimitAssumption == ListLimits \subseteq Nat \ {0}

VARIABLES
  atMost,  \* --limit
  lk,      \* the next member of the container
  keys,    \* the bundles listed
  asked,   \* the next of them to be shown
  se,      \* the next of its members
  shown,   \* what has been shown of them
  spc

scpkListVars == <<atMost, lk, keys, asked, se, shown, spc>>

ScpkListInit ==
  /\ atMost = 0
  /\ lk = 1
  /\ keys = <<>>
  /\ asked = 1
  /\ se = 1
  /\ shown = <<>>
  /\ spc = "idle"

AskList ==
  /\ spc = "idle"
  /\ atMost' \in ListLimits
  /\ spc' = "list"
  /\ UNCHANGED <<lk, keys, asked, se, shown>>

PassOther ==
  /\ spc = "list"
  /\ lk <= Len(container)
  /\ ~IsScpk(container[lk])
  /\ lk' = lk + 1
  /\ UNCHANGED <<atMost, keys, asked, se, shown, spc>>

Parsed == {x \in DOMAIN keys : Parses(container[keys[x]])}

\* A line says so when its bundle does not parse, and is not counted then.
ListBundle ==
  /\ spc = "list"
  /\ lk <= Len(container)
  /\ IsScpk(container[lk])
  /\ keys' = Append(keys, lk)
  /\ lk' = lk + 1
  /\ spc' = IF Parses(container[lk]) /\ Cardinality(Parsed) + 1 >= atMost THEN "show" ELSE spc
  /\ UNCHANGED <<atMost, asked, se, shown>>

ListEnds ==
  /\ spc = "list"
  /\ lk > Len(container)
  /\ spc' = "show"
  /\ UNCHANGED <<atMost, lk, keys, asked, se, shown>>

-----------------------------------------------------------------------------
(* --member, for each line of the list                                     *)

Bundle == container[keys[asked]]

NotParsed ==
  /\ spc = "show"
  /\ asked <= Len(keys)
  /\ ~Parses(Bundle)
  /\ asked' = asked + 1
  /\ UNCHANGED <<atMost, lk, keys, se, shown, spc>>

\* Mutated form of Verdict: a head is one if the block fits into the member.
VerdictFitting(b, o, s) ==
  CASE ~IsHead(b, o) \/ 9 + U32(b, o + 1) > s -> "raw"
    [] Raises(HeadBlock(b, o)) -> "error"
    [] Unpack(HeadBlock(b, o)).len = U32(b, o + 5) -> "exact"
    [] OTHER -> "mismatch"

\* What is printed of the member of size s at offset o, whatever s is.
Verdict(b, o, s) ==
  CASE ~IsHead(b, o) -> "raw"
    [] IsHead(b, o) /\ Raises(HeadBlock(b, o)) -> "error"
    [] IsHead(b, o) /\ Unpack(HeadBlock(b, o)).len = U32(b, o + 5) -> "exact"
    [] OTHER -> "mismatch"

ShowMember ==
  /\ spc = "show"
  /\ asked <= Len(keys)
  /\ Parses(Bundle)
  /\ se <= Count(Bundle)
  /\ LET o == Offset(Bundle, se)
         s == Size(Bundle, se)
     IN  shown' = Append(shown, [size |-> s, verdict |-> Verdict(Bundle, o, s)])
  /\ se' = se + 1
  /\ UNCHANGED <<atMost, lk, keys, asked, spc>>

ShowNext ==
  /\ spc = "show"
  /\ asked <= Len(keys)
  /\ Parses(Bundle)
  /\ se > Count(Bundle)
  /\ asked' = asked + 1
  /\ se' = 1
  /\ UNCHANGED <<atMost, lk, keys, shown, spc>>

ScpkListStep ==
  \/ AskList
  \/ PassOther
  \/ ListBundle
  \/ ListEnds
  \/ NotParsed
  \/ ShowMember
  \/ ShowNext

ScpkListDone == spc = "show" /\ asked > Len(keys)

-----------------------------------------------------------------------------
(* Properties                                                              *)

Showing(S) == Cardinality({x \in DOMAIN shown : shown[x].size # 0 /\ shown[x].verdict \in S})

\* What is shown of the bundles one by one adds up to what the census says of
\* them all: as many bundles and members, and as many of those that are not empty
\* decode to their length or fail to.  A shorter list is as long as was asked for.
TablesAddUp ==
  ScpkListDone /\ scpkPc = "reported" =>
    /\ Cardinality(Parsed) = Lesser(atMost, nb)
    /\ Cardinality(Parsed) < atMost =>
         /\ Len(shown) = totalMembers
         /\ Showing({"exact"}) = exact
         /\ Showing({"mismatch", "error"}) = mismatch
         /\ Showing({"exact", "mismatch", "error"}) = comp

=============================================================================
