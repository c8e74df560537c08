----------------------------- MODULE DiscCensus -----------------------------
(***************************************************************************)
(* The three censuses of one disc, whose reports the docs add up: the      *)
(* blocks among the members and inside bundles (CodecCensus), the kinds of *)
(* the members (BinCensus) and the blocks inside SCPK bundles (ScpkCensus).*)
(* They are separate runs of separate tools over the same containers, so   *)
(* they may be taken in any order, step by step.                           *)
(***************************************************************************)
EXTENDS BinCensus, ScpkCensus

allVars == <<vars, scpkVars>>

DiscInit == BothInit /\ ScpkInit

DiscDone ==
  /\ pc = "reported"
  /\ k > Len(container)
  /\ scpkPc = "reported"
  /\ UNCHANGED allVars

DiscNext ==
  \/ (Codec \/ BinStep) /\ UNCHANGED scpkVars
  \/ ScpkStep /\ UNCHANGED vars
  \/ DiscDone

DiscSpec == DiscInit /\ [][DiscNext]_allVars

-----------------------------------------------------------------------------
(* Properties                                                              *)

\* "2,851 of 2,851" is a sum: the blocks at the top level, those in bundles and
\* those in SCPK bundles.  No member of a container is in two of the sums: what
\* the tools count as a block, open as a bundle and parse as an SCPK bundle are
\* different members, though each tool has tests of its own and the first four
\* bytes are all that tells them apart.
PopulationsDisjoint ==
  pc = "reported" /\ scpkPc = "reported" /\ nested =>
    nb + bundles + top.methods[0] + top.methods[1] + top.methods[3] =
      Cardinality(Scpks \cup {a \in 1 .. Len(container) :
                                \/ IsBlockPart(container[a])
                                \/ IsBundle(container[a])})

=============================================================================
