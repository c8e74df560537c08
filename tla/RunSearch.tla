----------------------------- MODULE RunSearch -----------------------------
(***************************************************************************)
(* src/tools/prefix_scan.py longest_run: a bisection on the length of the  *)
(* longest run of a needle's bytes that appears anywhere in a file.  Here  *)
(* match_at_length answers in one step, with any common run of the length  *)
(* it is asked for; PrefixScan has the rolling hash that finds one.        *)
(***************************************************************************)
EXTENDS Integers, Sequences

CONSTANTS Needles, Haystacks  \* sequences of bytes

ASSUME InputAssumption == Needles \subseteq Seq(Nat) /\ Haystacks \subseteq Seq(Nat)

VARIABLES
  nee, hay,
  lo, hi,  \* the lengths still in question
  best     \* the longest run found: its length, where in nee and where in hay

searchVars == <<nee, hay, lo, hi, best>>

Shorter == IF Len(nee) < Len(hay) THEN Len(nee) ELSE Len(hay)

SearchInit ==
  /\ nee \in Needles
  /\ hay \in Haystacks
  /\ lo = 1
  /\ hi = Shorter
  /\ best = <<0, 0, 0>>

mid == (lo + hi) \div 2

\* The k bytes from offset i of the needle are those from offset j of the file.
SameBytes(k, i, j) == \A d \in 1 .. k : nee[i + d] = hay[j + d]

Common(k) ==
  {p \in (0 .. Len(nee) - k) \X (0 .. Len(hay) - k) : SameBytes(k, p[1], p[2])}

Succeed(i, j) ==
  /\ best' = <<mid, i, j>>
  /\ lo' = mid + 1
  /\ UNCHANGED <<nee, hay, hi>>

\* Mutated form of Fail: the length that failed is tried again.
FailStuck ==
  /\ hi' = mid
  /\ UNCHANGED <<nee, hay, lo, best>>

Fail ==
  /\ hi' = mid - 1
  /\ UNCHANGED <<nee, hay, lo, best>>

Search ==
  /\ lo <= hi
  /\ \/ \E p \in Common(mid) : Succeed(p[1], p[2])
     \/ Common(mid) = {} /\ Fail

SearchSpec == SearchInit /\ [][Search]_searchVars

-----------------------------------------------------------------------------
(* Properties                                                              *)

\* A bisection is right only if a run of one length means one of every smaller
\* length.  When nothing is left in question the run reported is really there,
\* in both files at the offsets reported, and no longer one is anywhere: the
\* answer is evidence that two programs share no more code than that.
LongestRun ==
  lo > hi =>
    /\ <<best[2], best[3]>> \in Common(best[1])
    /\ \A k \in best[1] + 1 .. Shorter : Common(k) = {}

=============================================================================
