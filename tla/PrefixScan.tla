---------------------------- MODULE PrefixScan ----------------------------
(***************************************************************************)
(* src/tools/prefix_scan.py kgram_index and match_at_length: for the       *)
(* length the bisection asks about, every window of the file is put into   *)
(* an index by its rolling hash, and the windows of the needle are looked  *)
(* up in it.  Windows of the same hash are compared byte by byte.          *)
(*                                                                         *)
(* The bisection only asks for lengths from one to the shorter of the two, *)
(* so the early returns for other lengths are never taken.                 *)
(***************************************************************************)
EXTENDS RunSearch

CONSTANTS BASE, PRIME

ASSUME HashAssumption == BASE \in Nat /\ PRIME \in Nat \ {0}

VARIABLES
  idx,  \* the offsets of the windows of each hash, in order
  h,    \* the rolling hash
  at,   \* the byte of the file or the window of the needle that is next
  pc

vars == <<searchVars, idx, h, at, pc>>

Init ==
  /\ SearchInit
  /\ idx = <<>>
  /\ h = 0
  /\ at = 0
  /\ pc = "bisect"

\* The hash of the first k bytes of s.
FirstHash(s, k) ==
  LET g[m \in 0 .. k] == IF m = 0 THEN 0 ELSE (g[m - 1] * BASE + s[m]) % PRIME
  IN  g[k]

Power(k) == LET p[m \in 0 .. k] == IF m = 0 THEN 1 ELSE p[m - 1] * BASE IN p[k]

top == Power(mid - 1) % PRIME

\* Mutated form of Roll: the byte that leaves is given the weight of the next.
RollHeavy(g, out, in) == ((g - out * top * BASE) * BASE + in) % PRIME

Roll(g, out, in) == ((g - out * top) * BASE + in) % PRIME

\* The offsets under hash x, none if it is not in the table.
Listed(table, x) == IF x \in DOMAIN table THEN table[x] ELSE <<>>

Enter(table, x, j) ==
  [y \in DOMAIN table \cup {x} |-> IF y = x THEN Append(Listed(table, x), j) ELSE table[y]]

StartIndex ==
  /\ pc = "bisect"
  /\ lo <= hi
  /\ h' = FirstHash(hay, mid)
  /\ idx' = Enter(<<>>, h', 0)
  /\ at' = mid
  /\ pc' = "index"
  /\ UNCHANGED searchVars

IndexWindow ==
  /\ pc = "index"
  /\ at < Len(hay)
  /\ h' = Roll(h, hay[at - mid + 1], hay[at + 1])
  /\ idx' = Enter(idx, h', at - mid + 1)
  /\ at' = at + 1
  /\ UNCHANGED <<searchVars, pc>>

IndexDone ==
  /\ pc = "index"
  /\ at = Len(hay)
  /\ h' = FirstHash(nee, mid)
  /\ at' = 0
  /\ pc' = "probe"
  /\ UNCHANGED <<searchVars, idx>>

\* Mutated form of Verified: the hash is trusted.
VerifiedByHash == 1 .. Len(Listed(idx, h))

\* The candidates that hold the same bytes as the needle's window.
Verified ==
  {q \in 1 .. Len(Listed(idx, h)) : SameBytes(mid, at, Listed(idx, h)[q])}

\* The first of them is returned.
Match ==
  /\ pc = "probe"
  /\ at <= Len(nee) - mid
  /\ \E q \in Verified :
       /\ \A r \in Verified : q <= r
       /\ Succeed(at, Listed(idx, h)[q])
  /\ pc' = "bisect"
  /\ UNCHANGED <<idx, h, at>>

NextWindow ==
  /\ pc = "probe"
  /\ at <= Len(nee) - mid
  /\ Verified = {}
  /\ at' = at + 1
  /\ h' = IF at' <= Len(nee) - mid THEN Roll(h, nee[at + 1], nee[at' + mid]) ELSE h
  /\ UNCHANGED <<searchVars, idx, pc>>

NoMatch ==
  /\ pc = "probe"
  /\ at > Len(nee) - mid
  /\ Fail
  /\ pc' = "bisect"
  /\ UNCHANGED <<idx, h, at>>

Return ==
  /\ pc = "bisect"
  /\ lo > hi
  /\ pc' = "returned"
  /\ UNCHANGED <<searchVars, idx, h, at>>

Step ==
  \/ StartIndex
  \/ IndexWindow
  \/ IndexDone
  \/ Match
  \/ NextWindow
  \/ NoMatch
  \/ Return

Finished == pc = "returned" /\ UNCHANGED vars

Next == Step \/ Finished

Spec == Init /\ [][Next]_vars /\ WF_vars(Step)

-----------------------------------------------------------------------------
(* Properties                                                              *)

\* However many windows collide, match_at_length answers as if it compared every
\* window with every other: it gives a common run if there is one, which takes a
\* rolled hash that is the same for the same bytes wherever they stand.
ImplementsSearch == SearchSpec

\* "the hash is only used to find candidates" (prefix_scan.py:20): whatever it is, the run on
\* record is one of the bytes of both, at every step and not only at the end.
RunIsReal == <<best[2], best[3]>> \in Common(best[1])

\* The search returns, for every needle and file, empty ones too.
Terminates == <>(pc = "returned")

=============================================================================
