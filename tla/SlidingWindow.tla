---------------------------- MODULE SlidingWindow ----------------------------
(***************************************************************************)
(* What a decoder of this format promises, with no ring, no cursor and no  *)
(* dialect: the output is one sequence that only grows, continued to the   *)
(* left by a dictionary of Window symbols, and it grows by literals, by    *)
(* runs and by copies made at one fixed distance, from 1 to Window.        *)
(* TalesBlock (unpack_stream of src/tools/tales_block.py) implements it.   *)
(***************************************************************************)
EXTENDS Integers, Sequences

CONSTANTS
  Symbol,    \* what the output is made of
  Window,    \* the farthest distance a copy may reach
  MaxMatch,  \* the longest copy
  MaxRun     \* the longest run

VARIABLES
  dict,  \* the symbol d places before the first output, for d in 1..Window
  out,   \* the output
  mode,  \* "idle", or the phrase in progress: "copy" or "run"
  dist,  \* the distance of the copy
  sym,   \* the symbol of the run
  left   \* the symbols the phrase still owes

vars == <<dict, out, mode, dist, sym, left>>

\* The symbol d places before the next one.
Back(d) == IF d <= Len(out) THEN out[Len(out) + 1 - d] ELSE dict[d - Len(out)]

Init ==
  /\ dict \in [1 .. Window -> Symbol]
  /\ out = <<>>
  /\ mode = "idle"
  /\ dist = 0
  /\ sym = 0
  /\ left = 0

Literal ==
  /\ mode = "idle"
  /\ \E c \in Symbol : out' = Append(out, c)
  /\ UNCHANGED <<dict, mode, dist, sym, left>>

StartCopy ==
  /\ mode = "idle"
  /\ mode' = "copy"
  /\ dist' \in 1 .. Window
  /\ left' \in 3 .. MaxMatch
  /\ UNCHANGED <<dict, out, sym>>

StartRun ==
  /\ mode = "idle"
  /\ mode' = "run"
  /\ sym' \in Symbol
  /\ left' \in 4 .. MaxRun
  /\ UNCHANGED <<dict, out, dist>>

\* The phrase gives one symbol; after the last it is forgotten.
Continue ==
  /\ left' = left - 1
  /\ IF left = 1
     THEN mode' = "idle" /\ dist' = 0 /\ sym' = 0
     ELSE UNCHANGED <<mode, dist, sym>>
  /\ UNCHANGED dict

Copy ==
  /\ mode = "copy"
  /\ out' = Append(out, Back(dist))
  /\ Continue

Run ==
  /\ mode = "run"
  /\ out' = Append(out, sym)
  /\ Continue

Next == Literal \/ StartCopy \/ StartRun \/ Copy \/ Run

Spec == Init /\ [][Next]_vars

=============================================================================
