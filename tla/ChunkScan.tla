------------------------------ MODULE ChunkScan ------------------------------
(***************************************************************************)
(* cmd_scan of src/tools/codec_census.py: sweep a container for blocks its *)
(* index does not point at.  The image is read in chunks of CH bytes; the  *)
(* last OVER bytes of a window are carried into the next one, so a block   *)
(* that straddles a chunk is seen whole, and hits are recorded by absolute *)
(* offset, so a block seen twice is reported once.                         *)
(*                                                                         *)
(* Addresses are relative to the container.  The image goes on after it,   *)
(* or ends before it does when the dump is truncated.                      *)
(***************************************************************************)
EXTENDS Integers, Sequences

CONSTANTS
  CH,      \* bytes read at a time (1 << 24)
  OVER,    \* bytes carried over (1 << 21)
  STEP,    \* distance between the offsets tried (--step, 64)
  ALIGN,   \* alignment of a member (64)
  HEADER,  \* bytes of a block header (9)
  Images,  \* what follows the container's first byte in the image, see Init
  Limits   \* the container sizes

ASSUME WindowAssumption ==
  /\ {CH, OVER, STEP, ALIGN, HEADER} \subseteq Nat \ {0}
  /\ OVER <= CH
ASSUME ImageAssumption ==
  /\ Limits \subseteq Nat
  /\ \A m \in Images :
       /\ m.avail \in Nat
       /\ m.packed \in [0 .. m.avail - 1 -> Nat]
       /\ m.known \subseteq Nat

VARIABLES
  image,    \* avail: bytes from the container's start to the end of the image;
            \* packed[a]: the packed length declared at address a, if what is
            \* there is plausible and decodes to its declared length, else 0;
            \* known: the addresses the index points at
  size,     \* the container's size in the file system
  lo, hi,   \* the window in memory (prev + chunk) holds bytes lo .. hi - 1
  pos,      \* where the code takes the end of the window to be
  base,     \* where it takes the start of the window to be
  off,      \* the offset under test
  seen, found,
  stopped,  \* where the time ran out, or -1
  pc

vars == <<image, size, lo, hi, pos, base, off, seen, found, stopped, pc>>

Init ==
  /\ image \in Images
  /\ size \in Limits
  /\ lo = 0
  /\ hi = 0
  /\ pos = 0
  /\ base = 0
  /\ off = 0
  /\ seen = {}
  /\ found = <<>>
  /\ stopped = -1
  /\ pc = "read"

-----------------------------------------------------------------------------

Finish ==
  /\ pc = "read"
  /\ pos >= size
  /\ pc' = "done"
  /\ UNCHANGED <<image, size, lo, hi, pos, base, off, seen, found, stopped>>

\* The clock is only looked at between two chunks.
Abandon ==
  /\ pc = "read"
  /\ pos < size
  /\ stopped' = pos
  /\ pc' = "done"
  /\ UNCHANGED <<image, size, lo, hi, pos, base, off, seen, found>>

\* Mutated form of EndOfImage: the test of an empty chunk left out, so that the
\* carried bytes are searched once more.
EndOfImageMissed ==
  /\ pc = "read"
  /\ pos < size
  /\ hi = image.avail
  /\ base' = pos - (hi - lo)
  /\ off' = 0
  /\ pc' = "scan"
  /\ UNCHANGED <<image, size, lo, hi, pos, seen, found, stopped>>

\* if not chunk: break
EndOfImage ==
  /\ pc = "read"
  /\ pos < size
  /\ hi = image.avail
  /\ pc' = "done"
  /\ UNCHANGED <<image, size, lo, hi, pos, base, off, seen, found, stopped>>

\* lo is where prev starts: what was read before it is forgotten.
ReadChunk ==
  /\ pc = "read"
  /\ pos < size
  /\ hi < image.avail
  /\ hi' = (IF hi + CH <= image.avail THEN hi + CH ELSE image.avail)
  /\ base' = pos - (hi - lo)
  /\ off' = 0
  /\ pc' = "scan"
  /\ UNCHANGED <<image, size, lo, pos, seen, found, stopped>>

InWindow == off < (hi - lo) - HEADER

\* plausible refuses a block that does not end inside the window.
Decodes ==
  LET p == image.packed[lo + off]
  IN  p > 0 /\ off + HEADER + p <= hi - lo

Wanted == base + off \notin image.known /\ (base + off) % ALIGN = 0

\* Mutated form of Hit: the test of seen left out.
HitAgain ==
  /\ pc = "scan"
  /\ InWindow
  /\ Wanted
  /\ Decodes
  /\ seen' = seen \cup {base + off}
  /\ found' = Append(found, base + off)
  /\ off' = off + STEP
  /\ UNCHANGED <<image, size, lo, hi, pos, base, stopped, pc>>

Hit ==
  /\ pc = "scan"
  /\ InWindow
  /\ Wanted
  /\ Decodes
  /\ base + off \notin seen
  /\ seen' = seen \cup {base + off}
  /\ found' = Append(found, base + off)
  /\ off' = off + STEP
  /\ UNCHANGED <<image, size, lo, hi, pos, base, stopped, pc>>

Miss ==
  /\ pc = "scan"
  /\ InWindow
  /\ ~(Wanted /\ Decodes /\ base + off \notin seen)
  /\ off' = off + STEP
  /\ UNCHANGED <<image, size, lo, hi, pos, base, seen, found, stopped, pc>>

\* Mutated form of Carry: nothing is carried over.
CarryNothing ==
  /\ pc = "scan"
  /\ ~InWindow
  /\ lo' = hi
  /\ pos' = base + (hi - lo)
  /\ pc' = "read"
  /\ UNCHANGED <<image, size, hi, base, off, seen, found, stopped>>

\* prev = buf[-OVER:]
Carry ==
  /\ pc = "scan"
  /\ ~InWindow
  /\ lo' = (IF hi - lo <= OVER THEN lo ELSE hi - OVER)
  /\ pos' = base + (hi - lo)
  /\ pc' = "read"
  /\ UNCHANGED <<image, size, hi, base, off, seen, found, stopped>>

Done == pc = "done" /\ UNCHANGED vars  \* the report has been printed

Step == Finish \/ Abandon \/ EndOfImage \/ ReadChunk \/ Hit \/ Miss \/ Carry

Next == Step \/ Done

Spec == Init /\ [][Next]_vars /\ WF_vars(Step)

-----------------------------------------------------------------------------
(* Properties                                                              *)

TypeOK ==
  /\ image.avail \in Nat
  /\ image.packed \in [0 .. image.avail - 1 -> Nat]
  /\ size \in Nat
  /\ lo \in 0 .. image.avail
  /\ hi \in lo .. image.avail
  /\ pos \in Nat
  /\ base \in Nat
  /\ off \in Nat
  /\ seen \subseteq Nat
  /\ found \in Seq(Nat)
  /\ stopped \in Nat \cup {-1}
  /\ pc \in {"read", "scan", "done"}

\* The end of the block at a, and whether the sweep should report it.
End(a) == a + HEADER + image.packed[a]
Orphan(a) ==
  /\ image.packed[a] > 0
  /\ a \notin image.known
  /\ a % ALIGN = 0

\* Every offset reported is that of a block the index does not point at, under
\* the address it really has, and no block is reported twice though the carried
\* bytes are searched twice.
FoundAreOrphans ==
  /\ \A x \in 1 .. Len(found) :
       /\ found[x] \in 0 .. image.avail - 1
       /\ Orphan(found[x])
       /\ End(found[x]) <= image.avail
  /\ \A x, y \in 1 .. Len(found) : found[x] = found[y] => x = y

\* The offsets tried in a window are the multiples of the step, counted from
\* where it starts: those of every window are the container's own.
StepFits == CH % STEP = 0 /\ OVER % STEP = 0

\* A sweep that was not abandoned, at a step that fits, has found every orphan
\* that ends inside the container, unless it is longer than the carried tail:
\* wherever a chunk ends, it does not cut such a block in two.
OrphansAreFound ==
  pc = "done" /\ stopped = -1 /\ StepFits =>
    \A a \in 0 .. image.avail - 1 :
      Orphan(a) /\ a % STEP = 0 /\ End(a) - a <= OVER
        /\ End(a) <= size /\ End(a) <= image.avail
      => \E x \in 1 .. Len(found) : found[x] = a

\* What the report prints as swept has been read and searched.
SweptIsRead == pc # "scan" => pos = hi

\* The sweep ends even if the time never runs out: it stops at the end of the image
\* where that comes before the end of the container.
Terminates == <>(pc = "done")

\* codec_census.py:13: `--scan` "sweeps a container for headers the index does
\* not point at", so the headers it reports are in the container.
FoundInContainer == \A x \in 1 .. Len(found) : found[x] < size

=============================================================================
