----------------------------- MODULE ScpkDupes -----------------------------
(***************************************************************************)
(* src/tools/scpk.py cmd_dupes: how many members of SCPK bundles are       *)
(* copies of each other, and how many bytes that is.  A digest stands for  *)
(* the bytes it is of.                                                     *)
(***************************************************************************)
EXTENDS ScpkCensus

VARIABLES
  dm, de,       \* the next member of the container, and of the bundle it is
  seen,         \* how often each content was seen, as a bag
  bytesByHash,  \* the size of the last member with it
  stored        \* total

dupesVars == <<dm, de, seen, bytesByHash, stored>>

DupesInit ==
  /\ dm = 1
  /\ de = 1
  /\ seen = EmptyBag
  /\ bytesByHash = <<>>
  /\ stored = 0

InBundle ==
  /\ dm <= Len(container)
  /\ IsScpk(container[dm])
  /\ Parses(container[dm])

DupesPass ==
  /\ dm <= Len(container)
  /\ ~InBundle
  /\ dm' = dm + 1
  /\ UNCHANGED <<de, seen, bytesByHash, stored>>

DupesEmpty ==
  /\ InBundle
  /\ de <= Count(container[dm])
  /\ Size(container[dm], de) = 0
  /\ de' = de + 1
  /\ UNCHANGED <<dm, seen, bytesByHash, stored>>

\* d[o:o + s], which the end of the bundle may cut short.
Content(b, q) == Slice(b, Offset(b, q), Size(b, q))

DupesMember ==
  /\ InBundle
  /\ de <= Count(container[dm])
  /\ Size(container[dm], de) # 0
  /\ LET c == Content(container[dm], de)
         s == Size(container[dm], de)
     IN  /\ seen' = seen (+) SetToBag({c})
         /\ bytesByHash' = [x \in DOMAIN bytesByHash \cup {c} |->
                               IF x = c THEN s ELSE bytesByHash[x]]
         /\ stored' = stored + s
  /\ de' = de + 1
  /\ UNCHANGED dm

\* Mutated form of DupesNext: the next bundle is taken up where this one ends.
DupesNextOn ==
  /\ InBundle
  /\ de > Count(container[dm])
  /\ dm' = dm + 1
  /\ UNCHANGED <<de, seen, bytesByHash, stored>>

DupesNext ==
  /\ InBundle
  /\ de > Count(container[dm])
  /\ dm' = dm + 1
  /\ de' = 1
  /\ UNCHANGED <<seen, bytesByHash, stored>>

DupesStep == DupesPass \/ DupesEmpty \/ DupesMember \/ DupesNext

DupesDone == dm > Len(container)

\* "bytes that are copies".
CopiedBytes == SumFunction([c \in DOMAIN seen |-> bytesByHash[c] * (seen[c] - 1)])

-----------------------------------------------------------------------------
(* Properties                                                              *)

Within(p) == Offset(container[p[1]], p[2]) + Size(container[p[1]], p[2]) <= container[p[1]].len

\* The report on copies is about the members the census is about: as many as have
\* a verdict there.  Where the bundles hold what their tables declare, the bytes
\* stored less those that are copies are the bytes of each content taken once.
DupesAccount ==
  DupesDone /\ scpkPc = "reported" =>
    /\ SumFunction(seen) = SumFunction(innerMagic)
    /\ (\A p \in Filled : Within(p)) =>
         stored - CopiedBytes = SumFunction([c \in DOMAIN seen |-> c.len])

=============================================================================
