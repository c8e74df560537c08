------------------------------- MODULE Movies -------------------------------
(***************************************************************************)
(* src/tools/mpeg.py: every member of a container is taken for a movie and *)
(* 64 KB are read from where it starts, for the pack header and the first  *)
(* sequence header.  Nothing stops the read where the member ends: it goes *)
(* on into the members behind it and into what the image has behind the    *)
(* container.                                                              *)
(* The fields of that header are not modelled, only where it is.           *)
(***************************************************************************)
EXTENDS BinCensus, FiniteSetsExt

CONSTANTS
  WINDOW,  \* how many bytes are read of a movie (65536)
  ALIGN,   \* what a member of a container is aligned to (64)
  Behind   \* what the image has behind the container

ASSUME MoviesAssumption ==
  /\ {WINDOW, ALIGN} \subseteq Nat \ {0}
  /\ WINDOW >= Len(MPEG)
  /\ IsBuffer(Behind)

SEQ == <<0, 0, 1, 179>>

FIELDS == 8  \* the bytes of a sequence header that are decoded

VARIABLE rows  \* what is printed: a verdict, and where the sequence header is

MoviesInit == rows = <<>>

\* The container in bytes: every member is padded to the next multiple of ALIGN.
Room(b) == ALIGN * ((b.len + ALIGN - 1) \div ALIGN)

Start(x) == SumFunction([y \in 1 .. x - 1 |-> Room(container[y])])

Over == Start(Len(container) + 1)  \* where the container is over

InMember(p, x) == Start(x) <= p /\ p < Start(x) + container[x].len

ByteAt(p) ==
  IF \E x \in 1 .. Len(container) : InMember(p, x)
  THEN LET x == CHOOSE x \in 1 .. Len(container) : InMember(p, x)
       IN  Byte(container[x], p - Start(x))
  ELSE Byte(Behind, p - Over)

\* How much of the window there is before the image ends.
Buffered(x) == Lesser(WINDOW, (Over - Start(x)) + Behind.len)

Reads(x, d, w) == \A q \in 1 .. Len(w) : ByteAt(Start(x) + d + q - 1) = w[q]

\* buf.find(SEQ)
SeqHeaders(x) == {d \in 0 .. Buffered(x) - Len(SEQ) : Reads(x, d, SEQ)}

movie == Len(rows) + 1

Row(v, d) == rows' = Append(rows, [verdict |-> v, at |-> d])

EmptySlot ==
  /\ movie <= Len(container)
  /\ container[movie].len = 0
  /\ Row("slot", 0)

NoPack ==
  /\ movie <= Len(container)
  /\ container[movie].len # 0
  /\ ~(Buffered(movie) >= Len(MPEG) /\ Reads(movie, 0, MPEG))
  /\ Row("other", 0)

IsPack ==
  /\ movie <= Len(container)
  /\ container[movie].len # 0
  /\ Buffered(movie) >= Len(MPEG) /\ Reads(movie, 0, MPEG)

\* Mutated form of Picture: the last sequence header is taken.
PictureLast(x) == Max(SeqHeaders(x))

Picture(x) == Min(SeqHeaders(x))

HasPicture(x) ==
  /\ SeqHeaders(x) # {}
  /\ Picture(x) + Len(SEQ) + FIELDS <= Buffered(x)

NoSequence ==
  /\ IsPack
  /\ ~HasPicture(movie)
  /\ Row("bare", 0)

Movie ==
  /\ IsPack
  /\ HasPicture(movie)
  /\ Row("movie", Picture(movie))

MoviesStep == EmptySlot \/ NoPack \/ NoSequence \/ Movie

MoviesDone == Len(rows) = Len(container)

-----------------------------------------------------------------------------
(* Properties                                                              *)

\* The sequence headers that lie in the member, and in what is read of it.
Own(x) ==
  {d \in 0 .. Lesser(WINDOW, container[x].len) - Len(SEQ) - FIELDS :
     \A q \in 1 .. Len(SEQ) : Byte(container[x], d + q - 1) = SEQ[q]}

\* What mpeg.py takes for a movie is what binfs.py counts as one, and the picture
\* it prints is of that movie: of its own first sequence header if it has one in
\* the window, and of none if the window is inside it.
MoviesAgree ==
  MoviesDone =>
    \A x \in 1 .. Len(container) :
      LET b == container[x]
      IN  /\ b.len >= 16 =>
               (rows[x].verdict \in {"bare", "movie"} <=> KindOf(b) = "MPEG-PS")
          /\ rows[x].verdict \in {"bare", "movie"} =>
               /\ Own(x) # {} => rows[x] = [verdict |-> "movie", at |-> Min(Own(x))]
               /\ Own(x) = {} /\ b.len >= WINDOW => rows[x].verdict = "bare"

=============================================================================
