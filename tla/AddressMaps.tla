---------------------------- MODULE AddressMaps ----------------------------
(***************************************************************************)
(* Where in a file the tools look for a virtual address: the mapper of     *)
(* src/tools/prefix_scan.py, words of decoder_lineage.py, dol_offset of    *)
(* xarch.py, read_vaddr of ps2elf.py and --va of dismips.py, each over the *)
(* same headers, and the way back from an offset to its address.           *)
(*                                                                         *)
(* Files are made of words: data[o] is the word at file offset o, and      *)
(* every offset and address is a multiple of WIDTH, as code is.            *)
(***************************************************************************)
EXTENDS Integers, Sequences

CONSTANTS
  Word,     \* the instructions, as far as the tools tell them apart
  Nowhere,  \* the place of an address that is not mapped
  TEXT      \* where the text of a PS-X EXE starts in its file (0x800)

ASSUME PlaceAssumption == TEXT \in Nat /\ Nowhere \notin Int

WIDTH == 4

\* A program header, or a section header: load says whether it is one the tools
\* consider (PT_LOAD, SHT_PROGBITS); size is what the file holds of it.
Heads == [load : BOOLEAN, off : Nat, va : Nat, size : Nat]

Kinds == {"elf", "psx", "dol", "raw"}

\* An executable; org is the load address of a PS-X EXE.
IsExe(e) ==
  /\ e.kind \in Kinds
  /\ e.heads \in Seq(Heads)
  /\ e.sects \in Seq(Heads)
  /\ e.org \in Nat
  /\ e.data \in Seq(Word)

Bytes(e) == WIDTH * Len(e.data)

\* Mutated form of Holds: the address behind the header is in it.
HoldsEnd(p, a) == p.load /\ p.va <= a /\ a <= p.va + p.size

Holds(p, a) == p.load /\ p.va <= a /\ a < p.va + p.size

Place(p, a) == p.off + a - p.va

Holding(t, a) == {k \in DOMAIN t : Holds(t[k], a)}

\* The first header that holds the address decides, or the last one.
First(t, a) ==
  IF Holding(t, a) = {} THEN Nowhere
  ELSE Place(t[CHOOSE k \in Holding(t, a) : \A m \in Holding(t, a) : k <= m], a)

Last(t, a) ==
  IF Holding(t, a) = {} THEN Nowhere
  ELSE Place(t[CHOOSE k \in Holding(t, a) : \A m \in Holding(t, a) : m <= k], a)

\* load_image of prefix_scan.py: an IOP module has no PT_LOAD, and its sections
\* are used instead.  Anything that is not an ELF or a PS-X EXE is a blob.
Segments(e) == IF \E k \in DOMAIN e.heads : e.heads[k].load THEN e.heads ELSE e.sects

Mapper(e, a) ==
  CASE e.kind = "elf" -> First(Segments(e), a)
    [] e.kind = "psx" -> TEXT + a - e.org
    [] OTHER -> a

\* words of decoder_lineage.py: the loop over the headers has no break.
Mapped(e, a) ==
  CASE e.kind = "elf" -> Last(e.heads, a)
    [] e.kind = "psx" -> TEXT + a - e.org
    [] OTHER -> a

\* dol_offset of xarch.py, over the eighteen sections of the header.
DolOffset(e, a) == First(e.heads, a)

\* read_vaddr of ps2elf.py returns from within the loop.
ReadsFrom(e, a) == First(e.heads, a)

\* Mutated form of InFile: headers that are not loaded are looked at.
InFileAny(p, o) == p.off <= o /\ o < p.off + p.size

InFile(p, o) == p.load /\ p.off <= o /\ o < p.off + p.size

\* The way back, as load of dismips.py takes it: the address of a file offset, or
\* the offset itself where no segment holds it.
AddressOf(e, o) ==
  LET t == e.heads
      S == {k \in DOMAIN t : InFile(t[k], o)}
  IN  CASE e.kind = "psx" -> e.org + o - TEXT
        [] e.kind = "elf" /\ S # {} ->
             LET p == t[CHOOSE k \in S : \A m \in S : k <= m] IN p.va + o - p.off
        [] OTHER -> o

\* --va of dismips.py: as in words, but a blob has no addresses, nor has what is
\* below the origin of a PS-X EXE.
Sought(e, a) ==
  CASE e.kind = "elf" -> Last(e.heads, a)
    [] e.kind = "psx" /\ e.org # 0 /\ e.org <= a -> TEXT + a - e.org
    [] OTHER -> Nowhere

\* struct.unpack_from takes a negative offset from the end of the file, and
\* raises where there is no whole word.
Whence(e, o) == IF o < 0 THEN o + Bytes(e) ELSE o

Readable(e, o) == Whence(e, o) >= 0 /\ Whence(e, o) + WIDTH <= Bytes(e)

WordAt(e, o) == e.data[Whence(e, o) \div WIDTH + 1]

\* What an executable that loads has: no address is in two of its segments.
Disjoint(t) ==
  \A k, m \in DOMAIN t :
    t[k].load /\ t[m].load /\ k # m =>
      t[k].va + t[k].size <= t[m].va \/ t[m].va + t[m].size <= t[k].va

\* No offset of the file is in two of them.
Apart(t) ==
  \A k, m \in DOMAIN t :
    t[k].load /\ t[m].load /\ k # m =>
      t[k].off + t[k].size <= t[m].off \/ t[m].off + t[m].size <= t[k].off

=============================================================================
