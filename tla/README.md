# Formal models of the Tales of Rebirth disc tools

TLA+ specifications of the Python tools under `src/tools`, model-checked with
TLC, with theorems checked by TLAPS. Each tool is one sequential program that
reads a disc image or an executable and publishes facts about it in `src/docs`
and `src/reports`: "2,851 of 2,851 blocks decode", "this signature is nowhere on
the disc", "no run of the old decoder longer than this survives". Nothing crashes
when such a fact is wrong. What can go wrong is data that is decoded, searched or
counted wrongly at some boundary the one sample disc does not exercise, so that
is what the models are about.

Contents: [inventory](#inventory), [modules](#modules),
[how models and code correspond](#how-models-and-code-correspond),
[runs](#runs), [fairness](#fairness), [proofs](#proofs),
[findings](#findings), [not modelled](#not-modelled), [plan](#plan).

## Inventory

Paths are relative to `src/tools`.

| component | state it keeps | operations | talks to |
|---|---|---|---|
| block codec `tales_block.py` | ring, write cursor, flag byte, input position, output | `unpack_stream`, `unpack`, `header`, `plausible`, `preload`, `cursor_start` | called by every census, by the orphan scan and by `scpk.py` |
| container index search `binfs.py` | walks kept, the table | `find_table`, `Fs.members`, `Fs.read` | reads the executable found by `iso9660.py`; gives members to all censuses |
| member kinds census `binfs.py` | counters by kind | `kind`, `adpcm`, `cmd_census` | the same members as the codec census |
| codec census `codec_census.py` | two tallies, archive and bundle counts; the lines of a listing | `census`, `parse_bundle`, `parse_archive`, `Tally.add`, `cmd_archives` | `tales_block.unpack`, `binfs.kind` |
| orphan block scan `codec_census.py` | window, carried bytes, positions, seen, found | `cmd_scan` | `binfs` for the known offsets, `tales_block.plausible` |
| SCPK census `scpk.py` | counters, one size for each content | `iter_bundles`, `parse`, `block_head`, `cmd_census`, `cmd_dupes`, `cmd_list`, `cmd_member` | the same members; its totals are added to the codec census's |
| magic sweep `leftovers.py` | window, carried bytes, counts, first offsets | `sweep` | the raw image |
| string lists `leftovers.py` | rows kept, a bucket for each category | `strings`, `categorise`, `main` | the same files as the sweep |
| disc directory walk `iso9660.py` | queue of directories, current sector, paths | `descriptors`, `pvd`, `records`, `walk` | consumed as a generator by `binfs`, `sector_map`, the extraction, the listings |
| extraction `iso9660.py` | the file being written, bytes left, files on disk | `cmd_extract` | shares one handle with the walk it has suspended |
| sector map `sector_map.py` | sorted claims, cursor, slack | `claim`, `main` | `iso9660.walk` |
| prefix scan `prefix_scan.py` | bisection bounds, k-gram index, rolling hash | `longest_run`, `match_at_length`, `kgram_index`, `needle`, `load_image` | `tales_block` test vectors, executables of several machines |
| executable loader `ps2elf.py` | program headers | `read_vaddr`, `vaddr_range` | its headers are used by every tool that maps an address |
| codec sites and lineage `ring_sites.py`, `decoder_lineage.py` | sites found, the walk back, words and sums of a comparison | `scan`, `routine_start`, `words`, the loop of `main` | executables; an address goes from one tool's report to the other's command line |
| cross-architecture comparison `xarch.py` | words and bytes of two routines | `load`, `dol_offset`, `longest_common_bytes`, `compare` | executables of two machines; measures what `decoder_lineage` and `prefix_scan` measure |
| disassemblers `dismips.py`, `disppc.py` | none | `find_prologue`, `load`, the listing, word to text | addresses of the other tools' reports; `xarch` |
| movie headers `mpeg.py` | none | `main`, `sequence` | members of one container, by the same index as the censuses |

Behaviours that are hard, and the property each component needs:

* **Block codec.** The ring wraps in the middle of a phrase, a copy reads bytes
  it has just written, references reach a preload made of two loops and a zero
  tail, and the stream may be cut inside any token. Correct means: decoding is a
  sliding window over one output, however the ring is laid out; all input is
  looked at; expansion has a known bound.
* **Index search.** The index has no header: a stray constant equal to the size,
  zero words in front, two tables back to back. Correct means: what is returned
  is a table, no longer one is missed, and every occupied member is recovered.
* **Chunked searches** (orphan scan, magic sweep). A hit straddles two chunks or
  lies in the bytes that are searched twice; image and container end at
  different places. Correct means: nothing is missed, nothing misplaced or
  reported twice, and what the report calls swept was read.
* **String lists.** A run may be cut, a rejected run may be entered again from its
  second byte, a row is in several categories or in none. Correct means: whole runs
  only, each under each of its categories; and no contradiction with what the sweep
  says of the same file.
* **Directory walk.** Records never cross a sector, a zero length ends a sector
  and not the directory, paths are put together from queued parents, nothing
  remembers visited directories. Correct means: complete, true paths, ends on a
  tree.
* **Extraction.** The walk is suspended while a file is copied in chunks on the handle
  the walk reads directories with; versions share a name, a name may be taken by a
  directory, the image may end early. Correct means: each file on disk holds exactly the
  sectors of the record it is of, and the walk goes on where it was.
* **Sector map.** Claims overlap, nest, repeat and overrun. Correct means: slack
  is exactly what nothing claims.
* **Censuses.** Formats with no type field, two levels, three tools with tests
  and thresholds of their own whose totals the docs add and compare. Correct
  means: each block is counted once, on its level, by one tool, and a failing
  block does not fall out of the "N of N". The reports that look at the same members
  once more (copies, single bundles, movies, archives) must account for the same numbers.
* **Prefix scan.** Rolling hashes with collisions, a bisection that relies on
  monotonicity. Correct means: the run reported is real and longest.
* **Sites and lineage.** The absence of the decoder is concluded from a scan that
  finds nothing; a walk back is bounded by a count and by the section; five tools
  translate the same address with different tie-breaks, and a negative offset is
  taken from the end of the file. Correct means: every site is reported with the
  routine around it, the tools that are given that address read the same words, the
  longest identical run is the longest, and what three tools measure of the same pair is
  in the order that their descriptions imply.

There is no concurrency inside a tool, nothing is persisted and nothing is sent;
crashes, lost messages and races have no counterpart. Interleaving appears in
two places: the three censuses are separate runs whose results the docs combine, and
`DiscCensus` lets their steps come in any order; and the extraction and the walk it has
suspended share a file position.

## Modules

| module | models | lines of code |
|---|---|---|
| `TalesBlock` | the token stream decoder, ring and all | `tales_block.py` 47-180 |
| `SlidingWindow` | the abstract specification it implements | |
| `FindTable` | the search for a container's index; `Members` | `binfs.py` 43-97 |
| `ChunkScan` | the orphan block scan | `codec_census.py` 242-292 |
| `MagicSweep` | the signature sweep | `leftovers.py` 116-149 |
| `TextRuns` | the report on text, over the file that was swept, EXTENDS `MagicSweep` | `leftovers.py` 34-75, 152-180 |
| `DiscWalk` | descriptors, records and the directory walk | `iso9660.py` 86-133 |
| `SectorMap` | the sector map, EXTENDS `DiscWalk` (its consumer) | `sector_map.py` 21-83 |
| `Extraction` | the walk with the copying of its files between its steps, EXTENDS `SectorMap` | `iso9660.py` 181-200 |
| `Formats` | block headers, kinds, bundles and archives as operators on buffers | three files |
| `CodecCensus` | the codec census, EXTENDS `Formats` | `codec_census.py` 97-206 |
| `BinCensus` | the kinds census composed with the codec census | `binfs.py` 165-182 |
| `ScpkCensus` | the SCPK census, over the same containers | `scpk.py` 39-137 |
| `DiscCensus` | the three censuses of one disc | the composition |
| `ScpkDupes` | the search for copies, EXTENDS `ScpkCensus` | `scpk.py` 140-160 |
| `ScpkListing` | the list of bundles and the table of each, EXTENDS `ScpkCensus` | `scpk.py` 168-236 |
| `Movies` | the movies and their picture headers | `mpeg.py` 38-81 |
| `Archives` | the archives that members decode to, EXTENDS `CodecCensus` | `codec_census.py` 217-239 |
| `DiscReports` | the censuses and then these four reports on one disc | the composition |
| `RunSearch` | bisection over exact answers, the abstract search | `prefix_scan.py` 110-121 |
| `PrefixScan` | the same with index and rolling hash | `prefix_scan.py` 74-121 |
| `AddressMaps` | where a file holds an address, by each tool's own rule | five files |
| `SiteScan` | the ring site report, EXTENDS `AddressMaps` | `ring_sites.py` 38-105 |
| `Lineage` | the comparison that follows up a line of that report, EXTENDS `SiteScan` | `decoder_lineage.py` 34-105, `xarch.py` 96-135 |
| `Listing` | the listing that follows up the same line, EXTENDS `Lineage` | `dismips.py` 111-189, `disppc.py` 155-164 |
| `Xarch` | one more comparison of the routine, EXTENDS `Listing` | `xarch.py` 96-168 |
| `*Proofs` | theorems about the module of that name and those composed with it | |
| `MC*` | the finite instances TLC checks | |

## How models and code correspond

* One action per branch of a loop body or per early exit; a local variable of
  the function is a variable of the module with the same name; `pc` says which
  loop the program is in. A generator (`walk`) and its consumer are steps of one
  behaviour, since the consumer changes nothing the generator reads.
* **`TalesBlock`.** The geometry is a function of one constant `NIB`, the number
  of values of a half byte (16 in the code): `BYTE = NIB^2`, `RING = NIB^3`,
  matches of 3 to `NIB + 2`, runs of 4 to `BYTE + NIB + 2`. `LoadFlags`, `TakeFlag`, `Literal`,
  `Reference`, `ShortRun`, `LongRun` and the `Cut*` actions are the branches of the
  loop; `EmitCopy` and `EmitRun` emit one byte, so every intermediate ring is a
  state. `Preload` and `CursorStart` are the two dialects' loops.
* **`FindTable`.** The executable is its sequence of words. The list of
  candidate tables is a sequence of index pairs; `Choose` is Python's
  `max(key=len)`, which keeps the first of equals.
* **`ChunkScan`, `MagicSweep`.** The window `prev + chunk` is the interval
  `lo .. hi - 1` of the image. The positions the code computes (`pos`, `base`) are
  variables of their own, so that they can be wrong. In `ChunkScan` what is at an address is
  one number, the packed length of a block that is plausible and decodes, or 0:
  the test itself is the decoder's business. The time budget is a
  nondeterministic choice before each chunk.
* **`DiscWalk`, `SectorMap`.** An image is a number of sectors and what each of them holds as
  a sector of a directory: a sequence of records, `End` or `Dot`. `PopDirectory` reads the sectors
  that the record points at (`Sectors`, into `data`), those behind the end of the image as nothing. An
  entry is its number; its name, which only paths use, is that number. Claims are extents `[first, last]`; the sorted list is
  consumed by taking a least claim.
* **`Formats` and the censuses.** A buffer is a length and a function from
  offsets to nonzero bytes, cut without copying by `Slice`. Headers, sizes and
  offsets are read as little-endian numbers from those bytes, with the code's own tests
  in the code's order. What a token stream decodes to is the constant
  `Streams`, by its first byte: decoding has a module of its own. A tally is a
  record, the place of a block the sequence of its indices.
* **`PrefixScan`.** `IndexWindow` puts one window of the file into the index and rolls the
  hash; `Match`, `NextWindow`, `NoMatch` probe with one window of the needle. The hash
  is the code's polynomial with `BASE` and `PRIME` as constants.
* **`AddressMaps`, `SiteScan`, `Lineage`.** A file is a sequence of words, an executable its
  headers and that file; a word is one of a few instructions that the tools tell apart. `First`
  and `Last` are the two tie-breaks; `Whence` is what `struct.unpack_from` does with a
  negative offset. `Limit` is the number of words `routine_start` goes back (1024). The
  reader who carries an address from one report to the next command line is
  `PickRoutine`.
* **`Listing`, `Xarch`.** The reader goes on: from a site back to a prologue
  (`AskPrologue`), or from an address to a listing (`ListRoutine`), or to the comparison of
  bytes (`AskXarch`) with the routine that was compared or one of another machine.
  `Coded` gives the four bytes of each word; `Clip` is what a Python slice does with an
  index out of range, `Whence` what `unpack_from` does, and the two differ below zero as they do
  in the code. The classes of instructions and their ratio are left out.
* **`Extraction`.** A file on disk is the sequence of sectors written to it; a name is `base`, so
  that two entries may share one (versions whose `;1` is cut off) or have a
  directory's. `fpos` is the position of the one handle, in sectors: `WalkOn` moves it
  over the descriptors (`Looked`) and with every directory read (`Behind`), `OpenFile` and
  `CopyChunk` with every file. A read without a seek is then of what the other has left.
* **`ScpkDupes`, `ScpkListing`, `Movies`, `Archives`.** Each is a pass of its own over the members;
  `DiscReports` runs them after the censuses, one after the other, since none reads what
  another writes. The SHA-1 of a content is the content. A movie is read through
  a window of `WINDOW` bytes of the image (`Buffered`), not of the member, so the next member's
  bytes are in it, and behind the last member those that follow the container (`Behind`),
  where they are in the code. `Limits` and `ListLimits` are
  what `--limit` may be.
* **`TextRuns`.** A byte is printable, clean, a letter, or none. `NextRun` is the regular
  expression's leftmost longest match; a category is its set of words.

Abstracted everywhere: printing, argument parsing, the conversion of sizes to
text, and the file object (a read returns what the image holds there).

## Runs

| run | module, cfg | instance | what it shows |
|---|---|---|---|
| `decoder` | `MCTalesBlock`, `Decoder.cfg` | all streams of up to 6 bytes | `WindowMirrorsOutput`, `AllInputRead`, `ExpansionBound`, refinement of `SlidingWindow` |
| `find_table` | `MCFindTable`, `FindTable.cfg` | all executables of up to 6 words | `FoundTable`, `NothingLonger`, `MembersRecovered` |
| `chunk_scan` | `MCChunkScan`, `ChunkScan.cfg` | images of 0, 11 and 14 bytes (215,288 states) | `FoundAreOrphans`, `OrphansAreFound`, termination |
| `magic_sweep` | `MCMagicSweep`, `MagicSweep.cfg` | all images of up to 11 bytes over two values, up to 6 over four (868,369 states) | `AbsentMeansAbsent`, `CountsCover`, `FirstIsFirst`; `TextIsListed`; both halves agree: `SweepMeetsText` |
| `sector_map` | `MCSectorMap`, `SectorMap.cfg` | all trees of 3 entries, and one disc that is no tree, on images of four lengths (144,696 states) | `PathsAreTrue`, `WalkIsComplete`, `YieldedOnce`, `SlackIsUnclaimed`, `FilesAreTheirRecords`, termination of walk, map and extraction |
| `disc_census` | `MCDiscCensus`, `DiscCensus.cfg` | containers of 1 and 2 members of 31 kinds (208,544 states) | `PartsTile`, `NoneUncounted`, `EveryBlockCounted`, `CensusesAgree`, `ScpkCounted`, `PopulationsDisjoint`, `DupesAccount`, `TablesAddUp`, `MoviesAgree`, `ArchivesAgree` |
| `prefix_scan` | `MCPrefixScan`, `PrefixScan.cfg` | all needles of up to 5 and files of up to 6 bytes | `LongestRun`, refinement of `RunSearch`, termination |
| `lineage` | `MCLineage`, `Lineage.cfg` | all routines of 5 words over 3 instructions, and six with others, in eight kinds of executable (166,666 states) | `SitesAreReported`, `SiteIsCompared`, `LongestIdentical`, `PrologueIsNearest`, `ListingAgrees`, `MeasuresAreOrdered` |
| four violation runs | see [findings](#findings) | | what a comment or doc promises and the code does not do |

The properties that compare two tools are the ones no test of one tool could have:
`CensusesAgree`, `PopulationsDisjoint`, `MoviesAgree`, `TablesAddUp`, `ArchivesAgree`
and `DupesAccount` relate the counters of two passes over the same members,
`SweepMeetsText` two searches of one file, `SiteIsCompared`, `ListingAgrees` and
`MeasuresAreOrdered` two translations of one address. The type invariants are not checked by the
runs: each is a theorem (`TypeCorrect` of the proof modules; the orphan scan's is part of
`ScanInv`, the prefix scan's bounds are `RangeInv`).

Bounds, and why they are enough:

* `NIB = 2, FlagBits = 2, MaxStream = 6`: a ring of 8 cells and tokens of up to 8
  bytes, so one stream wraps the cursor more than once, copies overlap what they
  write and cross the wrap, runs of both forms occur, every cut is met and first
  references read the preload. At this size it has groups of one cell and a zero tail, and its second
  loop is empty; that ring and output agree over any preload is `RingMirrors`, for every `NIB`.
  The preload itself is the code's, and no property questions it.
* `ALIGN = 4`, words from {0, 1, 4, 6, 8, 9}: zero, padding alone, two distinct
  bases, and the size itself both aligned and not. Six words hold two tables, or one
  with slack before it and a stray sentinel.
* `CH = 6, OVER = 4, STEP = ALIGN = 2, HEADER = 1`: three chunks; two blocks of
  every length up to past the carried tail, at every address, indexed or not.
  The container ends inside the image, at its end and past it. Here the step divides chunk and tail,
  as 64 does in the code; `OrphansAreFound` asks for no more of others (`StepFits`).
* `CH = 4` with signatures of 1, 2 and 3 bytes over two values: three chunks, and
  occurrences in every position relative to a boundary, overlapping themselves. Images of
  up to six bytes also have digits and braces: with `MIN = 2` up to two runs, kept,
  refused for a byte or for too few letters, in one category, two or none. In
  `magic_sweep_counts` there are only images of two values (`MaxText = 0`).
* Trees of three entries below the root: every shape of depth up to three,
  directories over one and several sectors with early zeros, good and bad
  descriptor sequences; one disc on which two directories hold the same records (`Shared`), where
  entries are yielded twice and `YieldedOnce` claims nothing; extents that touch, overlap, nest, leave gaps and overrun. Files of
  up to five sectors copied in chunks of `CHUNK = 2`, two entries with one name or two, an
  image that ends behind, with and inside a file, inside and before a directory, and among the
  descriptors (2, 9, 12 and 14 sectors).
* 31 kinds of member: blocks of each method that fit or not, decode to their
  size or not, or decode to an archive; bundles with and without a count that
  reads as a method; SCPK bundles with empty, stored, wrong, overrunning and
  over-ratio members, with twins, and with an empty member in front of a block; archives with a
  part too short to be one; movies of 24, 40 and 80 bytes under a window of 76 (`WINDOW`, 64 KB in
  the code, members aligned to `ALIGN = 64`), with no header, one, and one that the
  window cuts, and a sequence header in what follows the container; signatures; ADPCM and near misses; members too short to
  read. Listings are of one line (`Limits = {1, 30}`, `ListLimits = {1, 40}`) or of all there is. Two members are enough for a count to leak from one into the next.
  32-bit values stay below 2^31 (TLC's integers); nothing in the code wraps.
* `BASE = 2, PRIME = 3`: windows of different bytes share a hash from length two on,
  so every lookup has false candidates.
* Five words of code, `Limit = 3`, comparisons of two and three words: sites before the first
  return, in its delay slot, behind it, out of reach of the walk; one segment, two that touch,
  two that overlap, none; scans that end with the segment, with the file and past it; other
  routines that match, that are not mapped, that lie below the load address, and that two
  segments hold at different offsets (`Overlaid`); routines of a DOL, whole and not (`Foreign`). A
  prologue is looked for `Reach = 12` bytes back, three words (0x600 in the code). The bytes of
  words (`Coded`) share some of their bytes, so that byte runs begin inside words.

The deadlock check is on in every run: each module has an action for the state
in which the tool has returned.

The four violation runs have one property each, a sentence of the repository:
`find_table_slot_zero` (`AtMostOneZeroBased`), `magic_sweep_counts` (`CountsExact`),
`chunk_scan_end` (`FoundInContainer`), `disc_census_bundles` (`BundlesAreCounted`).

## Fairness

The specifications of the tools of which termination is claimed (`ChunkScan`, `PrefixScan`, and
`ToolsSpec` of `Extraction`, which is the walk with its consumers) have weak fairness of their whole step: one sequential program, always
runnable, never waiting for anyone. The others have none, and claim safety only: the deadlock
check still shows that they never stop short of their end.
No action is fair by itself and no choice between actions is assumed fair. The time
budget of the orphan scan may be reached at any chunk or never. `Terminates` of the directory walk is claimed for trees only, since on a
directory that holds its own ancestor the code does not end.

## Proofs

All theorems are for every value of the constants, from the named assumptions of
the modules alone (`GeometryAssumption`, `StreamsAssumption`, `AlignAssumption`,
`PatternAssumption`, ...: what the code's own constants satisfy and that the inputs have
their types). TLC evaluates each assumption in the runs. Every invariant that a run checks is
the conclusion of a theorem, and so are both refinements; `PROJECT.json` lists them by name.

Three arguments come back in several modules. *Least counterexamples*: induction over data is out
of the provers' reach (below), so what is true of every length, window or set is proved by taking a
least one of which it is false (`SmallestThere`, from the well-foundedness of the naturals).
*Sums*: the totals of a census are folds, of which nothing can be proved by unfolding;
`SumIsTotal` shows that the fold is the one value that a total built up element by element can
have, and `SumAdds`, `SumSame`, `SumIsNat` follow for the rest to cite. *Seen so far*: each
counter is, at every step, the number or sum over the places its tool has passed, and the set of
places passed grows by what the step passes.

* **`TalesBlockProofs`.** The inductive invariant is `WindowInv`: `TypeOK`,
  `WindowMirrorsOutput` and `CursorInFirstLap`. The last says where the cursor is
  while the output is no longer than the ring; it is needed because the cell about to
  be overwritten for the first time must still be at the distance the preload
  puts it. `DecoderImplementsWindow` maps the output, continued to the left by the
  preload, to the abstract window: a copy in progress is a copy at `Distance`, which
  does not change during the phrase because source and cursor both move by one
  modulo `RING`. `ExpansionBounded` needs an exact account (`Paid`): a flag byte pays
  for its flags in advance, and a phrase in progress is charged the bytes it still owes.
* **`FindTableProofs`.** `SearchInv`: the walk in progress is a table (`WalkInv`), so are
  the kept ones (`KeptInv`), every table that ends at a word already passed is part of a
  kept one (`CoverInv`), the chosen one is a longest one less zeros (`ChosenInv`), and
  nothing kept means nothing there (`NoneInv`). `NothingLonger` and
  `MembersRecovered` follow from these.
* **`MagicSweepProofs`.** `SweepInv`: the window is where the code thinks it is and
  reaches far enough back to hold whole whatever the chunk boundary would cut
  (`FrameInv`); every occurrence that was within reach is counted, and the first on
  record is before all others (`SeenInv`); the sweep ends only at the end of the image
  (`DoneInv`). `CountInv` bounds each count from below by the number of occurrences met, and a
  signature as long as the longest from above too: to be met twice it would have to fit in
  what is carried over. `AuditedSweep` carries this to the tool with both its halves.
  The report on text (`TextInv`): a row is a whole run that is kept and ends before
  the place in hand, and all such are rows (`RowsInv`); the buckets are the rows sorted so far, by category
  (`BucketInv`); what is printed is the sections reached (`PrintInv`). `SweepAndTextAgree` follows from the two
  at the end: around each occurrence of a printable signature lies a run (`RunAround`).
* **`SectorMapProofs`.** The walk: every path on the queue or yielded leads from the root
  through directories (`PathInv`, with `ReaderInv` for the place in the sector), and
  every directory reached is waiting, being read, or exhausted (`ReachInv`, with
  `ListInv` and `LoopInv` for what the current directory's list holds). No tree is assumed.
  That nothing is yielded twice does need one (`IsTree`), and holds because in a tree an entry has one holder
  (`OnceInv`): what a waiting directory holds has not been yielded, and what has been
  yielded is held by the root or by a directory yielded before.
  The map: claims passed end below the cursor, every sector below it is slack
  or claimed, and no piece of slack covers a claimed sector (`MapInv`).
  The extraction: `ExtractInv` says that what has been written is the first sectors of the
  record, that the handle stands at the next one, and that no step of the walk comes
  between; `ExtractionLeavesWalk` maps each of its steps to one of the walk or none, so
  everything proved of the walk holds.
* **`ChunkScanProofs`.** `ScanInv`: the window is where the code takes it to be and
  reaches far enough back (`FrameInv`), it begins at a multiple of the step if the step divides chunk
  and tail (`PlacesInv`), what is found is an orphan in the image, and, for such a step, every
  orphan behind the place in hand that the carry is long enough for has been found
  (`SeenInv`). That nothing false is reported, that what is called swept was read, and that the
  sweep ends need no assumption on the step.
* **`DiscCensusProofs`.** `PartsTile` rests on what `parse_bundle` and
  `parse_archive` accept in any buffer (`PartsInv`); `NoneUncounted` on `kind`
  never accepting a header that `unpack` raises on, so that each tally stays `Even`.
  `DiscSpec` implies the specification of the two-tool census, so both carry over to
  the three tools. `ScpkIsNoOther` is why the three populations are disjoint, and
  `VerdictsAddUp` is the SCPK census's own "N of N". `ReportsLeaveCensuses` carries all
  of it to the disc that is asked for every report.
  The counts: `CensusInv` says that both tallies are of the blocks passed so far (`EveryBlockIsCounted`),
  `BinInv` the same of the kinds census, `ScpkInv` of the SCPK census; two tools agree
  (`CensusesAlwaysAgree`, `PopulationsAreDisjoint`) because they have counted the same set.
  The reports: `DupesInv` keeps what is stored equal to what is copied and each content once
  (`CopiesInv`), given that the bundles hold what their tables declare; `ListInv` and `ShownInv`
  say which bundles are listed and what their tables come to, `LinesInv` the same of the archives;
  a full list has then passed the set the census has. `MoviesAlwaysAgree` rests on `RowsInv`
  and on where members lie: aligned, so that the window (at least as long as a start code, by
  assumption) read from a member's place begins with its own bytes.
* **`PrefixScanProofs`.** `SearchInv`: what is on record is one byte shorter than the lower end and
  nothing longer than the upper end is common, because a run holds runs of all
  smaller lengths; at the end the two meet (`BisectionIsRight`). `ScanInv`:
  every candidate the index lists is a place where a window fits, and what is
  recorded was compared byte by byte, for any base and modulus (`RunsAreReal`).
  `HashingIsExact` is the refinement: `RollIs` shows by numbers congruent to the modulus, and by the least
  prefix at which two sums part, that a hash rolled on by one byte is the hash of the next window computed afresh;
  so (`HashInv`) every window of the file so far is in the index under its own hash and no window of
  the needle that was passed is anywhere in the file. A match is then a step of `RunSearch` that succeeds,
  running out of windows one that fails, and every other step a stutter; `LongestIsFound` follows.
* **`LineageProofs`.** `TypeInv` carries the types through both tools: no hit lies before the
  section, what has been read is as long as was asked for, nothing is counted before it is
  read. `LongestSoFar` is the invariant of the comparison: the run in progress is all of the identical
  words that end here, the best is a run that exists and none so far is longer.
  A longer run would have to end at the last word and begin before the run in
  progress, where the words differ. `SitesReported` rests on `ScanInv` (hits in order, every site
  passed is among them), `WalkInv` (the walk is `tries` words before the site and has met no
  return) and `StartsInv`; that no multiple of four is missed between two steps needs
  `--base` to be one. `SiteInRoutine` adds `FollowInv`, what has been read is what the file
  holds at the place the address maps to, and `OneHolds`: where segments do not overlap,
  the first that holds an address is the last. `NearestPrologue` (`BackInv`: how far the
  search has looked, and that it met no prologue) and `ListingIsOfAddress` (`LinesInv`)
  are about the listing that follows, and `MeasuringFollowsReport` carries all of them to the
  comparison of bytes. `MeasuresAlwaysOrdered` (`OtherInv`, `MeasureInv`: what each tool has read is what the
  files hold, and as many identical words are counted as there are) is that where a routine is
  words of the file its bytes are those of its words (`RawIsCoded`), so that a run of words
  is a window of both slices, and a window of a slice is one of the file (`WindowsOfSlice`).

Only model-checked is liveness, the `Terminates` of three runs: TLAPS has no rules for fairness and
ENABLED here. Its safety half is proved of the decoder, the orphan scan and the prefix scan: `StepsRunOut` gives
each a measure `Left`, a natural number that every step lowers (what is left to read, and what is owed of the
phrase, window or answer in progress), so a behaviour that does not end is one that takes no further step. What the
proofs leave to the reader is what a recursive definition computes: that `FirstHash` is the polynomial of the
code is read off its definition.

## Findings

Runs that TLC refutes, with the sentence they refute:

1. `binfs.py:70` trims leading words equal to zero, where its comment speaks of
   zero-based ones: with padding in slot 0 one slack word stays (`find_table_slot_zero`).
2. `leftovers.py:140` carries as many bytes for every signature as the longest needs, and
   so counts shorter ones twice at a chunk boundary (`magic_sweep_counts`).
   A count of zero, which is what the docs rely on, is never wrong: that is a theorem.
3. `codec_census.py:264` reads the last chunk past the end of the container and reports blocks
   of the next file (`chunk_scan_end`: a container of eight bytes, a block at address 8).
4. `codec_census.py:158` takes a bundle whose count reads as a known method for a block
   (`disc_census_bundles`: a bundle of three).

Seen while modelling, with no run (each is quoted in full in `PROJECT.json`):

* Disc: the root directory's own sectors count as slack (`sector_map.py:34`); the walk described
  as depth-first is breadth-first (`iso9660.py:112`); the contents of a piece of slack are
  judged from its first sector (`sector_map.py:79`); a copy cut short by the end of the image is
  counted like a whole one (`iso9660.py:199`).
* Reports: 'N movies' counts members that are none (`mpeg.py:81`), a short movie may be given its
  successor's picture (`mpeg.py:63`), `--packs` is not there (`mpeg.py:52`); a table of one bundle
  shows a block at an empty member (`scpk.py:205`) and is not asked for by number
  (`scpk.py:188`), copies are charged at the size declared last (`scpk.py:153`); a part
  of an archive may be named after the next (`codec_census.py:232`); `--category` ends in an
  exception (`leftovers.py:153`).
* Addresses: a PS-X EXE maps every address, those below its origin to the end of the file
  (`prefix_scan.py:62`), where the words and the bytes of one routine differ (`xarch.py:117`); a
  read at the end of a segment goes on behind it (`ps2elf.py:123`); a site in the delay slot of a
  return is reported with a routine that begins behind it (`ring_sites.py:70`); "no immediate
  anywhere in this image" speaks of fewer instructions than it says (`ring_sites.py:92`).
* Blocks: pair archives of eight members or more are not recognised (`codec_census.py:87`); with a
  `--step` that does not divide chunk and carried bytes the orphan scan tries other offsets after
  the first boundary than the report says (`codec_census.py:285`).
* Command lines: a decimal offset is taken for the count (`disppc.py:160`), and the controls
  the comparison is said to insist on are optional (`xarch.py:175`).

## Not modelled

* `dismips.py`, `disppc.py`: the tables from bit fields to text; a property would restate them.
* `binfs.py` `cmd_list`, `cmd_tables`, `cmd_extract`, `sector_map.py --dump`, the listings and
  `--pvd` of `iso9660.py`: they print or copy what the modelled functions return and keep
  nothing between two lines.
* `Entry` decoding in `iso9660.py` and the fields of a sequence header in `mpeg.py`: fixed bits of
  one record.
* `tales_block.py` `scan`, `selftest` and `main`: the first is the orphan scan without chunks, the
  second runs the decoder on vectors of its own.
* `ps2elf.py` but for `read_vaddr`: names, symbols and ranges read out of the headers.
* The classes of `xarch.py` and the ratios of `difflib`, which the docs do not use as evidence.
* The regular expressions of `leftovers.py`, character by character.

## Plan

Every part with state of its own is modelled and every invariant and refinement the runs check is proved.
What is left:

1. The safety half of termination for the walk of a disc that is a tree, the sector map and the extraction, as
   `StepsRunOut` has it for the decoder and the two scans: there the measure is the records not yielded yet.
2. An abstract census (a set of blocks, tallied in one step) that `CodecCensus`, `BinCensus` and
   `ScpkCensus` each implement, in place of the pairwise agreements.
