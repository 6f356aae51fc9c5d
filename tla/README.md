# PageDumper, specified

PageDumper reads the page files of a PostgreSQL 8.4 table and prints their rows
as SQL, without a server.  It was written to rescue a corrupted database, so
most of what it meets is not what a healthy server would have written.  This
directory holds TLA+ models of the program, the TLC runs that check them on
small instances, and proofs of the properties that matter most for every size.

The program has one thread and no network.  What makes it hard is its input: a
page, a tuple, a chunk or a compressed stream may be damaged anywhere, the
errors are told in five different ways (return, exception, assertion, `abort()`,
bytes left in a buffer), and state survives from one row to the next: the page
buffer, the stream of the TOAST file, the count that decides where a statement
ends.

## 1. Inventory

| Component | Code | State | Operations | Talks to |
|---|---|---|---|---|
| Page loop | `main.cpp` | input stream, page and item counters | open and size the file, walk pages and line pointers | heap page, page iterator's `read_page`, user code |
| Row printer | `table_sample_user.cpp` | `insertion_count`, `toastmap`, `toast_file`, `Varlena::toastmap` | `user_code_setup`, `user_code`, `user_code_finish`, `sql_*` | tuple layout, TOAST map and fetch, standard output |
| Heap page | `PageData` in `page_dumper.h` | none, a view on a buffer | `itemid_count`, `get_item_header`, `get_item_data` | |
| Page iterator | `read_page`, `PageIterator` | position, number of pages, static buffer, stream state | constructor's checks, `next` | the file |
| Tuple layout | `ItemData`, `ItemHeader`, `Varlena` | none | offsets, padding, null bitmap, varlena headers | TOAST fetch |
| TOAST map | `ToastMap::fill_toast_map` | `positions`: value id to chunk locations | one pass over the TOAST file | page iterator, heap page |
| TOAST fetch | `ToastPointer::fetch_data` | the stream (shared by all fetches), buffers of a call | sum, read the chunks, strip the header or decompress | TOAST map, decompressor |
| pglz decompressor | `pglz_decompress` | positions, control byte, output | decode, give up, abort | called by TOAST fetch |
| pglz compressor | `pglz_compress` | static history lists, output | search matches, write items | not called by either program: it is how the data they read was written |
| SQL literals | `sql_varlena`, `sql_integer`, `sql_geometric` | none | write a value as SQL | the session that loads the script |
| toast_dumper | `toast_dumper_user.cpp` | filter | prints the chunks of one file | tuple layout |
| Debug printing | `print_*`, `build_string`, `hexadecimate_all` | none | formatting | |
| Loading session | psql, outside the repository | transaction, statement | reads the script | the output of the row printer |

Interaction is by direct call.  `user_code_setup` fills the map before the first
page is read; `user_code` asks for a value through `Varlena::build_bytes`, which
calls `fetch_data` for an out-of-line one; an exception out of there is caught in
`user_code` and costs that row, an assertion or `abort()` costs the program.

What each part has to get right:

- *Decompressor*: stays inside the output whatever the input, stops, reads at
  most a bounded distance past its input, and decodes what the compressor wrote
  even when the header overstates the length.
- *TOAST map*: nothing lost, nothing invented, in whatever order chunks lie.
- *TOAST fetch*: an intact value is answered by its own text; damage to one
  value does not reach another.
- *Tuple layout*: a column is read where the server stored it; what is misread
  is never printed.
- *SQL literals*: what the session reads is the text, and the literal ends with it.
- *Compressor*: its static history describes the current call only; the output
  stands for the source and fits its buffer.
- *Row printer*: the script loads the rows printed and no others; batches break
  in the right places although any tuple may be skipped; a dump that dies loads
  nothing.
- *Page loop*: every row of the file once, in order, and an end.

The hazards behind these, each at its line, are in `PROJECT.json`.

## 2. Modules

| Module | Models |
|---|---|
| `PglzDecompress` | `pglz_decompress`, one action per branch of its two loops |
| `PglzFormat` | the output macros of `pg_lzcompress.c` and what an item list means |
| `PglzRoundTrip` | the decoder run on any bytes and on what the macros wrote |
| `PglzCompress` | `pglz_compress`: history table, match search, main loop, over several calls |
| `HeapPage` | the item count of a page and the tests on a line pointer |
| `TupleLayout` | `user_code`'s walk over the columns of a tuple, and how the server stores one |
| `SqlLiteral` | `sql_varlena` and, external, the lexer that reads what it writes |
| `RowText` | the two together: `user_code` on a tuple, from its bytes to what the session reads (EXTENDS `TupleLayout` and `SqlLiteral`) |
| `ToastDumper` | `toast_dumper_user.cpp` |
| `ToastMap` | `PageIterator` and `fill_toast_map` over a file, with reads that fail |
| `ToastFetch` | `fetch_data` over the map and the decoder (EXTENDS `ToastMap`, INSTANCEs `PglzDecompress`) |
| `ToastStore` | abstract: a lookup of texts in a file that may be damaged |
| `TableDump` | `main` and `user_code`: pages, items, rows, script |
| `SqlLoad` | external: psql reading the script |
| `AtomicDump` | abstract: all rows arrive in one step, or none |
| `PglzFormatProofs` | lemmas about what the macros write and where a reader stands in it |
| `PglzDecompressProofs` (and the round trip), `PglzCompressProofs`, `ToastMapProofs` (map and fetch), `RowTextProofs` (walk, literals and rows), `TableDumpProofs`, `ToastDumperProofs` | theorems |
| `Induction` | induction over an interval, for what recursive functions compute |
| `MC*` | constants for TLC |

Definitions carry the names of the code where it has one.  Those whose comment
says "Mutant" are seeded bugs: each is the definition after it, changed, and no
specification refers to it; every checked property is refuted by one of them.

### The decompressor

`in` is the call: the bytes the buffer really holds after the header, `srcend`
(what the header *claims*) and `rawsize`.  Keeping the two lengths apart is
essential, because `fetch_data` passes a header that overstates the stream.
`sp`, `dp`, `ctrl`, `ctrlc`, `len`, `off` are the C variables; `pc` says which
loop the code is in.  `BeginCopy` is the tag that fits, `TagOverrun` the one that
does not, `CopyByte` one turn of the copying loop, `GiveUp` the local
`giveup_assertion`.  A read past the buffer is any byte (`ByteAt`).  The output is
memory: nothing in a C assignment keeps it inside the buffer, so `Written` outside
it enlarges the domain of `dest`, which `TypeOK` then finds (and `Held` is what
a read of memory gets).  Only the sizes are abstracted: half a byte has `Nibble` values and a control byte
`CtrlBits` flags, 16 and 8 in the code; the tag layout and the escape at the
largest short length scale along.

### The compressor

`hist` is one record of the four variables of the history: `start` is
`hist_start`, `entries` is `hist_entries`, links are slot numbers.  `Begin` clears
`start` only, as the `memset` does, so the entries of the call before are still
there; `calls` is the list of calls made one after the other.  `Delink`, `Link` and
`Advance` are the three parts of the macro `pglz_hist_add`.  Each turn of the search is a
`Visit`; `AddMatched` is one turn of the loop over the matched characters.  The
hash of four characters is the constant `Mix`, any function.  `items` is a history variable: what
the tags and literals written so far stand for.

### Tuples

A tuple is its bytes and a description (`form`, `size`, `ends`) of what the
server put there.  The actions look at the bytes only; `Stored` ties the
description to them by the rules of `tupmacs.h` and `postgres.h`.  Every type
with a four-byte header is taken to have alignment `int`, the one of text and of
the `point` column's type.  `mem` goes on to the end of the page, because that is
where the walk goes when it has lost its way; behind the page is `"offpage"`.
The actions of the first half are the statements of lines 79-141, those of the
second half the building of the texts and the assertion of line 180.

`SqlLiteral` writes one character of the text per step and lets `Feed`, the
lexer, read what was written, so that the state is always what the session would have.

`RowText` puts them together.  A column of text is a call: `BuildBytes` takes the
bytes from the tuple (`TextsOf`: none for a null, the word COMPRESSED for a value
compressed in place, whatever a fetch may bring for one out of line), the steps of
`SqlLiteral` write them, `TextWritten` goes on to the next column.  `row` is
what the session reads for the columns so far.  A step of `RowText` is a step of
the walk, or of a literal, or of both.

### TOAST

The scan begins with the constructor of `PageIterator` (`Misfit`, `Open`).  `held` says up
to which page the buffer is the file's: `ReadPage` fills it, `ReadFails` leaves `file.left` there
and sets `good` to FALSE for good, because no code looks at the stream.  `left` is any
page: the proofs ask nothing of it, and the run makes it of a prefix of the page read
over the page before (`Torn`, see below).

A chunk tuple is a record of what `fill_toast_map` looks at.  `Location` computes
in unsigned arithmetic as the code does (`Word` is `% 2^32`); `WithChunk` is
`resize` and assignment, and its `Hole` is the pair (0,0) of a chunk not seen.
`scan = "undefined"` is where the code indexes outside a page or a vector.

A call of `fetch_data` is a walk through `phase`: `"size"` (the loop that sums),
`"read"` (the loop that seeks and reads), `"inflate"` (the decoder's own steps).
`good` is the stream's state and outlives the call.  `FileByte` reads the file
the map describes, so that a wrong location yields wrong bytes.  The loop that
moves the data four bytes down ("Toss varlen") reads up to three bytes past the
vector in its last turns; these land in bytes that are cut off, so `Toss`
is the plain suffix.  The header the buffer is given carries the raw size where
the comment at `page_dumper.h:85` wants the compressed size (`HeaderSize`); that
does no harm to valid streams, which is what `NoOverreadOfValidStream` says.

`ToastStore` says what the dump may rely on.  A file without damage is loaded.
After that every question is answered, and as long as nothing was lost only an id the
file has is looked up; an intact value by its own text (or, if
the text may be taken for the give-up mark, by a refusal); only asking for a
value that is not intact, or a page that could not be read, may take `trusted` away, and
with it every promise.  Its safety part is `ImplementsLookup`; `LookupEnds` is the part that says
that the file gets loaded and no question stays open, or the program ends.

### The dump

`TableDump` walks pages and items.  What turning a tuple's columns into text
does is part of the tuple (`values`: ok, throws, aborts, undefined; `fits`: the columns end
where the tuple ends; `key`: the two asserted attributes are there); which of
them happens for which bytes is the business of `ToastFetch` and `TupleLayout`.  The script is a sequence of tokens.  `Abort` loses an
arbitrary part of the buffered output; `std::endl` has flushed `BEGIN;`.  `written`
is a history variable.

A read of a page may break off after any number of bytes (`ReadFails`), and no code
looks at the stream: the loop goes on with what the buffer holds, and every later read
does nothing (`ReadRefused`).  `Torn` (in `HeapPage`) says what that is, byte by byte
where it matters: `pd_lower` is the new one, the old one or the new low byte with the
old high one, a line pointer and its tuple are the new page's if both lie before the
break, the old page's if both lie behind it, and one of `Mixed`, any tuples at all,
where the two sides meet.  `broke` remembers the page.

`SqlLoad` reads a script as psql does: a statement runs at its semicolon, an
error fails the transaction, `COMMIT` of a failed one rolls back.

## 3. Runs

| Run | Question | Answer |
|---|---|---|
| `pglz_decompress` | Every byte string of up to 5 bytes, header honest or one byte too long, output 0..6: can the decoder loop, write outside, change a byte put out, leave part of a run that does not fit? Lists of up to 4 items (literals, runs of length 3, longest short, longest extended; offsets 1..3), header up to 3 bytes too long: are they decoded? | No; it over-reads two bytes at most. Exactly, and without reading past the stream |
| `toast_fetch` | All 120 orders of five chunks of three values (plain, compressed, compressed and made of marks) over two pages with dead and redirected pointers; up to two of four chunks lost, mislabelled, renumbered, mis-sized or corrupt; pages with a ruined `pd_lower`; any of three pages unreadable or broken off at any byte, over the page before; a file missing or cut; the last chunk ends with the file; fetches in any sequence | Implements `ToastStore`; map exact, and true of the file while the stream is good; each read brings its own chunk's bytes into their place; a lost chunk costs its own bytes only |
| `table_dump` | Three pages of up to 2, 1 and 2 items of every harmless kind; pages with each odd item; ruined pages; calls that end before the first page; reads breaking off at any byte of any page; abort with any buffered part lost | One transaction, full batches, file order, implements `AtomicDump`; after the page that broke off no new row |
| `table_row` | Tuples of six columns with every form of value in each, complete and short, padded and followed by the page's end or the next tuple, frozen or not; ruined ones; every text of up to five bytes of quote, backslash, the caller's separator and a letter that means something after a backslash | Complete and well aligned: read in place. Otherwise: printed only if read in place, with one exception. The session reads what was stored |
| `toast_dumper` | Every kind of argument (none, text, negative, zero, an id, one too large) on files of two chunks, sound or odd | Lists what was asked for, of every argument; shows each chunk's first bytes, no more than fit |
| `pglz_compress` | Every text of 11 characters over a history of 8, alone or before a call on any text of four, with strategies that differ in each field | History is the window of the call; output stands for the source and fits; every call ends |

The one exception of `table_row`: a column the tuple lacks is looked for behind the
tuple, and if no padding follows, that is where the `t_xmin` of the next tuple lies.
If that one is frozen its `t_xmin` is 2, the length word of a compressed value of no
bytes.  The walk does not move, the assertion holds, and the row is printed with
the word COMPRESSED where the column is null.

Together `pglz_compress` (`WritesItsSource`: the output is `Encode` of a well-formed item
list that expands to the source) and `RoundTrip` (the decoder turns `Encode` of such
a list into its expansion) give the round trip through the real compressor.  Both are proved
for every size (section 4).

Six runs end in a counterexample; each checks something the repository says of
itself:

| Run | Claim | What happens |
|---|---|---|
| `pglz_incomplete` | "Check we decompressed the right amount." (`pg_lzcompress.c:740`) | Returns with part of the output missing: after `TagOverrun` the position is past the end, and a stream that ends early has no input left; neither is looked at. The missing bytes are zero, those of the run that was not copied included (`ZeroTail`) |
| `toast_refused` | Compressed TOAST is dealt with (`README.md:17`) | A text that begins with `cc` is taken for the decoder's give-up mark |
| `toast_falsified` | the same | One chunk with a size past the end of the file sets `failbit`; from then on every value is zero bytes, without an error |
| `table_zero_page` | "we must return zero to ensure sane behavior" (`bufpage.h:304`) | `pd_lower = 0` wraps to a count of about a billion that passes the assertion; the loop leaves the page |
| `tuple_walk` | `assert( pos == itemdata.data_size )` (`table_sample_user.cpp:180`) | `get_varlena` does not skip pad bytes: a four-byte header after an odd length is misread. A sound row stored before `ADD COLUMN` has fewer attributes than the walk expects. Either stops the dump |
| `table_null_point` | The INSERT names one column per value | A null point is printed `NULLNULL`; the error rolls the dump back |

The passing properties are stated next to these so that they say what does hold:
`IntactValueFetched` is conditional on a good stream and excepts the marks,
`OnlyDamageFailsStream` says that intact files never cause the bad stream,
`ScriptLoadsItsRows` says exactly when the table stays empty;
`LeftoversInOrder` is about chunks that are lost, not about sizes that lie;
`ColumnsReadInPlace` excepts misaligned long values and rows with fewer
attributes, and `PrintedRowIsStored` says that, but for the frozen neighbour, these
cost the dump or its row, never its truth: the assertion of line 180 is the only
check left.

Two smaller disagreements, met while modelling and given no run: the header with the raw size (above);
and a `match_size_drop` of 100, which does not stop after the first entry as
`pg_lzcompress.h:75` says, because the test follows the next comparison
(`pg_lzcompress.c:454-458`; the order of `Visit`).

### Bounds, and why they are enough

- `Nibble = 2, CtrlBits = 2`: a byte has 4 values, and the first byte of a tag has
  one bit of length and one of offset.  All branches depend on comparisons of
  positions and on the escape at `Nibble - 1`; five bytes hold two control bytes
  with a full first group, or one with an extended tag and a literal, so the next
  control byte, the escape, overlap, overrun and truncation inside a tag all occur.  The proofs
  cover 16 and 8.  The TOAST runs use 4 and 4, so that `rawsize` and the marks
  fit in bytes.
- `MaxRaw = 6` is one less than the longest run (7), so runs that fit, fit
  exactly and do not fit occur.  `Slack` is 3 there: room to see a write one to
  three bytes too far (the code has 1024).
- `pglz_compress`: `Nibble = 2` makes a history of 8 entries and a longest match of 7, so
  a text of 11 recycles entries, meets the longest match, and reaches an offset
  of 7, the first that no longer fits; three lists for two characters make keys
  collide.  A second call over every text of four finds the table full of entries
  of the first.
- `table_row`: bytes of four bits (`ByteBits = 4`), so that six columns need two bitmap bytes
  and a four-byte length overflows the word; forms with lengths of every residue
  that changes the padding.  As in the code a long value misread through its pad
  bytes is longer than a page (12 * 16 bytes against 70 here, 130 * 256 against
  8192 there).  Five characters hold a quote after a backslash after a
  quote, at either end.  The proofs cover eight bits.
- `toast_dumper`: `MaxUnsigned = 15`, an id of 15, and arguments up to 17 on both sides of
  zero, so a number too large asks for an id that exists.  Two odd tuples end before
  their data begins, so `data_size` wraps: once with the page ending behind them, once with
  bytes to show.
- `MaxInt` has the code's value: texts here are short, and the branch of `ResultMax` for a
  text longer than `MaxInt \div 100` is covered by the proof only.
- Five chunks, two values having two each: enough for a later number to
  come before an earlier one on the same or on another page.  Two damaged places
  of four: damage to one value, to both, and twice to one.
- `Batch = 2` with up to five rows: an empty, a part, a full batch, a full
  batch at the end, and a third statement; skipped rows before, at and after each
  break.  Batch is a parameter of the proofs.
- Pages of 34 or 112 bytes and `WordMod` 256 or 512 stand for 8192 and 2^32: the
  count wraps, the sums wrap, and a page holds all the items used.  The tuples of
  `table_dump` lie one behind the other (from byte 16, six each), so a break falls
  before, into and between line pointers and tuples.  `Mixed` holds one tuple with an id of its
  own and a dead one; in `toast_fetch` a chunk of a known and one of an unknown value.

### Fairness

`WF(Step)` (decoder, compressor, dump), `WF(Scan)` and `WF(FetchStep)`: one thread executes each function
until it returns; nothing else can stop it.  Whether another value is asked for
is not fair: the caller may have no more rows.  Deadlock is checked everywhere:
terminal states loop through an explicit action (`Terminated`, `Ended`), so a
state without a successor would be a branch of the code the model forgot.

## 4. Proofs

All proofs are for every value of the constants, under the named assumptions of
the modules: `ConstantsAssumption` and `PglzAssumption` (at least two values per half byte, one item
per control byte, two bytes of slack, the mark is a byte), `ControlAssumption` (a control byte
has as many bits as it holds flags, 8 in the code: where the writer's bit
wraps and starts a new control byte, the reader's counter does too), `ListsAssumption` (the
lists are well formed: runs as the compressor takes them), `InputsAssumption`, `CompressAssumption`,
`ColumnsAssumption`, `TuplesAssumption`, `PlacesAssumption` (a page is small against a word, a tuple's data
ends with the page, the point is the last column), `LongAssumption` (a misaligned value with a
four-byte header is long: the server gives shorter ones a header of one byte, `VARATT_CAN_MAKE_SHORT`
in `postgres.h`, and compression shrinks a tuple to `TOAST_TUPLE_TARGET`, a quarter of a page), `CharsAssumption`, `MixedAssumption` (the mixtures are tuples), `PageAssumption`, `FilesAssumption`, `BytesAssumption` (a
chunk's data are bytes), `PointersAssumption` (a pointer whose sizes say that the value is
compressed has room for the header: the server compresses nothing shorter than 32
bytes), `PagesAssumption` (an unsigned counts a file's bytes, a table being split into segments of
1 GB; line pointers lie on their page; a page is bytes, so tuples that overlap show
the same ones), `StoreAssumption` (the sizes of a pointer are those of the text and of what was
stored; that is the text, or its size in four bytes and what the compressor made of it:
`WritesItsSource`), `BatchAssumption`, `CallsAssumption`, `RowAssumption`,
`DumperAssumption`.  They hold of the code's own numbers.

`PglzDecompressProofs`.  `TypeOK` says that `dest` keeps its domain, that is, no write
falls outside it, but that is not inductive: `CopyByte` must know that its target is inside.  The strengthening
`Inv` adds

- `RunFits`: while copying, `dp + len <= rawsize`, established by the test of
  `BeginCopy`, preserved because each byte moves one from `len` to `dp`;
- `CopyUnderControl`: the count of items is below `CtrlBits` while copying, so
  the increment after it stays in range;
- `PositionFits`: inside the inner loop `dp <= rawsize`; only `TagOverrun` goes
  beyond and it leaves the loop;
- `SlackZero`, `ZeroTail`, `OverreadBounded`.  `ZeroTail` counts from `OutputEnd`, the end of
  what was copied: `TagOverrun` has moved `dp` on by the run it abandoned.

From `Inv`: `TypeCorrect`, `Overread`, `TailIsZero`, and with one more induction
each `SlackIsSafe` and `OutputIsFinal`.  `SlackUntouched` makes the run's answer
to the comment at `page_dumper.h:117` unconditional: the extra kilobyte is never
needed, except its first two bytes for the marks when `rawsize` is below two.

`StreamsRoundTrip` and `StreamsAreNotOverread` are about a stream that the macros wrote for
a list of items, with a header that claims any length from its own upwards.  Their
invariant `RTInv` ties the decoder's position to the writer's: there is a number `k` of
items done, the output is the text of the first `k` items (`TextOf`; in
`copy`, part of the next one's), and `sp`, `ctrlc` and `ctrl` are where a reader of
the stream stands after `k` items.  The last part is what `PglzFormatProofs` is for.  `OutputOf(l, k)` is
the writer's state after `k` items.  Between two control bytes the reader `Rests`
where that state's bytes end.  Under one, `Reads` says which flag comes
next and that `ctrl` holds the flags still to come (`Continues`): not those the writer has so
far, for the control byte is stored only when it is full or the stream ends.
`ControlIsRead`, `ItemIsRead` and `FlagsAreUsed` are the three steps of a reader,
`BitsAreUnique` makes its flags the writer's, and `RunRepeats` gives the bytes of a
run that overlaps itself one by one, as `CopyByte` makes them.  The interesting case is the end.  If the
last control byte has flags left and the header claims more bytes, the decoder goes on
(`NothingIsLeft`): those flags are 0, the next item is a literal, and as the output is full
`LiteralOverrun` returns before a byte is read.  So nothing past the stream is looked at,
and the overstated header does no harm.  TLC found `RTInv` true in every state of the
run `pglz_decompress` before it was proved.

`ToastMapProofs`.  `NothingMadeUp` and `NothingLost` are `EntriesAreChunks` and
`ChunksAreEntered` for every file, whatever its order and damage, as long as the
scan lasts (a scan that aborts or leaves a page stops, and what it entered until
then is right).  Both are inductive over `MapTypeOK`, which says that each entry
of the map is a sequence of places.  `WithChunkProperties` says what `resize` and
the assignment do to a vector; `NextItemScanned` and `NextPageScanned` say how the
set of scanned tuples grows; `QuietSteps` covers all steps but `AddChunk`.  A
tuple scanned before `AddChunk` either keeps its entry (`EntryKept`) or the new
tuple is a later one with the same id and number.  `FetchMapIsExact` carries both
over to `FetchSpec`, because every step of a fetch is a stutter of the scan.

`UsableMapTrue` is about failing reads: while `good` holds, the page shown is the page of
the file with that number, so what was scanned is what is stored
(`ShownIsStored`).  `ChunksArrive` carries it to the fetches: a read that succeeds comes from a
stream that is good, hence from a map that is true (`ReadDelivers`), so where it reads a
chunk with the id and the number begins, and `PieceBytes` says which bytes lie there.
`ReadInBuffer` keeps the read inside its place, whatever the sizes in the map: that
is the work of the assertion at `page_dumper.h:95`.  What the theorem does not say, for it is not so:
a chunk whose header overstates its size brings along what follows it in the file,
another value's bytes perhaps; no code compares the sum with `va_extsize`.

`FetchTypeCorrect` brings the decoder's theorems into the fetch: `FetchTyped` adds to the
types that the decoder's invariant `Inv` holds while it runs.  `CallIsInput` shows that
every call is one `PglzDecompressProofs` is about, because the buffer is made of bytes of
the file (`FileBytes`: a read stops at its end) and a pointer to a compressed value
has room for the header; `StepsAreInflation` that the steps are the decoder's.
`DamageStaysLocal` is `OnlyDamageFailsStream`: a stream that is good and fails did so under
`ReadChunk`, at an entry that is no hole (a hole is empty, and reading nothing cannot
fail), hence at a chunk of the value asked for; if that value is intact the chunk
lies on its page, and `ChunkIsInFile` shows that the read ends inside the file, even
though its position was computed modulo the word.

`IntactIsFetched` is the whole way from a value's chunks to its text.  It goes in four stages.

- *The map is complete* (`ScanComplete`): a scan that ended without a failed read has
  been through every page and every line pointer, and the last entry of a vector
  is a chunk's, not a hole.
- *The chunks are the value's* (`IntactEntries`): as many chunks as numbers means that no
  two claim the same (`PiecesFacts`, by counting), so each entry of the vector is the place of the one piece
  with its number.  `Gathered`, the bytes of the first pieces, grows with each
  (`GatheredGrows`), and a read of such a place brings the piece's bytes (`PieceBytes`: the position was
  computed modulo the word and is split into page and offset again).
- *The calls do it step by step* (`FetchedRight`): while an intact value is served from a good stream,
  the sum is that of the pieces passed, the buffer holds the bytes of those read,
  the decoder runs on the stored stream, and `answer`, once given, is right.  In particular
  none of the ends `ChunkTooLong`, `NoRawSize` and `InflateAborts` is reached.
- *The decoder decodes* (`Decoding`): `CallDecodes` shows that the buffer makes a call on a stream that the macros
  wrote for the stored items, under a header that overstates its length by what
  was saved.  From there `RTInv` is carried along by the decoder's steps, and
  `StreamEndsInText` says what it ends with.

`LookupIsImplemented` is the safety half of `ToastStore`.  A sound file gives the scan nothing to
stop at (`TripsOverDamage`); a request opens a question (`KnownIsKept`), or is refused when nothing was promised
(`IntactIsKnown`: a value that is intact is in the map); every end of a fetch is an `Answer`, or a
`Crash` or `LoseTrust` that only a damaged value makes.  All but the last rests on `FetchedRight`.

`PglzCompressProofs`.  `HistoryIsWindow` needs the place in the source and the length of a
match to be inside it (`CompressInv`), so that no character past the end is
entered.  The heart is `Added`: entering one character moves the window by one.
`Delinked` says what taking out an entry does to the lists *if nothing follows
it*, and `OldestIsLast` that nothing does: the slot used again holds the oldest
character, and a list leads to older ones only.  Without this fact the macro's
`__myhe->next->prev` would matter; with it, it is never executed.  `Linked` puts
the entry in front.  `Begin` makes the window empty, whatever the entries hold.

`OutputStaysInBuffer` rests on `BufferInv`: while the search goes on the output is below
the size wanted, because the loop tests it before each item, and an item appends four
bytes at most (`ItemIsShort`: a control byte and a tag of three).

`CompressionIsLossless` rests on `WritesInv`.  Between two items the items written expand
to the text up to `dp + left`, and `o` is what the macros made of them; during a search
the best match so far repeats the text at `dp` over its length.  `VisitFinds` gets this
from `HistoryIsTheWindow`: the entry visited holds the place it claims to hold
(`PositionBefore`), so the characters compared are those a decoder would copy.
`SourceRepeats` says where a run that overlaps itself takes its bytes from, and `RunExtends` that
such a run continues the text.  `OneMoreItem` is what `Expand` and `Emitted` do with an
item more.

`RowTextProofs`, the walk.  `ReadAsStored` is inductive once the program counter is tied to
the number of columns found (`WalkTypeOK`); each action of the walk is compared with one
attribute (`AttributeStored`): `PadRange` shows that `word_padding` is the
server's padding, and unsigned sums do not wrap because the tuple fits its page.
`LayoutTypeCorrect` is `WalkTypeOK` for any bytes.

`RowTextProofs`, the texts.  `LiteralIsText` is inductive as it stands, given the type of the text: each step
feeds the lexer one or two characters and brings it back to `"in"`.
`RowImplementsParts` maps each step of a row to a step of the walk and of
the literals, or to a stutter, so `ReadAsStored` and `TextSurvivesQuoting` carry over.
`StoredIsReadBack` is `RowReadsBack`: `RowInv` ties each column written to the text taken for it (`ColumnWritten`),
`HeaderDecoded` the type of a header to the form stored, and `BytesAreStored` the
bytes taken to the bytes stored, whatever their number.

`RowTextProofs`, what is printed.  `PrintedIsStored` is about the tuples that `ReadAsStored`
leaves out: those with fewer attributes than columns, and those with a long value behind pad
bytes.  The code does not notice where it goes wrong, so the invariant
(`TrackInv`) cannot say that it stops: it says that a walk that has left its track
will not be printed.  Either every place found so far is the server's
(`OnTrack`), or the walk is `Derailed`: beyond the end of the tuple, from where no step
leads back; or it found a text of no bytes, whose length wraps when the texts are
built; or it stopped short of the end, which line 180 asserts.  A misread
header derails it (`LongMisread`: a length word read one to three bytes early has the size's low byte shifted
up, hence is zero or longer than the tuple, by `LongAssumption`).  Past the last
attribute the walk reads what follows the tuple; to stay on its track it must not move, and
`RoomlessValue` shows the one thing that takes no room and is not empty: a compressed
header of length zero, which is the `t_xmin` of a frozen neighbour.  TLC found `TrackInv` true in every state of the run `table_row` before
it was proved.  From `PrintedIsStored`, `StoredIsReadBack` holds of every stored tuple.

`TableDumpProofs`.  `DumpTypeOK` needs `OnFilePage` (the page read exists: the
count comes from the file's size modulo the word) and that a torn page is made of
tuples (`TornTyped`).  `StaleReadsRepeat` needs to know that, once the page that broke
off has been dumped, whatever the buffer holds has been printed already: `BeforeCounter`
(every row of the buffer before the item counter is written) and `WholeBuffer`
(once the page is finished, all of them).  A row printed from a stale buffer then
repeats one of them.  The count of a page of zeros needs care: it wraps, and the
proof shows that such a buffer contributes no row.

`ScriptInv` says what the session has made of the script while the dump goes on: a
transaction is open, the rows of finished statements are inserted, those of the
unfinished one are pending, nothing is committed (`OpenScript`); once a row
without a value is among them the transaction has failed and can only roll back.
`StatementBegins` and `StatementGoesOn` are the two separators.  `EveryRowLoads` is this invariant
with the last semicolon and the `COMMIT`; `InterruptionIsSafe` adds that no prefix of a
script without `COMMIT` loads anything (`UnfinishedPrefix`); `DumpIsAtomic` maps each step to
one of `AtomicDump` by both.  `DumpFollowsTheFile` rests on `OrderInv`: while reads succeed
the rows written are those of the pages finished and of the items passed, and `PageRowsGrow` makes that a prefix of the file's rows.
`StatementsAreFull` rests on `FullInv`: every `INSERT` but the last is followed by `Batch`
rows, the last by at most that many, as the counter says.

`ToastDumperProofs`.  `DumperInv` ties the lines printed to the tuples passed: the filter as
`operator>>` left it lets through what was asked for (`FilterIsAsked`: text that is no number
leaves 0, a negative number its remainder, one too large the largest unsigned), and
`HexInTuple` shows that the bytes `hexadecimate_all` prints end where the tuple does, or at the
limit, and what is left of that when the difference of the lengths wraps.

### Induction over data

`Load`, `Expand`, `Emitted`, `FileRows`, `ChunksAskedFor` and `Gathered` are recursive functions over `0 .. n`.  The
provers cannot use an induction rule with an operator as its parameter, so
`Induction` states it with a set: a set that holds 0 and the successor of each of its
numbers below n holds `0 .. n`.  For each such function the same four
lemmas follow: that a function with that recursion exists (`...Exist`), that the
operator is its last value (`...IsLast`), that two of them agree (`...Agree`), and what
one element more adds (`OneMore...`); everything after that cites only the last.

### Only model-checked

`LeftoversInOrder`, what is left of a value when chunks of it are lost.  Termination and the other liveness properties (`ENABLED` and fairness are outside the
prover): `Termination`, `CompressTerminates`, `DumpEnds`, `LookupEnds`, which is the liveness half of
`ToastStore`, and `DecodesToEnd`, that a round trip ends.  Every other invariant and every action property
that a passing run checks is a theorem, and so is the safety half of each refinement.

## 5. Not modelled

- *What the bytes of a half-read tuple say*: it is one of `Mixed`.  Whether a tuple's
  text can be made (`values`) is a constant of the tuple, the same each time it is met; in
  the code a value of a page dumped a second time may have become zero bytes when the TOAST
  stream failed between the two.  A tuple that lies before the break but misleads the walk
  behind its own end has that outcome from the start.
- *Read errors of the medium at fetch time*: a read of a fetch fails only at the end of the
  file, and delivers what there is up to it.
- *The outcome of the map in the dump*: `TableDump` takes what happens in
  `toast_table_init` as an outcome of that call; `ToastMap` says when it ends how.
- *Memory* is sufficient; `std::bad_alloc` is an exception like the ones
  `SkipRow` stands for.
- *A row with `point` in a build with PostGIS*: that branch names a header that is
  not in the repository.
- *Visibility*: neither program reads `xmin`, `xmax` or a commit log, so a dead
  row version that is still `LP_NORMAL` is a row like any other, here as there.
- *Inline compressed values* are printed as the word `COMPRESSED`, as the
  repository's README says; the word is the constant `Placeholder`.
- *The vendored headers* are nine tenths of the repository's lines: catalog tables,
  parse, plan and executor nodes, function declarations of a whole PostgreSQL
  server whose code is not here.  They have no behaviour to model.  The macros and structs
  that say how a tuple is laid out, and the compressor's strategies, are in
  `TupleLayout` and `PglzCompress`.
- *Debug printing* (`print_integer`, `print_varlena`, `print_geometric`) is formatting
  nothing calls.  *The build file* has no behaviour.

## 6. Plan

Done in this order: decoder, format and round trip; heap page and TOAST map;
fetch with the decoder inside and the lookup it implements; dump, loading session
and atomicity; failing reads while the map is filled; the tuple layout against the
server's; literals; `toast_dumper`; the compressor; lookup in damaged files; the row from the
tuple to the session.  Each with the proofs of section 4.

Nothing of the program's own code that keeps state is left out, and every safety property
checked but `LeftoversInOrder` is proved.  Liveness stays with TLC.

## 7. Running

    tlc -workers 2 -config MCTableDump.cfg MCTableDump
    tlapm TableDumpProofs.tla

Each run's module and configuration are listed in `PROJECT.json`; the six
passing runs take between three seconds and a minute each.
