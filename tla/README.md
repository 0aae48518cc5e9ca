# A TLA+ verification project for FreeDDS: gio streams, dds cubes and tables

FreeDDS reads and writes seismic data sets.  Its state machine is in two
libraries: **gio** (`src/src/lib/gio`), a stdio-like stream library with cached
file descriptors and self-tuning buffers, and **dds3** (`src/src/lib/dds3`),
which lays data sets ("bins") over gio streams.  Every byte dds3 moves goes
through gio, whose hazards are orders of calls on several streams that no test
program tries, and whose promise, "a stream whose descriptor is closed behind
your back behaves like any other", can be stated exactly.  Of dds3 three parts are
modelled that have a promise of the same kind: the **editing of traces**, "an
application sees a regular cube, whatever traces there are", **slices**, "a
cube that is spread over several files is one row of traces to its user", and
**hash tables**, "the items of a name are a stack, however they are hashed".

Conventions: definitions have the names of the C functions they translate;
`PROJECT.json` maps each of them to its lines.  Operators called `...Late`,
`...Unlinked`, `...Stuck` and so on, each introduced as "Mutant of X", are
plausible bugs of X; no specification uses them, they show that the properties
can fail.

## 1. Inventory

### gio

| part | state | operations | modelled in |
|---|---|---|---|
| cached descriptors: `gopen.c`, `gclose.c`, `gdopen.c`, `gfileno.c`, `gopenmax.c`, `GIO_cfd_check` | `gio.open_chain`, `num_fd_open`, `open_max`, `access_age`; per stream `cfd` and `fd` | `gopen`, `gdopen`, `gclose`, `gfileno`, `gopenmax`; inside, `GIO_open`, `GIO_tmp_close_one`, `GIO_close` | `GioCfd` |
| chain of streams, `greopen.c` | `open_chain`, `GFILE.chain` | `GIO_chain`, `gclose2`, `greopen`, `gflush(NULL)` | `GioChain` |
| buffered streams: `greadc*`, `gwritec*`, `gunread`, `gflush*`, `gsetpos`, `ggetpos`, `gseek` | `start`, `buf`, `count_r`, `count_w`, `count_u`, `offset`, `state` | one per call | `GioBuffer`, `GioStreams`, `StreamStore` |
| set-up and tuning: `gsetvbuf*`, `gtune_*` | `cache_*`, `min_*`, `max_*`, `big_*`, `mod_*`, `delta`, `waste` | `gsetvbuf`, `GIO_tune_read`, `GIO_tune_write` | `GioTune` |
| pointer calls and single characters: `greada`, `greadb*`, `gwritea`, `gwriteb*`, `ggetc`, `gputc` | the same buffers | hand out pointers into the buffer | `GioBuffer`, `GioStreams`, `GioTune` |
| non-buffered streams `*_non.c` | `buf_u`, `count_u`; the bytes of one `gwriteb` | transfers without a buffer | `GioBuffer`, `GioStreams` |
| mapped and raw streams `*_map.c`, `*_raw.c` | `base_m` | for SGI and Sun only | no |
| predefined streams, `init.c`, `gsdopen.c`, accessors, debug | `gio` | | no |

A program is one thread; the interleaving is that of calls on different streams.
What makes it hard:

- the open of one stream closes the descriptor of another: that one is flushed,
  its position saved, and at its next call it is opened again, which may in
  turn close a third;
- a call may fail half way, after the victim has been closed;
- reads, writes, seeks and unreads share one buffer in two directions, and the
  kernel's offset must follow each turn of it;
- the buffers change their size as they are used.

What makes it correct: a descriptor belongs to one stream and is not lost; the
limit holds; a temporarily closed stream has nothing left in its buffers and
comes back where it was; an error of a flush nobody waits for is still reported;
the offset the library computes is the kernel's; the tuner stays in its limits.

### dds3

| part | state | hard behaviour | correct when | modelled in |
|---|---|---|---|---|
| cubes and trace editing (`edittrace.c`, `cubeinc.c`, `cubelinker.c`, `readgent.c`, `writegent.c`) | per axis `ordinal` and flags, `LineTrc`, `DDS_BIN_PADDING` | dead traces inserted, traces rejected or forced, axes recycled until the next plane, padding at the end, calls that stop half way | a trace is delivered at the place its indices name | `DdsEdit` |
| slices (`readslice*.c`, `writeslice*.c`, `seekslice.c`, `seekset.c`) | `slice_now`, `slice_toc`, `DDS_BIN_DESEEK`, a position per file | one file is moved by a seek, the others later | many files cannot be told from one | `DdsSlice`, `DdsSolid` |
| opening and media (`c_open.c`, `openbin.c`, `media*.c`, `readcheck.c`, `writecheck.c`, `opennext.c`) | tables of bins, maps and media | tags used again, delayed opening, EOF and EOM | a tag names one open bin; data go on where the medium before ended | planned |
| dictionaries and aliases (`c_dict.c`, `dict*.c`, `alias*.c`) | stacks of definitions | scans while definitions are pushed | the latest definition wins | planned |
| tables (`tableinit.c`, `tablepushitem.c`, `tablelookup.c`, `tablerehash.c`, `tableunhash.c`; reuse in `dictnew.c`) | chains of items, their order of age, `load`, `count`, `unique` | a lookup hashes everything again; deleted items are used again | a lookup finds the latest item of a name | `DdsTable`, `DdsDirectory` |
| stacks, pages (`stack*.c`, `tablepush.c`) | blocks of storage that grow | pointers into a block that moves | it is a stack | no |
| format compiler, trace formats, tape, printing, interfaces | symbol trees, headers | data conversion, not order | | no, see section 7 |

`fft`, `fftw` (vendored), `host` (build rules and types) and `scripts` keep no
state of interest.

## 2. Modules

`GioCfd` stands alone.  `GioBuffer` has no variables: it is the transfer
functions as operators on one stream and the kernel's view of one file.
`GioStreams` EXTENDS both: each of its actions is an action of `GioCfd`
together with what the call does to buffers and files.  `StreamStore` is the
abstract specification, without buffers or descriptors, that `GioStreams`
implements.  `GioChain` EXTENDS `GioCfd` and refines its set `open_chain` to
links.  `GioTune` is separate: it keeps byte counts instead of bytes, and shows
which cache sizes can occur; `GioBuffer` takes any of a set of them at each use.
`DdsEdit` and `DdsSlice` stand alone, over files that behave as
`StreamStore` says; they are not composed with gio, nor with each other: the code
edits traces above the slices, and slices that are positioned and counted
correctly are to editing one file.  `DdsSolid` is the abstract specification that
`DdsSlice` implements.  `DdsTable` stands alone too, and `DdsDirectory` is what it
implements.

### GioCfd: cached descriptors

| code | model |
|---|---|
| `fp->fd`, `cfd.really_open`, `cfd.tmp_close_ok` | the functions `fd`, `really_open`, `tmp_close_ok`; `fd` keeps its old value when the descriptor is closed, as in the code |
| `cfd.last_access_count = gio.access_age++` | ranks: only the order of the serial numbers matters; `Touch` |
| the kernel's table | `fdfile`; `open` takes the lowest free descriptor and fails with EMFILE when there is none |
| `GIO_tmp_close_one` | `Oldest`, `Victims`: the stream closed on the way, or `NoStream` |
| `GIO_open` | `GIO_open_ok`, `GIO_open_failed`: with the limit, the retry after EMFILE that lowers `open_max`, and the failure of the seek after the open |
| `GIO_cfd_check` | `CheckReal`, `CheckReopen`, `CheckFailed`; `gfileno` differs in not being an access when it does nothing |
| `gclose` | `GcloseReal`; `GcloseTmp`, which returns before the stream is unlinked |
| `gdopen` | `Gdopen`, which does not count the descriptor it adopts, and is no access (`Untouched`) |

A call that opens a descriptor is one action with its victim as parameter: in
the code, too, nothing can come between the two.  History variables: `gdopens`
and `open_max_high`.

### GioChain: the list

`head` and `chain[s]` are the pointers.  `GIO_chain` links at the head,
`Unlinked` is the search and the two cases of `gclose2`, `Node` the nodes a loop
over the list visits.  `greopen` is two actions, `GreopenClose` and
`GreopenOk`/`GreopenFailed`; while `reopening` is set nothing else runs.  The
loop of `gflush(NULL)` is one step per node, so that "it returns" is a
liveness property.

### GioBuffer and GioStreams: the transfers

A stream is the record described at the head of `GioBuffer`; a transfer
function is the set of its outcomes `[b, k, ok, ret]`: several, because a read
may fail, a write be short and the tuner have left several cache sizes.
`Greadc`, `Gwritec`, `Gunread`, `Gsetpos` and `Gflush` follow the `_buf`
functions line by line: the turn between reading and writing, the rounding of
requests to blocks, big requests that bypass the cache, the fast path of
`gwritec` that trusts `count_w`, seeks inside the read cache.

`Greadb` and `Gwriteb` are the functions that return pointers.  They cannot
bypass the cache or take a part of a request: `ReadBehind` moves what is left to
the front and reads behind it, `MakeRoom` writes whole blocks and moves the
rest.  A pointer stands for the bytes it leads to at its return; those that
a caller of `gwriteb` is to store are an argument, stored before its next call.
`ggetc` and `gputc` are the same for one byte (`Gputc` has its own test of
`count_w`).

A stream is non-buffered (`buffered` is FALSE) after `gsetvbuf` with `_IONBF`, as dds3
asks for it in `openblock.c`.  Its functions differ where they transfer (`ReadPlain`,
`WritePlain`, `GwritebNon`); turns, flushes and seeks come to the same
with nothing read ahead, and share their operators.

In `GioStreams`, `Checked(s, v, Op, ...)` is a call that begins with
`GIO_cfd_check`: v is flushed and closed (`Evictions`, `KeepPosition`), s opened
again at its `last_open_pos` (`Reopened`), and then the function applied.
`gseek(SEEK_END)` works out the position before the check, from `fp->fd` as it is,
and `ggetc` and `gputc` have no check: `ByDescriptor` applies the function to
the file of whichever stream has the descriptor.  The constant `Unchecked` says
for which of the three an application may do this to a stream that is temporarily
closed: for none in the runs that pass.

### StreamStore: what an application may assume

A stream is a position, a file a sequence of bytes.  The mapping is in
`GioStreams`: `LogicalFile` is the kernel's file under the bytes still to be
written, `LogicalPos` is `ggetpos`, or `last_open_pos` for a stream that is
temporarily closed.  `pushed` is what `gunread` has pushed back: it is read first,
`ggetpos` counts it as unread, and writes, seeks and flushes forget it.  `plain` are
the streams that are not buffered, of which a read returns pushed back bytes alone and
forgets the rest, as the comment in `greadc_non.c:20` says.  Of such a stream, with
bytes pushed back, `SetPos` promises nothing after `SEEK_CUR` (`Astray`): `gseek` adds the
difference of pointers into two buffers, which in `GioStreams` is any
position of `Positions` or one before the start of the file (`SeekCurTargets`).

### GioTune: set-up and tuning

`Setup` is `gsetvbuf` with copy semantics; `Grown` and `Shrunk` are the two
halves of the tuners; the transfers are `GioBuffer`'s in byte counts
(`Lengthened` is `ReadBehind`, `Extended` is `MakeRoom`).

### DdsEdit: cubes and trace editing

A trace is the sort indices in its header and whether it is dead; axis 1 is
`cube.io_rank`, the lowest axis that i/o counts.

| code | model |
|---|---|
| `axis.ordinal`, `DDS_AXIS_CHANGE`, `DDS_AXIS_CYCLE` | `ordinal`, `change`, `cycle` |
| the other flags of an axis, which editing does not change | the record `flags`: a set of axes per flag; `DDS_AXIS_SYNC` is worked out (`Sync`) |
| `ddsCubeInc` | `CubeInc`: the axis that takes the carry is `CarriedTo` |
| `ddsEditTrace` | `Verdict`: `Gross` is the editing by kind and window, `Decider` the axis at which the loop over the axes ends, `Remedy` what its flags say; `Follow` and `Inserted` are what the loops write to the ordinals on their way |
| `goto recycle` | the action `Recycle`, a step of its own so that an endless loop is seen |
| one turn of the loop of `ddsReadGenT` | `ReadTrace`, `ReadDiscard`, `ReadError`; `ReadPad` and `ReadEnd` with `ddsEditFinal` at the end of the file |
| one turn of the loop of `ddsWriteGenT` | `WriteTrace`, `WriteDiscard`, `WriteError`, `WriteFails` |
| `ddsCloseFlush` | `CloseFlush` makes the dummy trace (`Dummy`) that is written to pad the cube and never reaches the file (`DummyReached`) |

A call of `dds_read` or `dds_write` for `left` traces is many steps, and the
application may cut its requests as it likes.  `given` is a history variable.

### DdsSlice and DdsSolid

A unit stands for a byte of a trace.  `pos[s]` is the position of the stream of
slice s, `deseek` the slices with `DDS_BIN_DESEEK`, `slice_now` and `slice_toc`
the fields of the master binary.  `TurnedNow` and `TurnedToc` are the turn to the next slice
that each loop begins with; `Offset(s)` is the position of a slice
once the delayed seek is made good, from the slice before it; `ReadChunk` and
`WriteChunk` are what one turn of the loop moves.  `trace_bias` is what the
code takes for the start of the traces of a slice.  A slice that is created is in `eof`
(`DDS_BIN_EOF`, `opennew.c:161`) until its first write (`c_write.c:146`), which takes the place
where the stream stands (`Begun`), be it the write of no traces with which
`cdds_lseek8` begins (`Sought`); a slice that is moved late is moved by `ddsSeekType`, without
that write.  `MaySeek` is when the application seeks: with `early` at any time, otherwise
once every created slice has been begun.  `At` is the place in the file, whatever
`trace_bias` is; `Prefix` the line headers of a file that exists.  `SeekSet`, `SeekCur` and
`SeekEnd` are `ddsSeekSlice` by its `whence`: `PlaceOf` scales slice and offset to
a place, `SliceOf` and `OffsetOf` scale back, `MoveTo` moves one slice and marks
the others.  `SizesOnDisk` is what `fstat` may tell of a file that is being
written: any size up to the real one.

`DdsSolid` is a row of units with one position.  The mapping does not use the
arithmetic of the code: `Home` says where each trace belongs by gathering the
traces with the same ordinals on the sliced axes, and `Place` looks up what the
streams point at.

### DdsTable and DdsDirectory

| code | model |
|---|---|
| how `ddsTableInit` was called | `table`, one of `Settings`: `alpha` and `1 + 1 / beta` as fractions |
| `DDS_ITEM.older`, `newer` | the number of an item: items are numbered by age |
| `table->chain[b]`, `item->chain` | the sequence `chain[b]` |
| `DDS_DICT_ACTIVE` | `active`; the only items that are ever deleted are dictionaries (`recycle`) |
| `ddsTablePushItem` | `PushItem`, with `Linked`, which the other place that links items, `ddsDictNew`, shares: `Recycle` |
| `ddsTableUnhash` | `Unhash`, with the deletion in `ddsDictDelete` |
| `ddsTableLookup` | `Look`, or `RehashStart`, one `RehashItem` for each item and `RehashDone` |

One lookup that hashes the table again is many steps, so that the invariants are
looked at in each turn of its loop; nothing else happens meanwhile (`Idle`).
`larger` tabulates the sizes that follow one another, and an assumption, which
TLC evaluates, says that they are what `ddsPrimeUp` makes of them.  `born` and
`links` are history variables, for `LatestFound`.

`DdsDirectory` is a stack of items for each name.  The mapping `Stack` is the items of the
name on their chain followed by those that still wait.

Three tables are not modelled by this: the symbols of the compiler are looked up
by block and name (`symlookup.c`, which hashes again in the same way);
definitions are linked in the same way, but walked by `ddsDefnFind` itself
(`defnfind.c:46`), which stops at the first definition that is too old and so relies
on chains in the order of age.  A rehash keeps that order for items of one name
only; it never comes to these tables because nobody looks them up with
`ddsTableLookup`.

## 3. Runs

All of them but those of `DdsEdit` check for deadlock: every other model always
has a next call.  `DdsEdit` stops when the file is closed, and when a read has
delivered `Capacity` traces.

| run | question | bounds | states |
|---|---|---|---|
| `chain` | descriptors neither lent twice nor leaked, counter, limit; nothing closed needlessly; the links are the set of `GioCfd`; `gflush(NULL)` returns | three streams (one a pipe, never closed), two descriptors, limits 0 to 2, one `gdopen`, opens that fail, `greopen` unless temporarily closed | 666 834 |
| `streams_refine` | `GioStreams` implements `StreamStore` | two streams on their own files, one descriptor, `w+`; requests of one and two bytes by copy, of one by pointer | 104 318 |
| `streams_shared` | kernel offset, clean temporary closes, appends stay appends | two streams on one file, `r+` and `a+`, one by `gdopen`; caches of two bytes that are not tuned; bytes, characters, pointers to write | 245 242 |
| `streams_blocks` | what is read ahead is in the file; `count_w` is the vacancy; unread bytes, pointers and characters implement `StreamStore` | one stream, blocks of two bytes, requests of one to four, caches of 0, 2, 4 or no buffering, unread bytes | 119 922 |
| `streams_errors` | a `gclose` that returns 0 has written what was pending | two streams on one file, one descriptor; reads, writes and opens fail; every kind of call with one byte, buffered or not | 64 372 |
| `tune` | sizes in their limits, in blocks; the step; a sequential reader gets the largest cache | blocks of two bytes, requests of 1 and 3, disk and tape, every `gsetvbuf`; by copy and by pointer | 261 210 |
| `edit` | reads and writes keep to the cube; it is padded; every call returns | three axes with two traces each, scenarios of `MCDdsEdit` | 13 889 |
| `slice` | `DdsSlice` implements `DdsSolid` | cubes of up to eight traces over two to four files, one to three units a trace; created files are begun before they are sought | 57 677 |
| `table` | lookups find the latest item; the counters; `DdsTable` implements `DdsDirectory` | three names, four items, four links; two, two and one buckets to begin with | 63 717 |
| `chain_cycle`, `streams_unchecked`, `edit_hang` | violations, section 6 | | |

Why these bounds are enough.  Two streams and one descriptor make every call on
the other stream a temporary close; a third stream adds the choice of the
oldest.  A pipe or a `gdopen` stream is needed as one that must not be closed.
Limits below and above the number of descriptors make both the soft limit and
EMFILE strike.  Files of up to `MaxPos + 2` bytes with blocks of one or two
bytes contain the cases the code tells apart: request smaller than, as large as
and larger than what is cached, a block and `big_r`/`big_w`.  Three byte values
tell old bytes, new bytes and holes apart.  In `edit` three axes of two are the
smallest cube in which an axis has a higher one to be synchronized with while it
has a lower one to be recycled, and a carry may pass over one axis or two.  Its
inputs are the complete cube and all sets of up to `MaxTraces` = 2 of its traces in
order, for the cubes that fill in what is missing; for those that take traces
as they come, pairs of traces that are repeated, out of order, dead, or outside the cube.
Every carry, every number of dead traces and both ends of each
axis occur in them.  In `slice` the sliced axis is the middle, the two lowest or the highest
one; a slice has one run or several; traces have several units so
that a transfer of other elements ends inside a trace or does not fit its run.
In `table` the hashes make two of the three names share a bucket at one size and
part at the next; four items are enough for a name to be bound three times with another
between, for a table of two buckets to be hashed again twice, and for
a dictionary to be deleted and used again among hidden ones.

The bounds, by name: `MaxGdopen` calls of `gdopen`; `OpenMaxArgs` bounds
`open_max`; `Positions` and `MaxPos` where a stream is taken by a seek or a
write and at which position it is opened again; `Sizes`, `Stretches` (by pointer) and `Chunks`,
`Fillings` (by pointer), `Chars` what one call reads and writes; `MinBlocks` the blocks `gwriteb` allocates
at least, 2 for 10, and `MinW` the bytes it writes to make room; `Steps` of relative seeks;
`MaxWaste` how far a seek may move `waste`.  `MaxCount` is the largest request of
one call of `dds_read` or `dds_write`, 2 in both models; `Capacity` the traces an
application reads in all, and the file takes, 20; the `writes` of a cube
the calls of `dds_write`: 1 for files that exist, 3 and 2 for created ones, so that one goes on
after a seek, and as many as it takes to begin all slices; `Limit` the highest position a seek sets, 8, the end of the
largest cube; `Offsets` those of seeks, -4, -1 and 0 to 8.  `MaxItems` = 4 items
and `MaxLinks` = 4 links in `table`; `table.larger` ends the growth of a table at the
third size at the latest.  The view `MCView`
of `MCGioStreams` leaves out `result` and that of `MCDdsSlice` leaves out `got` and `reply`:
no action reads them, and the properties look at them in the step that sets
them.  In the runs with two streams on one file the streams may be exchanged
(`MCSwap`).  `Bufferings` is empty in `streams_refine` and `streams_shared` to keep them
short; `streams_shared` with `{FALSE}` passes as well (702 798 states).

Fairness.  `GioCfd`, `GioStreams`, `GioTune`, `DdsSlice` and `DdsTable` have none: an application need
not call anything.  `SequentialGrows` has its condition in the antecedent: if the
program reads on for ever, the cache reaches its maximum.  `GioChain` assumes
weak fairness of `FlushStep` alone, `DdsEdit` of `EditStep`, the turns of the
loops of a call: the one thread goes on with a loop it has entered.  Neither
assumes that another call is made.

## 4. What the properties say

- `FdOwnership` (no descriptor lent twice, none leaked), `OpenCount`
  (`num_fd_open` against the streams really open), `SoftLimit`, `OpenOnChain`,
  `ClosedForNeed` (no stream closed for another while there really is a
  descriptor to be had): the descriptor cache.
- `LinksMatch`, `FlushAllReturns`: the list.
- `ImplementsStore`: buffers and temporary closes cannot be told from direct
  access, by copy, by pointer or by character, with bytes pushed back or not, while
  each file is kept to one stream and I/O does not fail.
- `KernelOffset`, `TmpClosedClean`, `AppendsOnly`: with streams that share a
  file, where the abstract specification does not apply.
- `ReadAheadCoherent`, `RoomIsVacancy`: the fields of the buffer.
- `CloseTellsPending`: what is in the buffer at a `gclose` that returns 0 is in the file,
  although a flush may have failed inside somebody else's open before.  It is the
  *offset* of the stream at that moment where it is put: a stream opened again after
  such a failure has been moved (section 6), and of that `gclose` says nothing.
- `CacheWithinLimits`, `DeltaWithinSpan`, `WholeBlocks`, `NotTunedKept`,
  `SequentialGrows`: the tuner.
- `InStep`: the k-th trace read or written has the indices of place k, on the axes
  whose order is enforced, measured against a closed form of the cube (`Point`).
  `Filled`: every trace there is comes at its own place, every gap as a dead
  trace.  `AsIs`, `Transparent`: without editing, and for a complete cube,
  nothing is changed.  `TracesCounted`: `LineTrc` is the place on the media.
  `PaddedAtEnd`: the planes are complete at the end.  `CallReturns`: no call loops.
- `ImplementsSolid`: many files are one.  `PositionKnown`: the slice that is turned
  to can be positioned, what the code asserts and reports as a "deseek"
  error.  `RunRemains`, `LineTrcOnPlace`: the counters of the master against the
  positions of the streams.  `EndsAtEnd`: no transfer ends early.

- `LatestFound`: a lookup finds what was bound last, in terms of the history of
  links.  `ImplementsDirectory`: so do all later ones, since hashing again changes no
  stack.  `Counters`: `load`, `unique`, `count` are what their names say in every turn
  of the loops; `Crowded` decides by them.

## 5. What is proved

`GioCfdProofs` proves for any finite number of streams, any files, descriptors
and limits (assumptions: those named in `GioCfd`):

- `CfdTypeCorrect`, `CfdOwnership`, `CfdSoftLimit`, `CfdOpenChain`,
  `CfdOpenCount`, `CfdClosedForNeed`.

The inductive invariant `CfdInv` is the conjunction of the properties, which need
each other: ownership of the descriptor that `GIO_open` takes rests on the
victim's being really open, that on the chain, and the soft limit on
`open_max <= open_max_high`.  `OpenCount` is proved on top of it, and `ClosedForNeed` on that, since `gdopen`
makes the count too low and nothing makes it too high; the counter and
`Cardinality(ReallyOpen)` move together, for which the lemmas cite
`FiniteSetTheorems`.  `GIO_open` is treated once, in lemmas about `GIO_open_ok` and
`GIO_open_failed` (`OpenOkOwnership`, `OpenOkLimit` and so on), which the actions
cite.

`GioStreamsProofs` proves that `GioStreams` implements `GioCfd`
(`StreamsImplementCfd`): every call with its buffers, errors and positions is a
call of the cache or a stutter, so that ownership holds there too
(`StreamsOwnership`).  `GioChainProofs` proves the same of `GioChain` under the
assumption `~ GreopenAny`; its invariant `ReopenInv` says that between its
`gclose` and its `GIO_open` greopen holds a stream that is closed and unlinked.
With the same assumption `ChainLinks` proves `LinksMatch`: linking and unlinking lose no
stream and close no cycle.  Its invariant `Chained` says that there is a sequence of
distinct streams, those on the list, which the links lead along; opening extends it by a
stream at its head, closing takes one out.  That the walk `Node` is such a sequence is
shown by the least place where it would leave it (`NodeWalks`, `WalkAlong`;
`LeastNumber` is that there is a least one, from the theorems on well-founded
relations).

`GioStreamsProofs` also proves, for any files and contents, any sizes of caches,
blocks and requests and any number of streams, buffered or not: `StreamsType`, `StreamsKernelOffset`,
`StreamsClosedClean` and `StreamsRoom`.  They assume `~ IOErrors` (a failed flush
loses bytes on purpose: the runs with errors check what is left),
`Unchecked = {}` and `Pushed = {}` (with either the properties
fail, section 6).  The argument has two parts.  `GioBufferProofs` is about one stream: every
transfer function leaves a stream `Sound` (its buffers in bounds, `count_w` the
vacancy) and `InPlace` (the kernel where `offset` and `mode` say), one lemma per
operator (`GflushFits`, `ReadBehindFits`, `MakeRoomFits` and so on).
`StreamsInv` says this of all streams, and of a temporarily closed one that
nothing is in its buffers and `last_open_pos` is its offset; that the flush of the
victim empties it, that `Reopened` puts the kernel there, and that streams not named
by a call are left alone is one lemma per call.

On top of that `GioStreamsProofs` proves that `GioStreams` implements `StreamStore`
(`StreamsImplementStore`) and that what is read ahead is never out of date
(`StreamsCoherent`), for any number of streams, descriptors, files, contents and
sizes.  The hypothesis `Alone` is the discipline that makes these true at all: every
file is kept to one stream, all calls check the descriptor, I/O does not fail, nothing
is opened to append (an append does not write at the position, which is what
`StreamStore` says of a write), nothing is pushed back (the run
`streams_blocks` checks the store with bytes pushed back, the proof leaves them out).  Run
`streams_refine` is an instance of it, `streams_blocks` one but for that.
The inductive invariant `StoreInv` adds to `StreamsInv` that every stream is
`Coherent` with its file.  `GioBufferProofs` has, for each transfer function, what it
does to `Known` (the bytes of the file as the application knows them) and `Getpos`:
flushes, turns and seeks leave `Known` alone, a write overlays it, a read returns what
it has at the position.  `GioStreamsProofs` lifts this to all streams:
a call may evict another stream, which `EvictionStill` shows to change nothing known, so
that the call `Comes` to one new file and position of its own stream only; and for each action
of `StreamStore` a lemma (`StepOpen`, `StepRead`, `StepWrite` and so on)
says which such outcome is that action.  One lemma per call of gio then names its
action: `GreadSeen`, `GseekEndSeen`, `GcloseSeen`.

Where streams share files, `StreamsAppendOnly` proves `AppendsOnly` for any number
of streams, descriptors, files, modes and sizes, under the assumptions of `StreamsType`:
what is in a file stays there while all streams open on it were opened to
append or to read.  The property speaks of `appends`, how the stream was opened; what a
flush does depends on the flags the descriptor has now.  The invariant `AppendsInv` adds to
`StreamsInv` what links the two: such a stream is `Preserving`, its descriptor has
`O_APPEND`, or it cannot be written and is not turned to writing.  `GioBufferProofs` has that every
function `Spares` the file of such a stream, and leaves it one; a temporary close and the opening
after it keep it (`EvictionSpares`, `ReopenedPreserving`: `GIO_tmp_close` clears
`O_APPEND` in `open_flags`, but `open_mode` has it from `F_GETFL`).  The lemmas per call are the ones of
`StreamsInv` again, for two streams: the one called and the one evicted.

`GioTuneProofs` proves `TuneWithinLimits`, `TuneDeltaBounded`, `TuneWholeBlocks`,
`TuneNotTuned` and `TuneBuffersFit`, for every
block size, environment setting, set of requests and media.  `TuneInv` says that
the limits of `setup` are in order, that both sizes are within them, that
`Mod * |delta|` is at most the wider span, that sizes and limits of a tuned cache are whole blocks, and that `delta` is zero while
`gsetvbuf` may still be called and change the span.  That is enough for a growing step: a step that oversteps the
maximum is halved *below* what is left of the span.  The products of two
unknowns are dealt with in lemmas of their own, hidden from the steps that use
them.  `TuneNotTuned` needs that the limits of a cache that is not tuned are equal
(`Pinned`), `TuneBuffersFit` that `count_w` is what is vacant (`Filling`).

`DdsEditProofs` proves of `DdsEdit`, for cubes of any rank and any sizes and any
traces: `OrdinalsBounded` (the type invariant, and with it that no ordinal
below the highest leaves its axis, although they are set from indices of traces),
`LineTrcOnMedia` (`TracesCounted`) and `NoEditPasses` (`AsIs`: its argument is that with no flag set the verdict
is "accept" for every trace, so that neither `Recycle` nor a dead trace is ever
possible and `made \o input` never changes).

It also proves what the cube is for.  `TracesInStep` (`InStep`) needs no hypothesis:
the ordinals of the axes up to `Regular` are the digits of the number of traces made
(`Counted`, with `Digit` for the number whose bases are the sizes of the axes),
`ddsCubeInc` is the successor of that number (`CubeCounts`, from `CountsOn` below the axis
that is carried to and `CountsStay` above it), and an edit leaves the ordinals of
such axes alone (`EditedKeeps`).  `CompletePasses` (`Transparent`) and `CubeFilledUp`
(`Filled`) assume `Alike`, that all axes start at the same index, as `ddsEditTrace` does
where it scales the index of the next higher axis (section 6).  The invariant of the first,
`Passing`, says that no axis is ever being synchronized while a complete cube
passes; that of the second, `FillingUp`, that the input splits in two: the first `c`
traces have places before the next one, the others have not and are what is left, and
every axis that waits is in a plane before that of the next trace (`Behind`).
`DeadBefore` and `TakenAt` say of the verdict that a dead trace comes only before that
place and the trace itself only at it; `CycleBehind` and `CarryBehind` that the
edit and the count keep waiting axes behind.  `PlanesComplete` (`PaddedAtEnd`, of every
step) is from the digits again: those that `ddsEditFinal` looks at are zero, so that the
number is a multiple of their places (`ZeroBelow`); for a write the invariant `Padded` says
that the dummy of `ddsCloseFlush` is not reached before they are.  `Stride`, `Place` and the axes that give way are
recursive functions; that there are such functions, and what they are, is shown from
the least number that would make it fail (`StridesExist`, `PlacesExist`, `YieldsExist`).
`FillingUp` has been checked by TLC on the scenarios of `edit` as well.

`DdsSliceProofs` proves of `DdsSlice`, for cubes of any sizes, sliced along any
axes, any strokes and any sequence of calls: `SliceInvariant`, `SliceTypes`,
`SlicesPositioned` (`PositionKnown`) and `RunsRemain` (`RunRemains`).  The invariant `SliceInv` is `IInv` with
`Starting`.  `IInv` is `SliceTypeOK` with `Placed`, `Ready` and
`WriteOnSlice`: every slice not waiting for its seek is at a position in its
file, the slice before one that waits has passed a whole run or is the current
one with `slice_toc` of it left, and a write has started on a slice that exists.
`Starting` says that the traces of every slice are taken to begin after its prefix, and that a
slice that is still to be begun stands there and does not wait for a seek.  `RunRemains` speaks of the current
slice only and is not inductive: a slice that is turned to later must have kept its runs, and one
that waits takes them from the slice before it.  `RunInv` says so: every slice in its
place has passed whole runs, but for what is left of the current one (`WholeRun`), and a
current slice that waits comes after one in its place (`Trailing`).  All
theorems about slices assume `NoBack`: no application seeks from the position to before
the start, which breaks both invariants; and `NoEarly`: none seeks before every
slice that is created has been written to, which breaks `Starting` (section 6).

`TracesOnPlace` (`LineTrcOnPlace`), `CallsEndAtEnd` (`EndsAtEnd`) and `ManyFilesAreOne`
(`ImplementsSolid`, the refinement of `DdsSolid`) say what all the counters are *for*, and
the argument has three parts.

- *Where a unit belongs.*  `Home` says it by counting traces, `ddsSeekSlice` by digits and
  strides, and a transfer by runs: run `h` of slice `s` is the one with
  number `slice_max * h + s` of the cube.  `HomeIs` shows that the first two agree
  (`EarlierFiles` and `BeforeInFile` count the sets by bijections, over
  `FiniteSetTheorems`), `AtPlace` and `PlaceParts` the last two, and `PlaceBack` that
  `PlaceOf` inverts `SliceOf` and `OffsetOf`.
- *What stands for the position.*  `Spot(p, h)`: `slice_now`, `slice_toc` and the round `h`
  give the place `p`, and every slice that does not wait for its seek has passed
  `h + 1` runs up to the current slice and `h` behind it.  It is this about *all* slices
  that makes a delayed seek right.  A transfer, a turn and a seek take a `Spot` to a
  `Spot` (`PassSpot`, `TurnSpot`, `MoveSpot`), and it is the `Place` of the model
  (`SpotIsPlace`).
- *What is kept of it.*  `SolidInv` adds to `SliceInv` and `RunInv` that there is such a place,
  `LineTrc` is its trace, a write in progress has room (`PlaceInv`), no file exceeds its part
  of the cube (`Filed`), and beyond the last slice nothing of the cube is left (`Beyond`).

The refinement is proved action by action (`ReadSolid`, `WriteSolid`, `SeekSetSolid`,
`SeekEndSolid`, `SeekCurSolid`; calls and turns are stutters, `StillSolid` and `TurnedSolid`): the
hardest is that a write to one file changes the row of units at the position and nowhere
else (`WriteContent`).  Of the cubes these theorems assume:

- `Adjacent`: some axes are sliced, and they are neighbours; otherwise the code is wrong
  (section 6), and the properties are violated;
- `Fitting`: the cube ends within `Limit`, so that `Place`, which looks for the
  position below that bound, finds it;
- `Tracewise`: where traces are transferred, an element has the stroke of a trace;
- `Created` (refinement only): binaries that are being created do not have their highest
  axis sliced (that they have no prefix is an assumption of the model,
  `CubesAssumption`).  The attempt to do without showed that the
  end which `SEEK_END`, and `SEEK_CUR` at the end, take from the disk may then be
  before the start, or another than the position (section 6).

`Cubes` of the run `slice` satisfy all of them, with binaries that are read, overwritten and
created, with traces of one unit and of several, and with elements that do not fit a run.

`DdsTableProofs` proves of `DdsTable`, for any names and hash function, any thresholds
and growths and any number of items: `TableInvariant`, `TableTyped`, `TableLatestFound`
and `TableCounters`.  The invariant `IInv` is `TableTypeOK` with `Placed` (an item is
in the bucket of its name), `Waiting` (the items of one name wait in one chain),
`Kept` (every live item is on a chain or waits) and `Ordered` (of one name, the later is
before the earlier, and those hashed again are later than those that
wait).  The last is what makes appending in `RehashItem` right, and with `Kept` it
gives `LatestFound`.  The counters are proved on top of it: each step changes one
bucket, and with it the sets they count by one element or none
(`AddedCounts`, `LinkCounts`, `UnhashCounts`, `ItemCounts`).

Only model-checked: `ImplementsDirectory`, whose mapping is a `SelectSeq`, a recursive
definition, and in the other dds models `CallReturns`.
In the gio models, being about errors, `CloseTellsPending`; and the liveness properties, which the prover
cannot do.

## 6. Where code and words disagree

Each of the first three is a run that TLC must find violated.

- `chain_cycle`: `gclose` of a temporarily closed stream leaves it on
  `open_chain`; `greopen` links it again, and the list becomes a cycle.  Closing
  with `gclose` alone is harmless, since the GFILE is never freed.
- `streams_unchecked`: `gseek(SEEK_END)`, `ggetc` and `gputc` of a stream that is
  temporarily closed use its old descriptor number, which is another stream's by
  now.  A character stored by `gputc` and flushed by `ggetc` goes to the other file.
  With `Unchecked` one of the three alone there is a violation, too: `gseek` takes
  the wrong end, `ggetc` reads a byte of the other file, and what `gputc` stores
  is lost by a `gclose` that returns 0, as it takes the stream to be closed already.
- `edit_hang`: when a trace has left the plane an axis is synchronized with,
  `ddsEditTrace` has the synchronized axes up to it start a cycle and looks at the trace
  again, from the lowest axis on; when that one is asynchronous it asks for no dead
  trace, and the same is found for ever (`CallReturns`).

Others, without a run of their own.  In gio:

- bytes pushed back at the start of a file are forgotten at a temporary close,
  and a `last_open_pos` of 0 is not restored;
- after a failed flush `count_w` is 0 with bytes pending, and then negative;
  `gwritec` compares it with a `size_t`;
- what a temporary close could not write is moved when the stream is opened
  again (`gopen.c:162`): it is written at another place, and the `gclose` after that returns 0,
  as it looks at the status of the temporary close (`gclose.c:54`) only when it finds
  the stream closed;
- the position of a non-buffered stream does not count the bytes pushed back
  (`ggetpos.c:37`), unlike that of a buffered one, for which `ggetpos.c:16` quotes the
  standard: a temporary close forgets them, and reading goes on behind them;
- `gseek.c:26` works out `SEEK_CUR` for any stream with bytes pushed back as for a
  buffered one, without the test of `ggetpos.c:13`.  Of a non-buffered stream `buf_u`
  is in `base_u` (`gunread.c:171`) and `start` in `base_p`: their difference means nothing, and the
  stream goes anywhere, or the seek fails.  If `StreamStore` required the position asked
  for, `streams_blocks` would fail after `gunread` and one `SEEK_CUR`;
- `greadb_non.c:79` copies unaligned bytes that were pushed back from `buf` and not
  from `buf_u`, where they are (alignment is not modelled).
- `gio_types.h:379` calls `num_fd_open` the "number of really open CFDs"; one
  `gdopen` makes it one too small (`OpenCount` states what it is).
- `gio_types.h:254` says the kernel's offset is `offset` when writing; with
  `O_APPEND` it is not after a seek (`KernelOffset` excepts such streams).
- `gio_types.h:291` says that tuning is skipped when waste is zero; the tuners
  grow the cache then.
- `gsetvbuf_mode.c:42` chooses the nominal mode by the genus of the media, but
  `gsetvbuf.c:37` calls it before `GIO_setvbuf_stat` (`:50`) finds that out: at the
  open every stream is fully buffered (`Setup`, argument `genus`).
- `greopen` and `gsdopen` clear the flags they have just worked out
  (`greopen.c:34`), and open read-only whatever the mode.
- `init.c:24` says it closes all streams at exit; `gclose(NULL)` does nothing.

In the editing of traces:

- a trace that is repeated or out of order in a dense cube, or a sparse axis
  below a dense one with a record missing, makes dead traces without end
  (`edittrace.c:325`); a trace outside the window of a synchronized axis, or
  `FORCE` on one, recycles without end.  `MCScenarios` gives such inputs to the cubes
  that reject, force or do not edit only;
- the remainder of a negative ordinal is negative (`dds_binary.h:295`), so that
  the ordinals of a trace before the window are, too (`EditTypeOK` allows them);
- an axis that is synchronized with the plane above does not start again when a
  whole plane is missing: `edittrace.c:360` looks at the axis just below alone,
  while `README.cube:177` speaks of all higher axes;
- a sparse axis that is forced or rejected gives way all the same when a dead trace
  is inserted on another axis (`edittrace.c:352`): the loop there looks at SPARSE alone,
  not at FORCE or REJECT.  `InStep` promises nothing of such an axis (`Strict`);
- `edittrace.c:240` scales the index of the higher axis with the base of the
  lower one (`OutOfSync`); right as long as the bases are equal;
- `DDS_BIN_SOUGHT` (`dds_binary.h:409`) is never set, `DDS_BIN_WRITTEN` not taken
  back by a seek (`:418`), and once a read has reached the end every write
  returns 0 until the next seek.

In slices:

- a created slice that is moved by a seek before it has been written to takes the place
  of that seek for the start of its traces: `ddsWriteSliceT` moves it with `ddsSeekType`
  (`writeslicet.c:84`, `writeslice.c:80`), without the write of no traces by which `cdds_lseek8`
  begins a slice (`c_lseek8.c:74`), and then its first write takes `trace_bias` from
  the stream (`c_write.c:198`).  In a new cube of 2 x 2 x 2 sliced on the middle axis, seek
  to trace 3 and write two traces: slice 0 takes offset 2 for its start, `SEEK_CUR` by 0
  tells 1 for 5, and a seek to trace 0 reaches trace 4.  `Cubes <- MCEarly` violates
  `LineTrcOnPlace` and `ImplementsSolid`; the run leaves such seeks out, and the theorems
  assume `NoEarly`;
- a relative seek to before the start fails after `slice_now` has
  been divided down to 0 (`seekslice.c:105`, `:142`); the transfer goes on in slice 0 with what
  was left of the run elsewhere.  `Cubes <- MCBack` violates `RunRemains`; the run `slice`
  leaves such seeks out, and the theorems assume `NoBack`;
- two sliced axes with one between that is not, the example of
  `dds_binary.h:490`: a transfer goes from one slice to the next as if they were
  neighbours, and disagrees with what a seek to the same place finds.  `Cubes` of
  the run have their sliced axes side by side;
- `SEEK_CUR` at the end and `SEEK_END` take the size of the file from `fstat` without a
  flush (`seekslice.c:44`, `:123`): the end of a binary that is being written is told wrong
  (`SizesOnDisk`; `DdsSolid` promises nothing there).  What is in the buffer of the
  last slice is not counted; with a prefix, the size less the prefix may even be
  negative, and where the highest axis is sliced `SEEK_CUR` with offset 0 at the end
  tells, and goes to, another position than that of the transfer;
- `slice_now` is not "always less than slice_max" (`dds_binary.h:504`) after a
  seek beyond the end;
- writing past the end of a cube whose highest axis is sliced starts again in
  slice 0 (`writeslicet.c:49` is commented out); `CallWrite` stays within the
  cube;
- elements that are not traces do not count `LineTrc` or the ordinals;
- a slice that is read or written by itself adds the bias of its delayed seek
  and not what the master has taken off (`c_read.c:68`, `c_write.c:71`);
- `seekset.c:71` reports an error when a flush succeeds.

In dictionaries:

- `ddsDefnFind` and `ddsParTag` overwrite alias lists they have not given back;
- `c_dict.c` looks at the read-only and frozen flags of the first print dictionary alone.

## 7. Not modelled, and why

In gio: mapped and raw streams; media that are not regular files, tapes with their
records among them; signed overflow of `access_age` and
of 64-bit positions (they do not come near); the second buffer that `greadb` and
`gwriteb` copy data to when an alignment is asked for; the time between a `gwriteb`
and the caller's stores, in which a call on another stream may flush what is not
yet there; `gopen_tempfile`; Windows code; debug printing; `malloc` that
fails.  `GFILE`s of closed streams are not freed by the code; the models let a
name be used again once it is off the chain.  The predefined streams are not on
the chain at all.

In the models of dds3: media that are not regular files; several media in a
row (`opennext.c`, `mediachain.c`); slices whose files end early; slices that are created with
line headers; the maps
between the format of the file and that of the program; grids and deltas
of axes; the counting of edits and the warnings.

Of dds3 as a whole: the format compiler and the maps it compiles (programs of any length),
trace formats (data conversion), tape ioctls, printing and scanning, and the
Fortran interfaces.  `fft`, `fftw`, `host` and `scripts`: numerical, vendored
or build-time.

## 8. Plan

1. Done: `GioCfd`, `GioChain`, `GioBuffer`, `GioStreams`, `StreamStore`,
   `GioTune`, `DdsEdit`, `DdsSlice`, `DdsSolid`, `DdsTable`, `DdsDirectory`; proofs for
   `GioCfd`, `GioBuffer`, `GioStreams`, `GioTune`, `DdsEdit`, `DdsSlice` and `DdsTable`, that `GioStreams` and `GioChain` implement `GioCfd`, and that
   `GioStreams` implements `StreamStore`.
2. Next in gio: pipes and tapes; a temporary close between `gwriteb` and the
   stores of its caller; flags and modes of `greopen`.
3. Next in dds3: several media, with their EOF and EOM marks; the table of bin
   tags and `dds_map`; definitions and aliases over `DdsTable`, stacks.
4. Proofs: `StreamsImplementStore` with bytes pushed back; what is left of `StreamsInv`
   when I/O fails.
   Runs stay few: where a new module needs one, a violation above that has been
   understood gives up its place and stays in section 6.
