------------------------------ MODULE DdsSlice ------------------------------
(***************************************************************************)
(* Sliced binaries of libdds: a cube of traces is spread over files, the   *)
(* slices.  The master binary knows which slice the transfer is in         *)
(* (slice_now) and what is left of its run there (slice_toc); every slice  *)
(* has a file position of its own.  A seek moves one slice only and marks  *)
(* all others (DDS_BIN_DESEEK): each of them is moved when the transfer    *)
(* comes to it, to where the slice before it has stopped.                  *)
(*                                                                         *)
(* Abstractions: the cube has three axes counted by i/o; a unit stands for *)
(* a byte of a trace, and offsets of seeks are in units; traces are not    *)
(* edited, and what is moved within a run is moved in one step; an         *)
(* application transfers either traces or elements of one type, and writes *)
(* within the cube only; the files of the slices are regular, and calls on *)
(* them do not fail; files that are created have no line headers.          *)
(***************************************************************************)
EXTENDS Integers, Sequences, FiniteSets

CONSTANTS
  Cubes,       \* cubes, and how they are used
  MaxCount,    \* largest count in one call
  Offsets,     \* offsets given to dds_lseek
  Limit        \* bound on the positions sought

Axes == 1 .. 3
Highest == 3
Hole == 0

Positive == Nat \ {0}

(* axis.size and the axes with DDS_AXIS_SLICE; the stroke of a trace; how  *)
(* long the line headers in the files of the slices are; whether the files *)
(* are created by this open; whether traces are transferred, and the       *)
(* stroke of the type that is; whether the application may seek from the   *)
(* position to before the start; whether it may seek before every slice    *)
(* that is created has been written to; and a bound on its calls of        *)
(* dds_write, which it may exceed until all slices have been.              *)
ASSUME CubesAssumption ==
  /\ Cubes \subseteq
       [size : [Axes -> Positive], sliced : SUBSET Axes, stroke : Positive,
        bias : Nat, fresh : BOOLEAN, traces : BOOLEAN, width : Positive,
        back : BOOLEAN, early : BOOLEAN, writes : Nat]
  /\ \A c \in Cubes : c.fresh => c.bias = 0

ASSUME BoundsAssumption ==
  /\ MaxCount \in Nat
  /\ Offsets \subseteq Int
  /\ Limit \in Nat

VARIABLES
  cube,       \* what dds_open made of the dictionary
  file,       \* file[s]: units in slice s, after its prefix
  pos,        \* pos[s]: position of the stream of slice s (ggetpos)
  trace_bias, \* trace_bias[s]: where the traces of slice s are taken to begin
  eof,        \* slices with DDS_BIN_EOF: created, and not begun to be written
  deseek,     \* slices with DDS_BIN_DESEEK
  slice_now,  \* slice of the transfer
  slice_toc,  \* units left of the run in it
  LineTrc,    \* number of the next trace
  call,       \* the call in progress: its operation, and the elements left
  writes,     \* calls of dds_write so far; each writes a value of its own
  got,        \* units returned by this step
  reply       \* the seek made by this step

sliceVars ==
  <<cube, file, pos, trace_bias, eof, deseek, slice_now, slice_toc, LineTrc,
    call, writes, got, reply>>

-----------------------------------------------------------------------------
(* The cube: ddsCubeLinker, ddsCubeScanBin, ddsOpenSlice                   *)

(* Product of the sizes of some axes.                                      *)
Factor(S, r) == IF r \in S THEN cube.size[r] ELSE 1
Extent(S) == Factor(S, 1) * Factor(S, 2) * Factor(S, 3)

Sliced == cube.sliced
Whole == Axes \ Sliced

Stripe(r) == Extent(1 .. r - 1)

Stride(r) ==
  IF r \in Sliced THEN Extent(Sliced \cap 1 .. r - 1)
  ELSE cube.stroke * Extent(Whole \cap 1 .. r - 1)

slice_max == Extent(Sliced)
Slices == 0 .. slice_max - 1

(* Units in one slice before the next one is turned to.                    *)
slice_tic ==
  cube.stroke * Extent({r \in Axes \ {Highest} : 1 .. r \subseteq Whole})

Total == cube.stroke * Extent(Axes)

(* Every slice may have a prefix of its own length, its line headers.      *)
Prefix(s) == cube.bias * (s + 1)

Bias(s) == trace_bias[s]

(* Mutant of Begun: a write does not clear DDS_BIN_EOF.                    *)
BegunAgain(s, place) ==
  IF cube.fresh THEN [trace_bias EXCEPT ![s] = place] ELSE trace_bias

(* The first cdds_write of a slice that is created, be it of no traces,    *)
(* takes the place where the stream stands for the start of the traces.    *)
Begun(s, place) ==
  IF s \in eof THEN [trace_bias EXCEPT ![s] = place] ELSE trace_bias

-----------------------------------------------------------------------------
(* Turning to the next slice                                               *)

(* The run is exhausted, and there is no other: the highest axis is sliced.*)
AtEnd == slice_toc = 0 /\ slice_now = slice_max - 1 /\ Highest \in Sliced

TurnedNow ==
  IF slice_toc > 0 THEN slice_now
  ELSE IF slice_now = slice_max - 1 THEN 0 ELSE slice_now + 1

TurnedToc == IF slice_toc > 0 THEN slice_toc ELSE slice_tic

Former(s) == IF s = 0 THEN slice_max - 1 ELSE s - 1

(* Mutant of Offset: the run of the last slice is taken off for slice 0.   *)
OffsetWrapped(s) ==
  IF s \in deseek
  THEN pos[Former(s)] - Bias(Former(s)) - slice_tic
  ELSE pos[s] - Bias(s)

(* Offset in slice s once it has been positioned: a delayed seek puts it   *)
(* beside the slice before, which has finished its run.                    *)
Offset(s) ==
  IF s \in deseek
  THEN pos[Former(s)] - Bias(Former(s)) - (IF s = 0 THEN 0 ELSE slice_tic)
  ELSE pos[s] - Bias(s)

(* The place in the file this is, whatever the stream takes for its start. *)
At(s) == Bias(s) + Offset(s) - Prefix(s)

(* Slice s is positioned, and n units are passed.                          *)
Pass(s, n) ==
  /\ pos' = [pos EXCEPT ![s] = Bias(s) + Offset(s) + n]
  /\ deseek' = deseek \ {s}

-----------------------------------------------------------------------------
(* Where the units of a cube belong.  The traces with the same ordinals on *)
(* the sliced axes make one file, in their order; the files are in the     *)
(* order of their first traces.                                            *)

Ordinals(c, t) ==
  <<t % c.size[1], (t \div c.size[1]) % c.size[2],
    t \div (c.size[1] * c.size[2])>>

HomeOf(c) ==
  LET Traces == 0 .. Limit \div c.stroke
      File == [t \in Traces |-> {u \in Traces : \A r \in c.sliced :
                                   Ordinals(c, u)[r] = Ordinals(c, t)[r]}]
      Earlier(t) == {u \in Traces : \A v \in File[u] : u <= v
                                    /\ \A w \in File[t] : u < w}
      Before(t) == {u \in File[t] : u < t}
  IN  [p \in 0 .. Limit |->
         LET t == p \div c.stroke
         IN  [slice |-> Cardinality(Earlier(t)),
              offset |-> Cardinality(Before(t)) * c.stroke + (p % c.stroke)]]

Home == [c \in Cubes |-> HomeOf(c)]

(* The place that is transferred next.                                     *)
Place ==
  LET home == [slice |-> TurnedNow,
               offset |-> IF TurnedNow < slice_max THEN At(TurnedNow)
                          ELSE slice_tic - slice_toc]
      places == {p \in 0 .. Limit : Home[cube][p] = home}
  IN  IF AtEnd THEN Total
      ELSE IF places = {} THEN -1 ELSE CHOOSE p \in places : TRUE

(* What there is of the cube.                                              *)
Content ==
  [p \in {q \in 0 .. Total - 1 :
            Home[cube][q].offset < Len(file[Home[cube][q].slice])} |->
     file[Home[cube][p].slice][Home[cube][p].offset + 1]]

(* dds_open: files that hold their part of the cube, or new ones.          *)
SliceInit ==
  /\ cube \in Cubes
  /\ file = [s \in Slices |->
               [i \in 1 .. (IF cube.fresh THEN 0 ELSE Total \div slice_max) |->
                  Total * s + i]]
  /\ pos = [s \in Slices |-> Prefix(s)]
  /\ trace_bias = pos
  /\ eof = IF cube.fresh THEN Slices ELSE {}
  /\ deseek = {}
  /\ slice_now = 0
  /\ slice_toc = slice_tic
  /\ LineTrc = 1
  /\ call = [op |-> "none", left |-> 0]
  /\ writes = 0
  /\ got = <<>>
  /\ reply = [whence |-> "none", offset |-> 0, result |-> 0]

-----------------------------------------------------------------------------
(* Transfers                                                               *)

Idle == [op |-> "none", left |-> 0]
NoAnswer == [whence |-> "none", offset |-> 0, result |-> 0]

Silent == got' = <<>> /\ reply' = NoAnswer

Return == call' = Idle

(* Traces: the run must hold whole ones.  Others: only if it is too short. *)
Misaligned(toc) ==
  /\ toc % cube.width # 0
  /\ cube.traces \/ call.left * cube.width > toc

(* Elements wanted of the current run.                                     *)
Want(toc) ==
  IF call.left * cube.width > toc THEN toc \div cube.width ELSE call.left

Smaller(m, n) == IF m < n THEN m ELSE n

(* Mutant of Available: the last element of a file is never read.          *)
AvailableShort(s) ==
  IF At(s) >= Len(file[s]) THEN 0
  ELSE (Len(file[s]) - At(s) - 1) \div cube.width

(* Elements there are in slice s at its position.                          *)
Available(s) ==
  IF At(s) > Len(file[s]) THEN 0
  ELSE (Len(file[s]) - At(s)) \div cube.width

(* The cube counts traces, ddsCubeInc; other types pass it by.             *)
Count(n) == LineTrc' = IF cube.traces THEN LineTrc + n ELSE LineTrc

(* Mutant of Moved: elements are taken off the run, not units.             *)
MovedElements(s, n) ==
  /\ Pass(s, n * cube.width)
  /\ slice_now' = s
  /\ slice_toc' = TurnedToc - n
  /\ Count(n)
  /\ call' = [call EXCEPT !.left = @ - n]

(* A transfer of n elements moves the slice and uses up the run.           *)
Moved(s, n) ==
  /\ Pass(s, n * cube.width)
  /\ slice_now' = s
  /\ slice_toc' = TurnedToc - n * cube.width
  /\ Count(n)
  /\ call' = [call EXCEPT !.left = @ - n]

(* dds_read and dds_write of a sliced binary.                              *)
CallRead ==
  /\ call = Idle
  /\ ~ cube.fresh
  /\ \E n \in 1 .. MaxCount : call' = [op |-> "read", left |-> n]
  /\ Silent
  /\ UNCHANGED <<cube, file, pos, trace_bias, eof, deseek, slice_now, slice_toc,
                 LineTrc, writes>>

ReadChunk ==
  /\ call.op = "read" /\ call.left > 0
  /\ ~ AtEnd /\ ~ Misaligned(TurnedToc)
  /\ TurnedNow < slice_max
  /\ Offset(TurnedNow) >= 0
  /\ \E s \in {TurnedNow} :
       \E n \in {Smaller(Want(TurnedToc), Available(s))} :
         /\ n > 0
         /\ Moved(s, n)
         /\ got' = SubSeq(file[s], At(s) + 1, At(s) + n * cube.width)
  /\ reply' = NoAnswer
  /\ UNCHANGED <<cube, file, trace_bias, eof, writes>>

(* The read ends: with its count, at the end of the slices, on a run that  *)
(* does not hold whole elements, or beyond the last slice.                 *)
ReadReturns ==
  /\ call.op = "read"
  /\ \/ /\ call.left = 0 \/ AtEnd
        /\ UNCHANGED <<slice_now, slice_toc>>
     \/ /\ call.left > 0 /\ ~ AtEnd
        /\ Misaligned(TurnedToc) \/ TurnedNow >= slice_max
        /\ slice_now' = TurnedNow
        /\ slice_toc' = TurnedToc
  /\ Return
  /\ Silent
  /\ UNCHANGED <<cube, file, pos, trace_bias, eof, deseek, LineTrc, writes>>

(* The read ends because nothing is left in the file of the slice.         *)
ReadStops ==
  /\ call.op = "read" /\ call.left > 0
  /\ ~ AtEnd /\ ~ Misaligned(TurnedToc)
  /\ TurnedNow < slice_max
  /\ Offset(TurnedNow) >= 0
  /\ Available(TurnedNow) = 0
  /\ Pass(TurnedNow, 0)
  /\ slice_now' = TurnedNow
  /\ slice_toc' = TurnedToc
  /\ Return
  /\ Silent
  /\ UNCHANGED <<cube, file, trace_bias, eof, LineTrc, writes>>

(* Units at an offset of a file, which grows as needed.                    *)
Put(units, at, n, value) ==
  [i \in 1 .. (IF at + n > Len(units) THEN at + n ELSE Len(units)) |->
     IF i \in at + 1 .. at + n THEN value
     ELSE IF i <= Len(units) THEN units[i] ELSE Hole]

(* The slice a write goes to; beyond the last one, it starts again.        *)
WriteSlice == IF TurnedNow < slice_max THEN TurnedNow ELSE 0

(* ddsWriteSliceT does not stop at the end of the slices.                  *)
WriteAtEnd == AtEnd /\ ~ cube.traces

CallWrite ==
  /\ call = Idle
  /\ writes < cube.writes \/ eof # {}
  /\ TurnedNow < slice_max
  /\ \E n \in 1 .. MaxCount :
       /\ Place + n * cube.width <= Total
       /\ call' = [op |-> "write", left |-> n]
  /\ writes' = writes + 1
  /\ Silent
  /\ UNCHANGED <<cube, file, pos, trace_bias, eof, deseek, slice_now, slice_toc,
                 LineTrc>>

WriteChunk ==
  /\ call.op = "write" /\ call.left > 0
  /\ ~ WriteAtEnd /\ ~ Misaligned(TurnedToc)
  /\ Offset(WriteSlice) >= 0
  /\ LET s == WriteSlice
         n == Want(TurnedToc)
     IN  /\ file' = [file EXCEPT ![s] =
                       Put(@, At(s), n * cube.width, - writes)]
         /\ trace_bias' = Begun(s, Bias(s) + Offset(s))
         /\ eof' = eof \ {s}
         /\ Moved(s, n)
  /\ Silent
  /\ UNCHANGED <<cube, writes>>

WriteReturns ==
  /\ call.op = "write"
  /\ \/ /\ call.left = 0 \/ WriteAtEnd
        /\ UNCHANGED <<slice_now, slice_toc>>
     \/ /\ call.left > 0 /\ ~ WriteAtEnd
        /\ Misaligned(TurnedToc)
        /\ slice_now' = TurnedNow
        /\ slice_toc' = TurnedToc
  /\ Return
  /\ Silent
  /\ UNCHANGED <<cube, file, pos, trace_bias, eof, deseek, LineTrc, writes>>

-----------------------------------------------------------------------------
(* ddsSeekSlice                                                            *)

(* Ordinals of a place, given its trace number.                            *)
Ordinal(trc, r) ==
  LET n == trc \div Stripe(r) IN IF r = Highest THEN n ELSE n % cube.size[r]

Sum(term(_), S) ==
  (IF 1 \in S THEN term(1) ELSE 0) + (IF 2 \in S THEN term(2) ELSE 0)
    + (IF 3 \in S THEN term(3) ELSE 0)

(* Slice of a place, and the offset in it.                                 *)
SliceOf(p) ==
  LET Step(r) == Ordinal(p \div cube.stroke, r) * Stride(r)
  IN  Sum(Step, Sliced)

OffsetOf(p) ==
  LET Step(r) == Ordinal(p \div cube.stroke, r) * Stride(r)
  IN  Sum(Step, Whole) + (p % cube.stroke)

(* The place at an offset in a slice: the sliced axes have their ordinals  *)
(* from the number of the slice, the others from the trace in it.          *)
PlaceOf(s, offset) ==
  LET digit(n, S, r) == n \div Extent(S \cap 1 .. r - 1)
      Step(r) ==
        Stripe(r) *
          (IF r \in Sliced THEN digit(s, Sliced, r) % cube.size[r]
           ELSE IF r = Highest THEN digit(offset \div cube.stroke, Whole, r)
           ELSE digit(offset \div cube.stroke, Whole, r) % cube.size[r])
  IN  Sum(Step, Axes) * cube.stroke + (offset % cube.stroke)

(* cdds_lseek8 of a slice: its line headers come first, with a write of no *)
(* traces if the slice is created, where the stream stands.                *)
Sought(s, at) ==
  /\ trace_bias' = Begun(s, pos[s])
  /\ eof' = eof \ {s}
  /\ pos' = IF s \in Slices
            THEN [pos EXCEPT ![s] = Begun(s, pos[s])[s] + at]
            ELSE pos

(* Mutant of MoveTo: the offset in the slice is taken for that in the run. *)
MoveToUnwrapped(p) ==
  LET sub == OffsetOf(p)
      last == SliceOf(p) = slice_max /\ sub = 0
      s == IF last THEN slice_max - 1 ELSE SliceOf(p)
      at == IF last THEN slice_tic ELSE sub
  IN  /\ LineTrc' = p \div cube.stroke + 1
      /\ slice_now' = s
      /\ slice_toc' = IF last THEN 0 ELSE slice_tic - sub
      /\ Sought(s, at)
      /\ deseek' = Slices \ {s}

(* Mutant of MoveTo: the current slice is to be moved later, too.          *)
MoveToDelayed(p) ==
  LET sub == OffsetOf(p)
      last == SliceOf(p) = slice_max /\ sub = 0
      s == IF last THEN slice_max - 1 ELSE SliceOf(p)
      at == IF last THEN slice_tic ELSE sub
  IN  /\ LineTrc' = p \div cube.stroke + 1
      /\ slice_now' = s
      /\ slice_toc' = IF last THEN 0 ELSE slice_tic - (sub % slice_tic)
      /\ Sought(s, at)
      /\ deseek' = Slices

(* The transfer is put to a place; only its own slice is moved now.        *)
MoveTo(p) ==
  LET sub == OffsetOf(p)
      last == SliceOf(p) = slice_max /\ sub = 0
      s == IF last THEN slice_max - 1 ELSE SliceOf(p)
      at == IF last THEN slice_tic ELSE sub
  IN  /\ LineTrc' = p \div cube.stroke + 1
      /\ slice_now' = s
      /\ slice_toc' = IF last THEN 0 ELSE slice_tic - (sub % slice_tic)
      /\ Sought(s, at)
      /\ deseek' = Slices \ {s}

Answer(whence, offset, result) ==
  reply' = [whence |-> whence, offset |-> offset, result |-> result]

Reach(whence, offset, p) ==
  \/ p \in 0 .. Limit /\ MoveTo(p) /\ Answer(whence, offset, p)
  \/ /\ p < 0
     /\ Answer(whence, offset, -1)
     /\ UNCHANGED <<pos, trace_bias, eof, deseek, slice_now, slice_toc, LineTrc>>

(* The application seeks between its calls, in files that are begun.       *)
MaySeek == call = Idle /\ (cube.early \/ eof = {})

SeekSet ==
  /\ MaySeek
  /\ \E offset \in Offsets : Reach("set", offset, offset)
  /\ got' = <<>>
  /\ UNCHANGED <<cube, file, call, writes>>

(* What fstat tells of the file of the last slice: what is in the buffer   *)
(* of its stream may not be counted.                                       *)
SizesOnDisk ==
  LET s == slice_max - 1
      all == Prefix(s) + Len(file[s])
  IN  {size - Bias(s) : size \in IF cube.fresh THEN 0 .. all ELSE {all}}

SeekEnd ==
  /\ MaySeek
  /\ \E offset \in Offsets, size \in SizesOnDisk :
       Reach("end", offset, offset + slice_max * size)
  /\ got' = <<>>
  /\ UNCHANGED <<cube, file, call, writes>>

(* A seek that fails after the number of the slice has been divided down   *)
(* to the ordinals of the sliced axes.                                     *)
Lost ==
  /\ slice_now' = 0
  /\ slice_toc' = TurnedToc
  /\ UNCHANGED <<pos, trace_bias, eof, deseek, LineTrc>>

(* The position is worked out from that of the slice to be transferred     *)
(* next, which is turned to first.                                         *)
SeekCur ==
  /\ MaySeek
  /\ \E offset \in Offsets :
       \/ /\ AtEnd
          /\ \E size \in SizesOnDisk :
               Reach("cur", offset, offset + slice_max * size)
       \/ /\ ~ AtEnd /\ TurnedNow < slice_max
          /\ \E p \in {offset + PlaceOf(TurnedNow, Offset(TurnedNow))} :
               \/ p \in 0 .. Limit /\ MoveTo(p) /\ Answer("cur", offset, p)
               \/ p < 0 /\ cube.back /\ Lost /\ Answer("cur", offset, -1)
       \/ /\ ~ AtEnd /\ TurnedNow >= slice_max
          /\ Answer("cur", offset, -1)
          /\ UNCHANGED <<pos, trace_bias, eof, deseek, slice_now, slice_toc,
                         LineTrc>>
  /\ got' = <<>>
  /\ UNCHANGED <<cube, file, call, writes>>

SliceNext ==
  \/ CallRead \/ ReadChunk \/ ReadReturns \/ ReadStops
  \/ CallWrite \/ WriteChunk \/ WriteReturns
  \/ SeekSet \/ SeekEnd \/ SeekCur

SliceSpec == SliceInit /\ [][SliceNext]_sliceVars

-----------------------------------------------------------------------------
(* Properties                                                              *)

SliceTypeOK ==
  /\ cube \in Cubes
  /\ file \in [Slices -> Seq(Int)]
  /\ pos \in [Slices -> Nat]
  /\ trace_bias \in [Slices -> Nat]
  /\ eof \subseteq Slices
  /\ deseek \subseteq Slices
  /\ slice_now \in Nat
  /\ slice_toc \in 0 .. slice_tic
  /\ LineTrc \in Nat
  /\ call \in [op : {"none", "read", "write"}, left : Nat]
  /\ writes \in Nat

(* A binary over several files is to the application one row of units with *)
(* one position: what is read was written at that place last, or was there *)
(* from the start, and seeks tell the position they set.                   *)
Solid == INSTANCE DdsSolid WITH
  total <- Total, complete <- ~ cube.fresh, content <- Content, place <- Place
ImplementsSolid == Solid!SolidSpec

(* The slice the transfer comes to can be positioned: the slice before it  *)
(* has passed its run (assert(tmp_offset >= 0) in ddsSeekSlice, and the    *)
(* "deseek" errors of the transfers).                                      *)
PositionKnown ==
  ~ AtEnd /\ TurnedNow < slice_max => Offset(TurnedNow) >= 0

(* slice_toc is what remains of the run of the current slice.              *)
RunRemains ==
  slice_now \in Slices \ deseek =>
    (Offset(slice_now) + slice_toc) % slice_tic = 0

(* LineTrc is the number of the trace at the position, whatever way the    *)
(* transfer has come there.                                                *)
LineTrcOnPlace == cube.traces => LineTrc = Place \div cube.stroke + 1

(* A call ends early only where the data end, or where an element would be *)
(* broken by the end of a run.                                             *)
EndsAtEnd ==
  [][call # Idle /\ call' = Idle /\ call.left > 0 =>
       \/ call.op = "read" /\ Place \notin DOMAIN Content
       \/ Misaligned(TurnedToc)]_sliceVars

=============================================================================
