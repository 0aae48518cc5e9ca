------------------------------ MODULE DdsEdit ------------------------------
(***************************************************************************)
(* Trace editing of libdds: a binary is a hyper-cube of traces, each with  *)
(* one sort index per axis in its header.  ddsEditTrace compares the       *)
(* indices of a trace with the ordinals the cube expects next, and tells   *)
(* the read and the write of generic traces to take the trace, to insert   *)
(* a dead one before it, to discard it, or to end the call.  ddsCubeInc    *)
(* counts the ordinals on.                                                 *)
(*                                                                         *)
(* One binary is opened on one regular file, to be read or to be written   *)
(* from its start; axis 1 is cube.io_rank, the lowest axis counted by i/o. *)
(*                                                                         *)
(* Abstractions: a trace is its sort indices and whether it is dead; an    *)
(* axis has unit steps and no grid; warnings, counts of edits and maps are *)
(* left out; a file holds at most Capacity traces and takes whole ones; an *)
(* application that is told of an error goes on with its next trace, and   *)
(* closes the file when it has written its input or a write has failed.    *)
(***************************************************************************)
EXTENDS Integers, Sequences, FiniteSets

CONSTANTS
  Rank,       \* number of axes counted by i/o
  Size,       \* axis.size
  Base,       \* axis.base
  Scenarios,  \* edit flags, and the traces on the file or to be written
  MaxCount,   \* largest count in one call of dds_read or dds_write
  Capacity    \* bound on the traces delivered, and on those of the file

Axes == 1 .. Rank

ASSUME CubeAssumption ==
  /\ Rank \in Nat \ {0}
  /\ Size \in [Axes -> Nat \ {0}]
  /\ Base \in [Axes -> Int]
  /\ MaxCount \in Nat
  /\ Capacity \in Nat

Traces == [index : [Axes -> Int], live : BOOLEAN]

Sides == {"lower", "window", "upper"}

(* The axes that have each flag; retain is DDS_AXIS_LOWER, WINDOW, UPPER,  *)
(* drop is what drop_live (TRUE) and drop_dead (FALSE) discard.            *)
Flags ==
  [sort : SUBSET Axes, sparse : SUBSET Axes, async : SUBSET Axes,
   error : SUBSET Axes, force : SUBSET Axes, reject : SUBSET Axes,
   pad : SUBSET Axes, retain : [Axes -> SUBSET Sides], drop : SUBSET BOOLEAN]

ASSUME ScenariosAssumption ==
  Scenarios \subseteq
    [mode : {"read", "write"}, flags : Flags, input : Seq(Traces)]

VARIABLES
  mode,     \* "read", "write", or "closed"
  flags,    \* the flags of the axes that editing does not change
  ordinal,  \* axis.ordinal: the ordinals expected next
  change,   \* axes with DDS_AXIS_CHANGE
  cycle,    \* axes with DDS_AXIS_CYCLE
  padding,  \* DDS_BIN_PADDING
  written,  \* DDS_BIN_WRITTEN
  LineTrc,  \* bin.LineTrc
  eom,      \* DDS_BIN_EOM: a write has failed
  input,    \* traces not read from the file, or not given to dds_write, yet
  left,     \* traces the call in progress still has to transfer
  made,     \* traces delivered to the application, or written to the file
  given     \* history: the input at the start

cubeVars == <<ordinal, change, cycle>>
editVars ==
  <<mode, flags, cubeVars, padding, written, LineTrc, eom, input, left, made,
    given>>

EditTypeOK ==
  /\ mode \in {"read", "write", "closed"}
  /\ flags \in Flags
  /\ ordinal \in [Axes -> Int]
  /\ \A r \in Axes \ {Rank} : - Size[r] < ordinal[r] /\ ordinal[r] < Size[r]
  /\ change \subseteq Axes
  /\ cycle \subseteq Axes
  /\ padding \in BOOLEAN
  /\ written \in BOOLEAN
  /\ LineTrc \in Int
  /\ eom \in BOOLEAN
  /\ input \in Seq(Traces)
  /\ left \in Nat
  /\ made \in Seq(Traces)
  /\ given \in Seq(Traces)

EditInit ==
  /\ \E s \in Scenarios :
       mode = s.mode /\ flags = s.flags /\ input = s.input
  /\ ordinal = [r \in Axes |-> 0]
  /\ change = {}
  /\ cycle = {}
  /\ padding = FALSE
  /\ written = FALSE
  /\ LineTrc = 1
  /\ eom = FALSE
  /\ left = 0
  /\ made = <<>>
  /\ given = input

-----------------------------------------------------------------------------
(* Indices and ordinals                                                    *)

(* ddsGetOrdinal: (long)(1.5 + distance) - 1, which rounds to zero.        *)
GetOrdinal(coord, r) ==
  LET distance == coord - Base[r]
  IN  IF distance >= -1 THEN distance ELSE distance + 1

GetExpected(n, r) == Base[r] + n

Index(t, r) == GetOrdinal(t.index[r], r)

Inside(n, r) == 0 <= n /\ n < Size[r]

(* The remainder of C has the sign of the dividend.                        *)
Remainder(n, m) == IF n >= 0 THEN n % m ELSE - ((- n) % m)

(* DDS_AXIS_SYNC, set by ddsCubeLinker.                                    *)
Sync ==
  {r \in Axes : r + 1 \in flags.sort /\ r \notin flags.sparse \cup flags.async}

(* Mutant of Dense: a write fills in sparse axes, too.                     *)
DenseWrites ==
  {r \in Axes : r \notin flags.sparse \/ (r \in flags.pad \/ mode = "write")}

(* Axes on which a missing trace is replaced by a dead one.                *)
Dense ==
  {r \in Axes : r \notin flags.sparse \/ (r \in flags.pad /\ mode = "read")}

Lowest(S) == CHOOSE r \in S : \A q \in S : r <= q

-----------------------------------------------------------------------------
(* ddsCubeInc                                                              *)

(* Mutant of CarriedTo: an axis is counted one place too far.              *)
CarriedToLate(top, ord) ==
  /\ \A r \in 1 .. top - 1 : ord[r] >= Size[r]
  /\ ord[top] < Size[top] \/ top = Rank

(* The axes below top are full and carry, top does not.                    *)
CarriedTo(top, ord) ==
  /\ \A r \in 1 .. top - 1 : ord[r] + 1 >= Size[r]
  /\ ord[top] + 1 < Size[top] \/ top = Rank

(* Mutant of CubeInc: an axis that is carried is still being synchronized. *)
CubeIncCycling(ord, chg) ==
  \E top \in Axes :
    LET recycled == IF top \in cycle THEN Sync \cap (1 .. top - 1) ELSE {}
    IN  /\ CarriedTo(top, ord)
        /\ ordinal' = [r \in Axes |-> IF r < top THEN 0
                                      ELSE IF r = top THEN ord[r] + 1
                                      ELSE ord[r]]
        /\ cycle' = cycle \cup recycled
        /\ change' = (chg \ recycled) \cup (top + 1 .. Rank)

(* The ordinals expected after a trace.                                    *)
CubeInc(ord, chg) ==
  \E top \in Axes :
    LET recycled == IF top \in cycle THEN Sync \cap (1 .. top - 1) ELSE {}
    IN  /\ CarriedTo(top, ord)
        /\ ordinal' = [r \in Axes |-> IF r < top THEN 0
                                      ELSE IF r = top THEN ord[r] + 1
                                      ELSE ord[r]]
        /\ cycle' = (cycle \ (1 .. top - 1)) \cup recycled
        /\ change' = (chg \ recycled) \cup (top + 1 .. Rank)

-----------------------------------------------------------------------------
(* ddsEditTrace                                                            *)

Side(n, r) ==
  IF n >= Size[r] THEN "upper" ELSE IF n < 0 THEN "lower" ELSE "window"

(* Editing by the kind of trace and the window, not while padding.         *)
Gross(t) ==
  /\ ~ padding
  /\ \/ t.live \in flags.drop
     \/ \E r \in flags.sort : Side(Index(t, r), r) \notin flags.retain[r]

(* Mutant of OutOfSync: the ordinal of the lower axis is compared.         *)
OutOfSyncLower(t, r) ==
  /\ r \in Sync \cap change
  /\ GetOrdinal(t.index[r + 1], r) # ordinal[r]

(* The next higher axis has left the plane this one is synchronized with;  *)
(* its index is scaled with the base of the lower axis.                    *)
OutOfSync(t, r) ==
  /\ r \in Sync \cap change
  /\ GetOrdinal(t.index[r + 1], r) # ordinal[r + 1]

Differs(t, r) ==
  r \in flags.sort /\ (Index(t, r) # ordinal[r] \/ r \in cycle)

(* What the flags of an axis say of a trace whose index differs.           *)
Remedy(t, r) ==
  IF ~ Differs(t, r) THEN "none"
  ELSE IF r \in flags.error THEN "error"
  ELSE IF r \in flags.force THEN "force"
  ELSE IF r \in flags.reject THEN "reject"
  ELSE IF r \notin Dense THEN "follow"
  ELSE IF Inside(Index(t, r), r) THEN "dead"
  ELSE "fail"

(* The axes are looked at from the lowest on, as far as one that decides.  *)
Deciding(t) ==
  {r \in Axes :
     OutOfSync(t, r) \/ Remedy(t, r) \in {"error", "reject", "dead"}}

Decider(t) == IF Deciding(t) = {} THEN Rank + 1 ELSE Lowest(Deciding(t))

Verdict(t) ==
  IF Gross(t) THEN "reject"
  ELSE IF Deciding(t) = {} THEN "accept"
  ELSE IF OutOfSync(t, Decider(t)) THEN "recycle"
  ELSE IF Remedy(t, Decider(t)) = "dead"
          /\ \E j \in flags.sort \cap flags.error :
               j > Decider(t) /\ Index(t, j) # ordinal[j]
       THEN "error"
       ELSE Remedy(t, Decider(t))

(* The axes on which the expected ordinal gives way to the trace's.        *)
Followed(t) ==
  {r \in Axes : ~ Gross(t) /\ r < Decider(t) /\ Remedy(t, r) = "follow"}

Follow(t) ==
  [r \in Axes |-> IF r \in Followed(t) THEN Remainder(Index(t, r), Size[r])
                                       ELSE ordinal[r]]

(* For a dead trace the sparse axes give way, the higher ones only where   *)
(* the axis below starts again; those of a read that are padded do not.    *)
Inserted(t) ==
  LET trace == [j \in Axes |-> Remainder(Index(t, j), Size[j])]
      yields[j \in Axes] ==
        /\ j \in flags.sort \ Dense
        /\ \/ j <= Decider(t)
           \/ yields[j - 1] /\ trace[j - 1] = 0
           \/ ~ yields[j - 1] /\ Follow(t)[j - 1] = 0
  IN  [j \in Axes |-> IF yields[j] THEN trace[j] ELSE Follow(t)[j]]

(* The ordinals when ddsEditTrace returns.                                 *)
Edited(t) ==
  IF ~ Gross(t) /\ Deciding(t) # {} /\ ~ OutOfSync(t, Decider(t))
     /\ Remedy(t, Decider(t)) = "dead"
  THEN Inserted(t)
  ELSE Follow(t)

(* Mutant of Forced: the indices are not forced.                           *)
ForcedNever(t) == t

(* A trace with the expected indices, and one with those that are forced.  *)
DeadTrace(ord) ==
  [index |-> [r \in Axes |-> GetExpected(ord[r], r)], live |-> FALSE]

Forced(t) ==
  [t EXCEPT !.index =
     [r \in Axes |-> IF Remedy(t, r) = "force" THEN GetExpected(ordinal[r], r)
                                               ELSE t.index[r]]]

Pending(t) == change \ Followed(t)

(* What an edit leaves in the cube when ddsCubeInc does not follow.        *)
Settle(t) ==
  /\ ordinal' = Edited(t)
  /\ change' = Pending(t)
  /\ UNCHANGED cycle

(* Mutant of Recycle: only the axis itself starts a cycle.                 *)
RecycleOne ==
  /\ left > 0
  /\ input # <<>>
  /\ Verdict(Head(input)) = "recycle"
  /\ ordinal' = Edited(Head(input))
  /\ change' = Pending(Head(input))
  /\ cycle' = cycle \cup {Decider(Head(input))}
  /\ UNCHANGED <<mode, flags, padding, written, LineTrc, eom, input, left,
                 made, given>>

(* goto recycle: the axes below start a cycle, and are looked at again.    *)
Recycle ==
  /\ left > 0
  /\ input # <<>>
  /\ Verdict(Head(input)) = "recycle"
  /\ ordinal' = Edited(Head(input))
  /\ change' = Pending(Head(input))
  /\ cycle' = cycle \cup (Sync \cap (1 .. Decider(Head(input))))
  /\ UNCHANGED <<mode, flags, padding, written, LineTrc, eom, input, left,
                 made, given>>

-----------------------------------------------------------------------------
(* dds_read of traces: ddsReadGenT and ddsReadCheck                        *)

ReadCall ==
  /\ mode = "read"
  /\ left = 0
  /\ \E count \in 1 .. MaxCount : Len(made) + count <= Capacity /\ left' = count
  /\ UNCHANGED <<mode, flags, cubeVars, padding, written, LineTrc, eom, input,
                 made, given>>

(* One turn of the loop that delivers a trace of the file or a dead trace. *)
ReadTrace ==
  /\ mode = "read"
  /\ left > 0
  /\ input # <<>>
  /\ LET t == Head(input) IN
       /\ \/ /\ Verdict(t) = "accept"
             /\ made' = Append(made, Forced(t))
             /\ input' = Tail(input)
             /\ LineTrc' = LineTrc + 1
          \/ /\ Verdict(t) = "dead"
             /\ made' = Append(made, DeadTrace(Edited(t)))
             /\ UNCHANGED <<input, LineTrc>>
       /\ \E ord \in {Edited(t)} : CubeInc(ord, Pending(t))
  /\ left' = left - 1
  /\ UNCHANGED <<mode, flags, padding, written, eom, given>>

(* Mutant of ReadDiscard: a trace that is discarded is not counted.        *)
ReadDiscardUncounted ==
  /\ mode = "read"
  /\ left > 0
  /\ input # <<>>
  /\ Verdict(Head(input)) = "reject"
  /\ Settle(Head(input))
  /\ input' = Tail(input)
  /\ UNCHANGED <<mode, flags, padding, written, LineTrc, eom, left, made,
                 given>>

(* A rejected trace is passed over, and the next one is edited.            *)
ReadDiscard ==
  /\ mode = "read"
  /\ left > 0
  /\ input # <<>>
  /\ Verdict(Head(input)) = "reject"
  /\ Settle(Head(input))
  /\ input' = Tail(input)
  /\ LineTrc' = LineTrc + 1
  /\ UNCHANGED <<mode, flags, padding, written, eom, left, made, given>>

(* The trace that is in error is pushed back.                              *)
ReadError ==
  /\ mode = "read"
  /\ left > 0
  /\ input # <<>>
  /\ Verdict(Head(input)) = "error"
  /\ Settle(Head(input))
  /\ left' = 0
  /\ UNCHANGED <<mode, flags, padding, written, LineTrc, eom, input, made,
                 given>>

(* Mutant of MoreDead: the highest axis but one is not looked at.          *)
MoreDeadLower == \E r \in Dense : r < Rank - 1 /\ ordinal[r] # 0

(* ddsEditFinal: the cube is not complete yet.                             *)
MoreDead == \E r \in Dense : r < Rank /\ ordinal[r] # 0

(* At the end of the file the cube is padded,                              *)
ReadPad ==
  /\ mode = "read"
  /\ left > 0
  /\ input = <<>>
  /\ MoreDead
  /\ padding' = TRUE
  /\ made' = Append(made, DeadTrace(ordinal))
  /\ CubeInc(ordinal, change)
  /\ left' = left - 1
  /\ UNCHANGED <<mode, flags, written, LineTrc, eom, input, given>>

(* and when it is complete fewer traces are returned than asked for.       *)
ReadEnd ==
  /\ mode = "read"
  /\ left > 0
  /\ input = <<>>
  /\ ~ MoreDead
  /\ padding' = TRUE
  /\ left' = 0
  /\ UNCHANGED <<mode, flags, cubeVars, written, LineTrc, eom, input, made,
                 given>>

-----------------------------------------------------------------------------
(* dds_write of traces: ddsWriteGenT and ddsWriteCheck                     *)

WriteCall ==
  /\ mode = "write"
  /\ left = 0
  /\ ~ padding
  /\ ~ eom
  /\ \E count \in 1 .. MaxCount : count <= Len(input) /\ left' = count
  /\ UNCHANGED <<mode, flags, cubeVars, padding, written, LineTrc, eom, input,
                 made, given>>

(* A trace goes to the file, or a dead one before it.                      *)
WriteTrace ==
  /\ mode = "write"
  /\ left > 0
  /\ Len(made) < Capacity
  /\ LET t == Head(input) IN
       /\ \/ /\ Verdict(t) = "accept"
             /\ ~ padding
             /\ made' = Append(made, Forced(t))
             /\ input' = Tail(input)
             /\ left' = left - 1
             /\ written' = TRUE
          \/ /\ Verdict(t) = "dead"
             /\ made' = Append(made, DeadTrace(Edited(t)))
             /\ UNCHANGED <<input, left, written>>
       /\ \E ord \in {Edited(t)} : CubeInc(ord, Pending(t))
  /\ LineTrc' = LineTrc + 1
  /\ UNCHANGED <<mode, flags, padding, eom, given>>

WriteDiscard ==
  /\ mode = "write"
  /\ left > 0
  /\ Verdict(Head(input)) = "reject"
  /\ Settle(Head(input))
  /\ input' = Tail(input)
  /\ left' = left - 1
  /\ written' = TRUE
  /\ UNCHANGED <<mode, flags, padding, LineTrc, eom, made, given>>

WriteError ==
  /\ mode = "write"
  /\ left > 0
  /\ Verdict(Head(input)) = "error"
  /\ Settle(Head(input))
  /\ input' = Tail(input)
  /\ left' = 0
  /\ UNCHANGED <<mode, flags, padding, written, LineTrc, eom, made, given>>

(* gwritec fails: what is written from now on finds the end of the media.  *)
WriteFails ==
  /\ mode = "write"
  /\ left > 0
  /\ Verdict(Head(input)) \in {"accept", "dead"}
  /\ Verdict(Head(input)) = "accept" => ~ padding
  /\ Settle(Head(input))
  /\ eom' = TRUE
  /\ left' = 0
  /\ UNCHANGED <<mode, flags, padding, written, LineTrc, input, made, given>>

-----------------------------------------------------------------------------
(* dds_close of a file that has been written: ddsCloseFlush                *)

(* The trace that would come first in the next plane of the highest axis.  *)
Dummy ==
  [index |-> [r \in Axes |-> IF r < Rank THEN GetExpected(0, r)
                             ELSE GetExpected(ordinal[r] + 1, r)],
   live |-> TRUE]

FlushPad ==
  /\ written
  /\ ~ eom
  /\ \E r \in flags.sort \ flags.sparse : r < Rank /\ ordinal[r] # 0

(* The dummy is written to pad the cube,                                   *)
CloseFlush ==
  /\ mode = "write"
  /\ left = 0
  /\ input = <<>>
  /\ ~ padding
  /\ FlushPad
  /\ padding' = TRUE
  /\ input' = <<Dummy>>
  /\ left' = 1
  /\ UNCHANGED <<mode, flags, cubeVars, written, LineTrc, eom, made, given>>

(* but never goes to the file itself.                                      *)
DummyReached ==
  /\ mode = "write"
  /\ left > 0
  /\ padding
  /\ Verdict(Head(input)) = "accept"
  /\ Settle(Head(input))
  /\ left' = 0
  /\ UNCHANGED <<mode, flags, padding, written, LineTrc, eom, input, made,
                 given>>

Close ==
  /\ mode = "write"
  /\ left = 0
  /\ eom \/ padding \/ (input = <<>> /\ ~ FlushPad)
  /\ mode' = "closed"
  /\ UNCHANGED <<flags, cubeVars, padding, written, LineTrc, eom, input, left,
                 made, given>>

-----------------------------------------------------------------------------
(* The steps of the library within a call.                                 *)
EditStep ==
  \/ Recycle
  \/ ReadTrace \/ ReadDiscard \/ ReadError \/ ReadPad \/ ReadEnd
  \/ WriteTrace \/ WriteDiscard \/ WriteError \/ WriteFails
  \/ DummyReached

EditNext == EditStep \/ ReadCall \/ WriteCall \/ CloseFlush \/ Close

(* A call, once made, is carried on by the thread that made it.            *)
EditSpec == EditInit /\ [][EditNext]_editVars /\ WF_editVars(EditStep)

-----------------------------------------------------------------------------
(* Properties                                                              *)

(* The cube in closed form, against which counting, carrying, padding and  *)
(* synchronizing are measured: the number of places a step on each axis    *)
(* is worth, and the indices of the trace at place k, from 0 on.           *)
Stride ==
  LET stride[r \in 1 .. Rank + 1] ==
        IF r = 1 THEN 1 ELSE stride[r - 1] * Size[r - 1]
  IN  stride

Point(k) ==
  [r \in Axes |->
     GetExpected(IF r < Rank THEN (k \div Stride[r]) % Size[r]
                             ELSE k \div Stride[r], r)]

(* The axes dead traces are inserted on.                                   *)
Filling ==
  (flags.sort \cap Dense) \ (flags.error \cup flags.force \cup flags.reject)

(* The axes, counted from the lowest, whose indices editing keeps to what  *)
(* the cube expects: dead traces are inserted, indices forced, or traces   *)
(* rejected.  A sparse axis that is forced or rejects gives way all the    *)
(* same where a dead trace is inserted on another.                         *)
Strict(r) ==
  /\ r \in flags.sort
  /\ \/ r \in Dense
     \/ r \in flags.force \cup flags.reject /\ Filling = {}

Regular ==
  CHOOSE n \in 0 .. Rank :
    /\ \A r \in 1 .. n : Strict(r)
    /\ n < Rank => ~ Strict(n + 1)

(* Traces in regular order: the k-th trace an application reads, or finds  *)
(* in the file it has written, has the indices of place k in the cube, on  *)
(* all axes whose order editing enforces, whichever traces are missing, to *)
(* be dropped, repeated or out of order in the input.  Only an index that  *)
(* lies outside the cube is passed along as it is.                         *)
InStep ==
  \A k \in DOMAIN made, r \in 1 .. Regular :
    made[k].index[r] = Point(k - 1)[r] \/ ~ Inside(Index(made[k], r), r)

(* The place of a trace in the cube.                                       *)
Place(t) ==
  LET sum[r \in 0 .. Rank] ==
        IF r = 0 THEN 0 ELSE sum[r - 1] + Index(t, r) * Stride[r]
  IN  sum[Rank]

InRegularOrder ==
  /\ \A i \in DOMAIN given : \A r \in Axes : Inside(Index(given[i], r), r)
  /\ \A i, j \in DOMAIN given : i < j => Place(given[i]) < Place(given[j])

(* A dense cube is filled up: if the traces there are come in order, each  *)
(* of them is delivered or written at its own place, and every place       *)
(* between them has a dead trace, however the requests are cut.            *)
Filled ==
  (/\ flags.sort = Axes
   /\ Dense = Axes
   /\ flags.error \cup flags.force \cup flags.reject = {}
   /\ flags.drop = {}
   /\ \A r \in Axes : "window" \in flags.retain[r]
   /\ InRegularOrder)
  => \A k \in DOMAIN made :
       made[k].live <=>
         \E i \in DOMAIN given : given[i].live /\ given[i].index = Point(k - 1)

(* No flag asks for editing, as with no_edit.                              *)
Unedited ==
  /\ flags.sparse = Axes
  /\ flags.error \cup flags.force \cup flags.reject = {}
  /\ mode = "read" => flags.pad = {}
  /\ flags.drop = {}
  /\ flags.retain = [r \in Axes |-> Sides]

(* With nothing to enforce, the application gets or writes exactly the     *)
(* traces there are, in their order and unchanged.                         *)
AsIs == Unedited => made \o input = given

(* A cube whose traces are all there and in order passes unchanged,        *)
(* whichever flags are set: nothing is inserted, forced, rejected or       *)
(* waited for, and no call ends in an error.                               *)
CompleteCube ==
  /\ Len(given) = Stride[Rank] * Size[Rank]
  /\ \A k \in DOMAIN given : given[k] = [index |-> Point(k - 1), live |-> TRUE]
  /\ TRUE \notin flags.drop
  /\ \A r \in Axes : "window" \in flags.retain[r]

Transparent == CompleteCube => made \o input = given

(* LineTrc is the place on the media, one more than the traces before it,  *)
(* whatever dead traces were delivered and whatever was discarded.         *)
TracesCounted ==
  LineTrc = 1 + IF mode = "read" THEN Len(given) - Len(input) ELSE Len(made)

(* When a read has come to the end, and when a file has been closed, the   *)
(* planes of the dense axes are complete.                                  *)
PaddedAtEnd ==
  [][ (/\ ReadEnd \/ (Close /\ written /\ ~ eom)
       /\ flags.error \cup flags.force \cup flags.reject = {})
      => \A n \in 1 .. Rank - 1 :
           (1 .. n \subseteq flags.sort \cap Dense)
             => Len(made) % Stride[n + 1] = 0 ]_editVars

(* Every call returns: the dead traces inserted come to an end, and axes   *)
(* are not recycled for ever.                                              *)
CallReturns == left > 0 ~> left = 0

=============================================================================
