--------------------------- MODULE DdsEditProofs ---------------------------
(***************************************************************************)
(* Proofs about DdsEdit, for cubes of any rank, size and base, and inputs  *)
(* of any length.                                                          *)
(***************************************************************************)
EXTENDS DdsEdit, SequenceTheorems, WellFoundedInduction, TLAPS

(* The ordinals an axis may have: below the highest one they lie between   *)
(* the size and its negative, for the remainder of C keeps the sign.       *)
OrdinalsOK(o) ==
  /\ o \in [Axes -> Int]
  /\ \A r \in Axes \ {Rank} : - Size[r] < o[r] /\ o[r] < Size[r]

LEMMA RemainderBound ==
  ASSUME NEW n \in Int, NEW m \in Nat \ {0}
  PROVE  /\ Remainder(n, m) \in Int
         /\ - m < Remainder(n, m)
         /\ Remainder(n, m) < m
<1>1. \A k \in Nat : k % m \in 0 .. m - 1
  OBVIOUS
<1>2. CASE n >= 0
  BY <1>1, <1>2 DEF Remainder
<1>3. CASE n < 0
  <2>1. - n \in Nat
    BY <1>3
  <2>2. (- n) % m \in 0 .. m - 1
    BY <1>1, <2>1
  <2>3. Remainder(n, m) = - ((- n) % m)
    BY <1>3 DEF Remainder
  <2> QED
    BY <2>2, <2>3
<1> QED
  BY <1>2, <1>3

LEMMA IndexType ==
  ASSUME NEW t \in Traces, NEW r \in Axes
  PROVE  Index(t, r) \in Int
BY CubeAssumption DEF Index, GetOrdinal, Traces

LEMMA TaggedRemainder ==
  ASSUME NEW t \in Traces, NEW r \in Axes
  PROVE  /\ Remainder(Index(t, r), Size[r]) \in Int
         /\ - Size[r] < Remainder(Index(t, r), Size[r])
         /\ Remainder(Index(t, r), Size[r]) < Size[r]
<1>1. Index(t, r) \in Int /\ Size[r] \in Nat \ {0}
  BY IndexType, CubeAssumption
<1> HIDE DEF Index
<1> QED
  BY <1>1, RemainderBound

LEMMA FollowOK ==
  ASSUME EditTypeOK, NEW t \in Traces
  PROVE  OrdinalsOK(Follow(t))
<1>1. Follow(t) = [r \in Axes |-> IF r \in Followed(t)
                                  THEN Remainder(Index(t, r), Size[r])
                                  ELSE ordinal[r]]
  BY DEF Follow
<1>2. OrdinalsOK(ordinal)
  BY DEF EditTypeOK, OrdinalsOK
<1>3. \A r \in Axes :
        /\ Remainder(Index(t, r), Size[r]) \in Int
        /\ - Size[r] < Remainder(Index(t, r), Size[r])
        /\ Remainder(Index(t, r), Size[r]) < Size[r]
  BY TaggedRemainder
<1> QED
  BY <1>1, <1>2, <1>3 DEF OrdinalsOK

LEMMA EditedOK ==
  ASSUME EditTypeOK, NEW t \in Traces
  PROVE  OrdinalsOK(Edited(t))
<1> DEFINE trace == [j \in Axes |-> Remainder(Index(t, j), Size[j])]
<1>1. OrdinalsOK(trace)
  BY TaggedRemainder DEF OrdinalsOK
<1>2. OrdinalsOK(Follow(t))
  BY FollowOK
<1>3. \E yields : Inserted(t) = [j \in Axes |-> IF yields[j] THEN trace[j]
                                                ELSE Follow(t)[j]]
  BY Zenon DEF Inserted
<1>4. OrdinalsOK(Inserted(t))
  <2> HIDE DEF trace
  <2> QED
    BY <1>1, <1>2, <1>3 DEF OrdinalsOK
<1> QED
  BY <1>2, <1>4 DEF Edited

LEMMA DeadTraceOK ==
  ASSUME NEW o, OrdinalsOK(o)
  PROVE  DeadTrace(o) \in Traces
BY CubeAssumption DEF DeadTrace, GetExpected, Traces, OrdinalsOK

LEMMA ForcedOK ==
  ASSUME EditTypeOK, NEW t \in Traces
  PROVE  Forced(t) \in Traces
<1> DEFINE index == [r \in Axes |-> IF Remedy(t, r) = "force"
                                    THEN GetExpected(ordinal[r], r)
                                    ELSE t.index[r]]
<1>1. index \in [Axes -> Int]
  BY CubeAssumption DEF EditTypeOK, Traces, GetExpected
<1>2. Forced(t) = [t EXCEPT !.index = index]
  BY DEF Forced
<1> HIDE DEF index
<1> QED
  BY <1>1, <1>2 DEF Traces

LEMMA CubeIncOK ==
  ASSUME EditTypeOK, NEW ord, OrdinalsOK(ord), NEW chg \in SUBSET Axes,
         CubeInc(ord, chg)
  PROVE  OrdinalsOK(ordinal') /\ change' \subseteq Axes /\ cycle' \subseteq Axes
<1>1. PICK top \in Axes :
        /\ CarriedTo(top, ord)
        /\ ordinal' = [r \in Axes |-> IF r < top THEN 0
                                      ELSE IF r = top THEN ord[r] + 1
                                      ELSE ord[r]]
        /\ \E recycled \in SUBSET Sync :
             /\ cycle' = (cycle \ (1 .. top - 1)) \cup recycled
             /\ change' = (chg \ recycled) \cup (top + 1 .. Rank)
  BY DEF CubeInc
<1>2. Sync \subseteq Axes
  BY DEF Sync
<1>3. change' \subseteq Axes /\ cycle' \subseteq Axes
  BY <1>1, <1>2, CubeAssumption DEF EditTypeOK, Axes
<1>4. OrdinalsOK(ordinal')
  <2>1. ord[top] + 1 < Size[top] \/ top = Rank
    BY <1>1 DEF CarriedTo
  <2>2. \A r \in Axes : Size[r] \in Nat \ {0} /\ ord[r] \in Int
    BY CubeAssumption DEF OrdinalsOK
  <2> QED
    BY <1>1, <2>1, <2>2 DEF OrdinalsOK
<1> QED
  BY <1>3, <1>4

LEMMA PendingOK ==
  ASSUME EditTypeOK, NEW t
  PROVE  Pending(t) \in SUBSET Axes
BY DEF EditTypeOK, Pending

LEMMA SettleOK ==
  ASSUME EditTypeOK, NEW t \in Traces, Settle(t)
  PROVE  OrdinalsOK(ordinal') /\ change' \subseteq Axes /\ cycle' \subseteq Axes
BY EditedOK, PendingOK DEF Settle, EditTypeOK

(* The head of what there is to read or write is a trace, and so is all of *)
(* the rest.                                                               *)
LEMMA HeadOK ==
  ASSUME EditTypeOK, input # <<>>
  PROVE  Head(input) \in Traces /\ Tail(input) \in Seq(Traces)
BY DEF EditTypeOK

-----------------------------------------------------------------------------
(* A call to write has not got more traces to transfer than it was given,  *)
(* so that the head of the input is a trace.                               *)
Supplied == mode = "write" => left <= Len(input)

IInv == EditTypeOK /\ Supplied

LEMMA InitIInv == EditInit => IInv
<1> SUFFICES ASSUME EditInit PROVE IInv
  OBVIOUS
<1>1. PICK s \in Scenarios :
        mode = s.mode /\ flags = s.flags /\ input = s.input
  BY DEF EditInit
<1>2. mode \in {"read", "write"} /\ flags \in Flags /\ input \in Seq(Traces)
  BY <1>1, ScenariosAssumption
<1>3. \A r \in Axes : Size[r] \in Nat \ {0}
  BY CubeAssumption
<1>4. ordinal \in [Axes -> Int]
      /\ \A r \in Axes \ {Rank} : - Size[r] < ordinal[r] /\ ordinal[r] < Size[r]
  BY <1>3 DEF EditInit
<1>5. Supplied
  <2>1. Len(input) \in Nat
    BY <1>2
  <2> QED
    BY <2>1 DEF EditInit, Supplied
<1>6. EditTypeOK
  <2>1. made \in Seq(Traces) /\ given \in Seq(Traces)
    BY <1>2 DEF EditInit
  <2>2. /\ change = {} /\ cycle = {} /\ padding = FALSE /\ written = FALSE
        /\ LineTrc = 1 /\ eom = FALSE /\ left = 0
    BY DEF EditInit
  <2>3. /\ mode \in {"read", "write", "closed"}
        /\ change \subseteq Axes /\ cycle \subseteq Axes
    BY <1>2, <2>2, Zenon
  <2>4. padding \in BOOLEAN /\ written \in BOOLEAN /\ eom \in BOOLEAN
    BY <2>2, Zenon
  <2>5. LineTrc \in Int /\ left \in Nat
    <3>1. LineTrc = 1 /\ left = 0
      BY <2>2, Zenon
    <3> QED
      BY <3>1
  <2> QED
    BY <1>2, <1>4, <2>1, <2>3, <2>4, <2>5, Zenon DEF EditTypeOK
<1> QED
  BY <1>5, <1>6 DEF IInv

(* The type invariant from its parts.                                      *)
LEMMA TypeFromParts ==
  ASSUME EditTypeOK, UNCHANGED <<flags, given>>,
         OrdinalsOK(ordinal'), change' \subseteq Axes, cycle' \subseteq Axes,
         mode' \in {"read", "write", "closed"}, padding' \in BOOLEAN,
         written' \in BOOLEAN, LineTrc' \in Int, eom' \in BOOLEAN,
         input' \in Seq(Traces), left' \in Nat, made' \in Seq(Traces)
  PROVE  EditTypeOK'
BY DEF EditTypeOK, OrdinalsOK

LEMMA SameCube ==
  ASSUME EditTypeOK, UNCHANGED cubeVars
  PROVE  OrdinalsOK(ordinal') /\ change' \subseteq Axes /\ cycle' \subseteq Axes
BY DEF EditTypeOK, OrdinalsOK, cubeVars

LEMMA CallStep ==
  ASSUME IInv, ReadCall \/ WriteCall
  PROVE  IInv'
<1>1. left' \in Nat /\ Supplied'
  BY CubeAssumption DEF ReadCall, WriteCall, Supplied, IInv, EditTypeOK
<1>2. EditTypeOK'
  BY <1>1, SameCube, TypeFromParts
     DEF ReadCall, WriteCall, IInv, EditTypeOK, cubeVars
<1> QED
  BY <1>1, <1>2 DEF IInv

LEMMA RecycleStep ==
  ASSUME IInv, Recycle
  PROVE  IInv'
<1> DEFINE t == Head(input)
<1>1. t \in Traces
  BY HeadOK DEF IInv, Recycle
<1>2. OrdinalsOK(ordinal') /\ change' \subseteq Axes
  BY <1>1, EditedOK, PendingOK DEF Recycle, IInv
<1>3. cycle' \subseteq Axes
  BY DEF Recycle, IInv, EditTypeOK, Sync
<1>4. EditTypeOK'
  BY <1>2, <1>3, TypeFromParts DEF Recycle, IInv, EditTypeOK
<1>5. Supplied'
  BY DEF Recycle, IInv, Supplied
<1> QED
  BY <1>4, <1>5 DEF IInv

LEMMA ReadTraceStep ==
  ASSUME IInv, ReadTrace
  PROVE  IInv'
<1> DEFINE t == Head(input)
<1>1. t \in Traces /\ Tail(input) \in Seq(Traces)
  BY HeadOK DEF IInv, ReadTrace
<1>2. OrdinalsOK(Edited(t)) /\ Pending(t) \in SUBSET Axes
  BY <1>1, EditedOK, PendingOK DEF IInv
<1>3. OrdinalsOK(ordinal') /\ change' \subseteq Axes /\ cycle' \subseteq Axes
  BY <1>2, CubeIncOK DEF ReadTrace, IInv
<1>4. Forced(t) \in Traces /\ DeadTrace(Edited(t)) \in Traces
  BY <1>1, <1>2, ForcedOK, DeadTraceOK DEF IInv
<1>5. made' \in Seq(Traces) /\ input' \in Seq(Traces) /\ LineTrc' \in Int
  <2>1. /\ made \in Seq(Traces) /\ input \in Seq(Traces) /\ LineTrc \in Int
        /\ \A x \in Traces : Append(made, x) \in Seq(Traces)
    BY DEF IInv, EditTypeOK
  <2>2. \/ /\ made' = Append(made, Forced(t))
           /\ input' = Tail(input)
           /\ LineTrc' = LineTrc + 1
        \/ /\ made' = Append(made, DeadTrace(Edited(t)))
           /\ UNCHANGED <<input, LineTrc>>
    BY DEF ReadTrace
  <2>3. \E x \in Traces : made' = Append(made, x)
    BY <1>4, <2>2, Zenon
  <2>4. made' \in Seq(Traces)
    BY <2>1, <2>3, Zenon
  <2>5. input' \in Seq(Traces)
    BY <1>1, <2>1, <2>2, Zenon
  <2>6. LineTrc' = LineTrc \/ LineTrc' = LineTrc + 1
    BY <2>2, Zenon
  <2>7. LineTrc' \in Int
    <3>1. LineTrc \in Int
      BY <2>1, Zenon
    <3> QED
      BY <2>6, <3>1
  <2> QED
    BY <2>4, <2>5, <2>7, Zenon
<1>6. left' \in Nat
  BY DEF ReadTrace, IInv, EditTypeOK
<1>7. EditTypeOK'
  BY <1>3, <1>5, <1>6, TypeFromParts DEF ReadTrace, IInv, EditTypeOK
<1>8. Supplied'
  BY DEF ReadTrace, Supplied
<1> QED
  BY <1>7, <1>8 DEF IInv

LEMMA ReadPadStep ==
  ASSUME IInv, ReadPad
  PROVE  IInv'
<1>1. OrdinalsOK(ordinal) /\ change \in SUBSET Axes
  BY DEF IInv, EditTypeOK, OrdinalsOK
<1>2. OrdinalsOK(ordinal') /\ change' \subseteq Axes /\ cycle' \subseteq Axes
  BY <1>1, CubeIncOK DEF ReadPad, IInv
<1>3. made' \in Seq(Traces) /\ left' \in Nat
  BY <1>1, DeadTraceOK DEF ReadPad, IInv, EditTypeOK
<1>4. EditTypeOK'
  BY <1>2, <1>3, TypeFromParts DEF ReadPad, IInv, EditTypeOK
<1>5. Supplied'
  BY DEF ReadPad, Supplied
<1> QED
  BY <1>4, <1>5 DEF IInv

(* Reads that deliver nothing.                                             *)
LEMMA ReadQuietStep ==
  ASSUME IInv, ReadDiscard \/ ReadError \/ ReadEnd
  PROVE  IInv'
<1>1. CASE ReadDiscard
  <2>1. Head(input) \in Traces /\ Tail(input) \in Seq(Traces)
    BY <1>1, HeadOK DEF IInv, ReadDiscard
  <2>2. OrdinalsOK(ordinal') /\ change' \subseteq Axes /\ cycle' \subseteq Axes
    BY <1>1, <2>1, SettleOK DEF IInv, ReadDiscard
  <2>3. LineTrc' \in Int
    BY <1>1 DEF ReadDiscard, IInv, EditTypeOK
  <2>4. EditTypeOK'
    BY <1>1, <2>1, <2>2, <2>3, TypeFromParts DEF ReadDiscard, IInv, EditTypeOK
  <2> QED
    BY <1>1, <2>4 DEF IInv, Supplied, ReadDiscard
<1>2. CASE ReadError
  <2>1. Head(input) \in Traces
    BY <1>2, HeadOK DEF IInv, ReadError
  <2>2. OrdinalsOK(ordinal') /\ change' \subseteq Axes /\ cycle' \subseteq Axes
    BY <1>2, <2>1, SettleOK DEF IInv, ReadError
  <2>3. EditTypeOK'
    BY <1>2, <2>2, TypeFromParts DEF ReadError, IInv, EditTypeOK
  <2> QED
    BY <1>2, <2>3 DEF IInv, Supplied, ReadError
<1>3. CASE ReadEnd
  <2>1. EditTypeOK'
    BY <1>3, SameCube, TypeFromParts DEF ReadEnd, IInv, EditTypeOK, cubeVars
  <2> QED
    BY <1>3, <2>1 DEF IInv, Supplied, ReadEnd
<1> QED
  BY <1>1, <1>2, <1>3

(* In a write that is not done the input has a trace.                      *)
LEMMA WriteHead ==
  ASSUME IInv, mode = "write", left > 0
  PROVE  /\ input # <<>>
         /\ Head(input) \in Traces
         /\ Tail(input) \in Seq(Traces)
         /\ Len(Tail(input)) = Len(input) - 1
<1>1. Len(input) \in Nat /\ Len(input) > 0
  BY DEF IInv, EditTypeOK, Supplied
<1> QED
  BY <1>1 DEF IInv, EditTypeOK

LEMMA WriteTraceStep ==
  ASSUME IInv, WriteTrace
  PROVE  IInv'
<1> DEFINE t == Head(input)
<1>1. /\ t \in Traces /\ Tail(input) \in Seq(Traces)
      /\ Len(Tail(input)) = Len(input) - 1
  BY WriteHead DEF WriteTrace
<1>2. OrdinalsOK(Edited(t)) /\ Pending(t) \in SUBSET Axes
  BY <1>1, EditedOK, PendingOK DEF IInv
<1>3. OrdinalsOK(ordinal') /\ change' \subseteq Axes /\ cycle' \subseteq Axes
  BY <1>2, CubeIncOK DEF WriteTrace, IInv
<1>4. Forced(t) \in Traces /\ DeadTrace(Edited(t)) \in Traces
  BY <1>1, <1>2, ForcedOK, DeadTraceOK DEF IInv
<1>5. \/ /\ made' = Append(made, Forced(t))
         /\ input' = Tail(input)
         /\ left' = left - 1
         /\ written' = TRUE
      \/ /\ made' = Append(made, DeadTrace(Edited(t)))
         /\ UNCHANGED <<input, left, written>>
  BY DEF WriteTrace
<1>6. /\ made' \in Seq(Traces) /\ input' \in Seq(Traces)
      /\ left' \in Nat /\ left' <= Len(input') /\ written' \in BOOLEAN
  <2>1. /\ input \in Seq(Traces) /\ left \in Nat /\ left > 0
        /\ left <= Len(input) /\ Len(input) \in Nat /\ written \in BOOLEAN
        /\ \A x \in Traces : Append(made, x) \in Seq(Traces)
    BY DEF IInv, EditTypeOK, Supplied, WriteTrace
  <2>2. \E x \in Traces : made' = Append(made, x)
    BY <1>4, <1>5, Zenon
  <2>3. made' \in Seq(Traces)
    BY <2>1, <2>2, Zenon
  <2>4. \/ input' = Tail(input) /\ left' = left - 1 /\ written' = TRUE
        \/ input' = input /\ left' = left /\ written' = written
    BY <1>5
  <2>5. input' \in Seq(Traces) /\ written' \in BOOLEAN
    BY <1>1, <2>1, <2>4, Zenon
  <2>6. left' \in Nat /\ left' <= Len(input')
    <3>1. CASE input' = Tail(input) /\ left' = left - 1
      <4>1. Len(input') = Len(input) - 1
        BY <1>1, <3>1, Zenon
      <4>2. left \in Nat /\ left > 0 /\ left <= Len(input) /\ Len(input) \in Nat
        BY <2>1, Zenon
      <4> QED
        BY <3>1, <4>1, <4>2
    <3>2. CASE input' = input /\ left' = left
      BY <2>1, <3>2, Zenon
    <3> QED
      BY <2>4, <3>1, <3>2, Zenon
  <2> QED
    BY <2>3, <2>5, <2>6, Zenon
<1>7. LineTrc' \in Int
  BY DEF WriteTrace, IInv, EditTypeOK
<1>8. EditTypeOK'
  BY <1>3, <1>6, <1>7, TypeFromParts DEF WriteTrace, IInv, EditTypeOK
<1> QED
  BY <1>6, <1>8 DEF IInv, Supplied

(* Writes that write nothing.                                              *)
LEMMA WriteQuietStep ==
  ASSUME IInv, WriteDiscard \/ WriteError \/ WriteFails \/ DummyReached
  PROVE  IInv'
<1>1. /\ input # <<>>
      /\ Head(input) \in Traces /\ Tail(input) \in Seq(Traces)
      /\ Len(Tail(input)) = Len(input) - 1
  BY WriteHead DEF WriteDiscard, WriteError, WriteFails, DummyReached
<1>2. Settle(Head(input))
  BY DEF WriteDiscard, WriteError, WriteFails, DummyReached
<1>3. OrdinalsOK(ordinal') /\ change' \subseteq Axes /\ cycle' \subseteq Axes
  BY <1>1, <1>2, SettleOK DEF IInv
<1>4. /\ left' \in Nat /\ input' \in Seq(Traces)
      /\ left' <= Len(input')
  <2>1. /\ input \in Seq(Traces) /\ left \in Nat /\ left > 0
        /\ left <= Len(input) /\ Len(input) \in Nat
    BY DEF WriteDiscard, WriteError, WriteFails, DummyReached, IInv,
           EditTypeOK, Supplied
  <2>2. \/ input' = Tail(input) /\ left' = left - 1
        \/ input' = Tail(input) /\ left' = 0
        \/ input' = input /\ left' = 0
    BY DEF WriteDiscard, WriteError, WriteFails, DummyReached
  <2> QED
    BY <1>1, <2>1, <2>2
<1>5. /\ UNCHANGED <<mode, flags, padding, LineTrc, made, given>>
      /\ written' \in BOOLEAN /\ eom' \in BOOLEAN
  BY DEF WriteDiscard, WriteError, WriteFails, DummyReached, IInv, EditTypeOK
<1>6. EditTypeOK'
  BY <1>3, <1>4, <1>5, TypeFromParts DEF IInv, EditTypeOK
<1> QED
  BY <1>4, <1>6 DEF IInv, Supplied

LEMMA CloseStep ==
  ASSUME IInv, CloseFlush \/ Close
  PROVE  IInv'
<1>1. CASE CloseFlush
  <2>1. Dummy \in Traces
    BY CubeAssumption DEF Dummy, GetExpected, Traces, IInv, EditTypeOK
  <2>2. input' \in Seq(Traces) /\ Len(input') = 1 /\ left' = 1
    BY <1>1, <2>1 DEF CloseFlush
  <2>3. EditTypeOK'
    BY <1>1, <2>2, SameCube, TypeFromParts
       DEF CloseFlush, IInv, EditTypeOK, cubeVars
  <2> QED
    BY <2>2, <2>3 DEF IInv, Supplied
<1>2. CASE Close
  <2>1. EditTypeOK'
    BY <1>2, SameCube, TypeFromParts DEF Close, IInv, EditTypeOK, cubeVars
  <2> QED
    BY <1>2, <2>1 DEF IInv, Supplied, Close
<1> QED
  BY <1>1, <1>2

LEMMA StepIInv == IInv /\ [EditNext]_editVars => IInv'
<1> SUFFICES ASSUME IInv, [EditNext]_editVars PROVE IInv'
  OBVIOUS
<1>1. CASE EditNext
  BY <1>1, CallStep, RecycleStep, ReadTraceStep, ReadPadStep, ReadQuietStep,
     WriteTraceStep, WriteQuietStep, CloseStep DEF EditNext, EditStep
<1>2. CASE UNCHANGED editVars
  BY <1>2 DEF IInv, EditTypeOK, Supplied, editVars, cubeVars
<1> QED
  BY <1>1, <1>2

LEMMA AlwaysIInv == EditSpec => []IInv
BY InitIInv, StepIInv, PTL DEF EditSpec

(* Whatever the flags and the traces are, the ordinals of all axes but the *)
(* highest stay between the size of the axis and its negative (the sign is *)
(* that of the remainder by which ddsEditTrace follows an index), and what *)
(* is delivered or written are traces of the cube.                         *)
THEOREM OrdinalsBounded == EditSpec => []EditTypeOK
<1>1. IInv => EditTypeOK
  BY DEF IInv
<1> QED
  BY <1>1, AlwaysIInv, PTL

-----------------------------------------------------------------------------
LEMMA Typed == EditTypeOK =>
  /\ input \in Seq(Traces) /\ made \in Seq(Traces) /\ given \in Seq(Traces)
  /\ Len(input) \in Nat /\ Len(made) \in Nat /\ Len(given) \in Nat
  /\ LineTrc \in Int
BY LenProperties DEF EditTypeOK

LEMMA TailLen ==
  ASSUME EditTypeOK, input # <<>>
  PROVE  Len(Tail(input)) = Len(input) - 1
BY HeadTailProperties DEF EditTypeOK

LEMMA AppendLen ==
  ASSUME EditTypeOK, NEW t
  PROVE  Len(Append(made, t)) = Len(made) + 1
BY DEF EditTypeOK

LEMMA InitCounted == EditInit => TracesCounted
<1> SUFFICES ASSUME EditInit PROVE TracesCounted
  OBVIOUS
<1>1. Len(given) = Len(input) /\ Len(input) \in Nat
  BY InitIInv, Typed DEF EditInit, IInv
<1>2. LineTrc = 1 /\ Len(made) = 0
  BY DEF EditInit
<1> QED
  BY <1>1, <1>2 DEF TracesCounted

LEMMA StepCounted ==
  ASSUME IInv, IInv', TracesCounted, [EditNext]_editVars
  PROVE  TracesCounted'
<1>1. EditTypeOK
  BY DEF IInv
<1>2. CASE ReadTrace
  <2>1. mode = "read" /\ mode' = "read" /\ given' = given /\ input # <<>>
    BY <1>2 DEF ReadTrace
  <2>2. \/ input' = Tail(input) /\ LineTrc' = LineTrc + 1
        \/ input' = input /\ LineTrc' = LineTrc
    BY <1>2 DEF ReadTrace
  <2> QED
    BY <1>1, <2>1, <2>2, Typed, TailLen DEF TracesCounted
<1>3. CASE ReadDiscard
  <2>1. mode = "read" /\ mode' = "read" /\ given' = given /\ input # <<>>
    BY <1>3 DEF ReadDiscard
  <2>2. input' = Tail(input) /\ LineTrc' = LineTrc + 1
    BY <1>3 DEF ReadDiscard
  <2> QED
    BY <1>1, <2>1, <2>2, Typed, TailLen DEF TracesCounted
<1>4. CASE ReadCall \/ ReadError \/ ReadPad \/ ReadEnd
  <2>1. mode = "read" /\ mode' = "read" /\ UNCHANGED <<given, input, LineTrc>>
    BY <1>4 DEF ReadCall, ReadError, ReadPad, ReadEnd
  <2> QED
    BY <2>1 DEF TracesCounted
<1>5. CASE WriteTrace
  <2>1. mode = "write" /\ mode' = "write" /\ LineTrc' = LineTrc + 1
    BY <1>5 DEF WriteTrace
  <2>2. \E t : made' = Append(made, t)
    BY <1>5 DEF WriteTrace
  <2>3. Len(made') = Len(made) + 1
    BY <1>1, <2>2, AppendLen
  <2> QED
    BY <1>1, <2>1, <2>3, Typed DEF TracesCounted
<1>6. CASE WriteCall \/ WriteDiscard \/ WriteError \/ WriteFails \/ DummyReached
           \/ CloseFlush \/ Close
  <2>1. mode # "read" /\ mode' # "read" /\ UNCHANGED <<made, LineTrc>>
    BY <1>6 DEF WriteCall, WriteDiscard, WriteError, WriteFails, DummyReached,
                CloseFlush, Close
  <2> QED
    BY <2>1 DEF TracesCounted
<1>7. CASE Recycle
  <2>1. UNCHANGED <<mode, given, input, made, LineTrc>>
    BY <1>7 DEF Recycle
  <2> QED
    BY <2>1 DEF TracesCounted
<1>8. CASE UNCHANGED editVars
  BY <1>8 DEF TracesCounted, editVars
<1> QED
  BY <1>2, <1>3, <1>4, <1>5, <1>6, <1>7, <1>8 DEF EditNext, EditStep

(* LineTrc is the place on the media after any number of calls, with any   *)
(* flags: dead traces are not counted by a read, and those discarded are.  *)
THEOREM LineTrcOnMedia == EditSpec => []TracesCounted
<1>1. EditInit => TracesCounted
  BY InitCounted
<1>2. IInv /\ IInv' /\ TracesCounted /\ [EditNext]_editVars => TracesCounted'
  BY StepCounted
<1> QED
  BY <1>1, <1>2, AlwaysIInv, PTL DEF EditSpec

-----------------------------------------------------------------------------
(* Without editing a trace is always accepted, and left as it is.          *)
LEMMA UneditedVerdict ==
  ASSUME EditTypeOK, Unedited, NEW t \in Traces
  PROVE  Verdict(t) = "accept" /\ Forced(t) = t
<1>1. ~ Gross(t)
  <2>1. t.live \notin flags.drop
    BY DEF Unedited
  <2>2. \A r \in Axes : Side(Index(t, r), r) \in flags.retain[r]
    BY DEF Unedited, Side, Sides
  <2>3. flags.sort \subseteq Axes
    BY DEF EditTypeOK, Flags
  <2> QED
    BY <2>1, <2>2, <2>3 DEF Gross
<1>2. Sync = {}
  BY DEF Sync, Unedited
<1>3. \A r \in Axes : Remedy(t, r) \in {"none", "follow"}
  <2>1. \A r \in Axes : r \notin flags.error /\ r \notin flags.force
                        /\ r \notin flags.reject
    BY DEF Unedited
  <2>2. Dense = {}
    BY DEF Dense, Unedited
  <2> QED
    BY <2>1, <2>2 DEF Remedy
<1>4. \A r \in Axes : ~ OutOfSync(t, r)
  BY <1>2 DEF OutOfSync
<1>5. Deciding(t) = {}
  BY <1>3, <1>4 DEF Deciding
<1>6. Verdict(t) = "accept"
  BY <1>1, <1>5 DEF Verdict
<1>7. Forced(t) = t
  <2>1. \A r \in Axes : Remedy(t, r) # "force"
    BY <1>3
  <2>2. [r \in Axes |-> IF Remedy(t, r) = "force"
                        THEN GetExpected(ordinal[r], r)
                        ELSE t.index[r]] = t.index
    BY <2>1 DEF Traces
  <2> QED
    BY <2>2 DEF Forced, Traces
<1> QED
  BY <1>6, <1>7

(* A trace that goes from the head of one sequence to the end of the other.*)
LEMMA PassedOn ==
  ASSUME NEW S, NEW s \in Seq(S), NEW u \in Seq(S), u # <<>>
  PROVE  Append(s, Head(u)) \o Tail(u) = s \o u
<1>1. /\ Head(u) \in S /\ Tail(u) \in Seq(S) /\ Len(Tail(u)) = Len(u) - 1
      /\ \A i \in 1 .. Len(Tail(u)) : Tail(u)[i] = u[i + 1]
  BY HeadTailProperties
<1>2. Len(u) \in Nat /\ Len(s) \in Nat /\ Head(u) = u[1] /\ Len(u) # 0
  BY EmptySeq
<1> DEFINE a == Append(s, Head(u))
<1>3. /\ a \in Seq(S) /\ Len(a) = Len(s) + 1
      /\ \A i \in 1 .. Len(s) : a[i] = s[i]
      /\ a[Len(s) + 1] = u[1]
  BY <1>1, <1>2
<1> DEFINE l == a \o Tail(u)
           r == s \o u
<1>4. /\ l \in Seq(S) /\ Len(l) = Len(a) + Len(Tail(u))
      /\ \A i \in 1 .. Len(a) + Len(Tail(u)) :
           l[i] = IF i <= Len(a) THEN a[i] ELSE Tail(u)[i - Len(a)]
  <2> HIDE DEF a
  <2> QED
    BY <1>1, <1>3, ConcatProperties
<1>5. /\ r \in Seq(S) /\ Len(r) = Len(s) + Len(u)
      /\ \A i \in 1 .. Len(s) + Len(u) :
           r[i] = IF i <= Len(s) THEN s[i] ELSE u[i - Len(s)]
  BY ConcatProperties
<1>6. Len(l) = Len(r)
  BY <1>1, <1>2, <1>3, <1>4, <1>5
<1>7. ASSUME NEW i \in 1 .. Len(l)
      PROVE  l[i] = r[i]
  <2>1. i \in Nat /\ 1 <= i /\ i <= Len(s) + Len(u)
    BY <1>5, <1>6, <1>2
  <2>2. CASE i <= Len(s)
    <3> HIDE DEF a, l, r
    <3> QED
      BY <1>1, <1>2, <1>3, <1>4, <1>5, <2>1, <2>2
  <2>3. CASE i = Len(s) + 1
    <3> HIDE DEF a, l, r
    <3> QED
      BY <1>1, <1>2, <1>3, <1>4, <1>5, <2>1, <2>3
  <2>4. CASE i > Len(s) + 1
    <3>1. /\ i - Len(a) \in 1 .. Len(Tail(u))
          /\ i - Len(a) + 1 = i - Len(s)
      BY <1>1, <1>2, <1>3, <2>1, <2>4
    <3>2. l[i] = Tail(u)[i - Len(a)]
      <4> HIDE DEF a, l
      <4> QED
        BY <1>1, <1>2, <1>3, <1>4, <2>1, <2>4
    <3>3. r[i] = u[i - Len(s)]
      <4> HIDE DEF r
      <4> QED
        BY <1>2, <1>5, <2>1, <2>4
    <3> HIDE DEF a, l, r
    <3> QED
      BY <1>1, <3>1, <3>2, <3>3
  <2> QED
    BY <1>2, <2>1, <2>2, <2>3, <2>4
<1> HIDE DEF a, l, r
<1>8. l = r
  BY <1>4, <1>5, <1>6, <1>7, SeqEqual
<1> QED
  BY <1>8 DEF l, r, a

(* Nothing is padded at the close of a file that is not edited.            *)
UneditedOK == Unedited => /\ made \o input = given
                          /\ ~ (padding /\ mode = "write")

LEMMA InitUnedited == EditInit => UneditedOK
<1> SUFFICES ASSUME EditInit PROVE UneditedOK
  OBVIOUS
<1>1. made = <<>> /\ given = input /\ padding = FALSE
  BY DEF EditInit
<1>2. input \in Seq(Traces)
  BY InitIInv DEF IInv, EditTypeOK
<1> QED
  BY <1>1, <1>2, ConcatEmptySeq DEF UneditedOK

LEMMA StepUnedited ==
  ASSUME IInv, UneditedOK, [EditNext]_editVars
  PROVE  UneditedOK'
<1> SUFFICES ASSUME Unedited'
             PROVE  (made \o input = given /\ ~ (padding /\ mode = "write"))'
  BY DEF UneditedOK
<1>1. EditTypeOK
  BY DEF IInv
<1>2. flags' = flags /\ given' = given
  BY DEF EditNext, EditStep, Recycle, ReadCall, ReadTrace, ReadDiscard,
         ReadError, ReadPad, ReadEnd, WriteCall, WriteTrace, WriteDiscard,
         WriteError, WriteFails, CloseFlush, DummyReached, Close, editVars
<1>3. mode' = mode \/ mode = "write"
  BY DEF EditNext, EditStep, Recycle, ReadCall, ReadTrace, ReadDiscard,
         ReadError, ReadPad, ReadEnd, WriteCall, WriteTrace, WriteDiscard,
         WriteError, WriteFails, CloseFlush, DummyReached, Close, editVars
<1>4. Unedited
  BY <1>2, <1>3 DEF Unedited
<1>5. made \o input = given /\ ~ (padding /\ mode = "write")
  BY <1>4 DEF UneditedOK
<1>6. input # <<>> => Verdict(Head(input)) = "accept"
                      /\ Forced(Head(input)) = Head(input)
  BY <1>1, <1>4, HeadOK, UneditedVerdict
<1>7. input # <<>> => Append(made, Head(input)) \o Tail(input) = made \o input
  BY <1>1, PassedOn DEF EditTypeOK
<1>8. CASE ReadTrace \/ WriteTrace
  <2>1. input # <<>>
    BY <1>8, WriteHead DEF ReadTrace, WriteTrace
  <2>2. made' = Append(made, Head(input)) /\ input' = Tail(input)
    BY <1>6, <1>8, <2>1 DEF ReadTrace, WriteTrace
  <2>3. padding' = padding /\ mode' = mode
    BY <1>8 DEF ReadTrace, WriteTrace
  <2> QED
    BY <1>2, <1>5, <1>7, <2>1, <2>2, <2>3
<1>9. CASE ReadCall \/ ReadEnd
  BY <1>5, <1>9 DEF ReadCall, ReadEnd
<1>10. CASE WriteCall \/ WriteFails \/ Close
  <2>1. /\ UNCHANGED <<made, input, given, padding>>
        /\ mode = "write" /\ mode' \in {"write", "closed"}
    BY <1>10 DEF WriteCall, WriteFails, Close
  <2>2. mode' = "write" => mode = "write"
    BY <2>1
  <2> QED
    BY <1>5, <2>1, <2>2, Zenon
<1>11. ~ (Recycle \/ ReadDiscard \/ ReadError)
  BY <1>6 DEF Recycle, ReadDiscard, ReadError
<1>12. ~ (WriteDiscard \/ WriteError \/ DummyReached)
  BY <1>5, <1>6, WriteHead DEF WriteDiscard, WriteError, DummyReached
<1>13. ~ ReadPad
  <2>1. mode = "read" => Dense = {}
    BY <1>4 DEF Dense, Unedited
  <2> QED
    BY <2>1 DEF ReadPad, MoreDead
<1>14. ~ CloseFlush
  <2>1. flags.sort \ flags.sparse = {}
    BY <1>1, <1>4 DEF Unedited, EditTypeOK, Flags
  <2> QED
    BY <2>1 DEF CloseFlush, FlushPad
<1>15. CASE UNCHANGED editVars
  BY <1>5, <1>15 DEF editVars
<1> QED
  BY <1>8, <1>9, <1>10, <1>11, <1>12, <1>13, <1>14, <1>15 DEF EditNext, EditStep

(* A binary that is not edited passes every trace exactly once, in order   *)
(* and unchanged, whatever the cube is and however the calls cut it.       *)
THEOREM NoEditPasses == EditSpec => []AsIs
<1>1. EditInit => UneditedOK
  BY InitUnedited
<1>2. IInv /\ UneditedOK /\ [EditNext]_editVars => UneditedOK'
  BY StepUnedited
<1>3. UneditedOK => AsIs
  BY DEF UneditedOK, AsIs
<1> QED
  BY <1>1, <1>2, <1>3, AlwaysIInv, PTL DEF EditSpec

-----------------------------------------------------------------------------
(* Numbers                                                                 *)

LEMMA QuotientOf ==
  ASSUME NEW a \in Nat, NEW b \in Nat \ {0}, NEW q \in Nat,
         NEW r \in 0 .. b - 1, a = b * q + r
  PROVE  a \div b = q /\ a % b = r
<1> DEFINE p == a \div b
           s == a % b
<1>1. p \in Nat /\ s \in 0 .. b - 1 /\ a = b * p + s
  OBVIOUS
<1> HIDE DEF p, s
<1>2. b * (p - q) = r - s
  BY <1>1
<1>3. CASE p - q >= 1
  <2>1. p - q - 1 \in Nat
    BY <1>1, <1>3
  <2>2. b * (p - q) = b + b * (p - q - 1) /\ b * (p - q - 1) \in Nat
    BY <1>1, <2>1
  <2> QED
    BY <1>1, <1>2, <2>2
<1>4. CASE p - q <= -1
  <2>1. q - p - 1 \in Nat
    BY <1>1, <1>4
  <2>2. b * (p - q) = - b - b * (q - p - 1) /\ b * (q - p - 1) \in Nat
    BY <1>1, <2>1
  <2> QED
    BY <1>1, <1>2, <2>2
<1>5. CASE p - q = 0
  <2>1. p = q
    BY <1>1, <1>5
  <2>2. b * (p - q) = 0
    BY <1>5
  <2> QED
    BY <1>1, <1>2, <2>1, <2>2 DEF p, s
<1> QED
  BY <1>1, <1>3, <1>4, <1>5

LEMMA QuotientType ==
  ASSUME NEW a \in Nat, NEW b \in Nat \ {0}
  PROVE  /\ a \div b \in Nat /\ a % b \in 0 .. b - 1
         /\ a = b * (a \div b) + (a % b)
OBVIOUS

(* The next number has the next digit, and carries if that is the size.    *)
LEMMA NextQuotient ==
  ASSUME NEW a \in Nat, NEW b \in Nat \ {0}
  PROVE  /\ (a % b) + 1 >= b => (a + 1) \div b = (a \div b) + 1 /\ (a + 1) % b = 0
         /\ (a % b) + 1 < b => (a + 1) \div b = a \div b /\ (a + 1) % b = (a % b) + 1
<1> DEFINE q == a \div b
           r == a % b
<1>1. q \in Nat /\ r \in 0 .. b - 1 /\ a = b * q + r
  OBVIOUS
<1>2. a \div b = q /\ a % b = r
  OBVIOUS
<1> HIDE DEF q, r
<1>3. ASSUME r + 1 >= b
      PROVE  (a + 1) \div b = q + 1 /\ (a + 1) % b = 0
  <2>1. b * (q + 1) = b * q + b
    BY <1>1
  <2>2. a + 1 = b * (q + 1) + 0 /\ a + 1 \in Nat /\ q + 1 \in Nat /\ 0 \in 0 .. b - 1
    BY <1>1, <1>3, <2>1
  <2> QED
    BY <2>2, QuotientOf
<1>4. ASSUME r + 1 < b
      PROVE  (a + 1) \div b = q /\ (a + 1) % b = r + 1
  <2>1. a + 1 = b * q + (r + 1) /\ a + 1 \in Nat /\ r + 1 \in 0 .. b - 1
    BY <1>1, <1>4
  <2> QED
    BY <1>1, <2>1, QuotientOf
<1> QED
  BY <1>2, <1>3, <1>4

(* To divide twice is to divide by the product.                            *)
LEMMA QuotientTwice ==
  ASSUME NEW n \in Nat, NEW a \in Nat \ {0}, NEW b \in Nat \ {0}
  PROVE  n \div (a * b) = (n \div a) \div b
<1> DEFINE m == n \div a
           r == n % a
           q == m \div b
           s == m % b
<1>1. m \in Nat /\ r \in 0 .. a - 1 /\ n = a * m + r
  BY QuotientType
<1>2. q \in Nat /\ s \in 0 .. b - 1 /\ m = b * q + s
  BY <1>1, QuotientType
<1>3. (n \div a) \div b = q
  OBVIOUS
<1> HIDE DEF m, r, q, s
<1>4. a * m = (a * b) * q + a * s
  <2>1. a * (b * q + s) = a * (b * q) + a * s
    BY <1>2
  <2>2. a * (b * q) = (a * b) * q
    BY <1>2
  <2> QED
    BY <1>2, <2>1, <2>2
<1>5. a * b \in Nat \ {0} /\ a * s \in Nat
  BY <1>2
<1>6. a * s + r \in 0 .. a * b - 1
  <2>1. b - 1 - s \in Nat
    BY <1>2
  <2>2. a * b = a * s + a + a * (b - 1 - s) /\ a * (b - 1 - s) \in Nat
    BY <1>2, <2>1
  <2> QED
    BY <1>1, <1>5, <2>2
<1>7. n = (a * b) * q + (a * s + r)
  <2> DEFINE x == (a * b) * q
             y == a * s
  <2>1. x \in Nat /\ y \in Nat /\ a * m = x + y
    BY <1>2, <1>4, <1>5
  <2> HIDE DEF x, y
  <2>2. n = x + (y + r)
    BY <1>1, <2>1
  <2> QED
    BY <2>2 DEF x, y
<1> QED
  BY <1>2, <1>3, <1>5, <1>6, <1>7, QuotientOf

(* Of the numbers with a property there is a least one.                    *)
LEMMA LeastNumber ==
  ASSUME NEW T \in SUBSET Nat, T # {}
  PROVE  \E m \in T : \A k \in T : m <= k
<1> DEFINE R == OpToRel(<, Nat)
<1>1. IsWellFoundedOn(R, Nat)
  BY NatLessThanWellFounded
<1>2. \A x, y \in Nat : <<y, x>> \in R <=> y < x
  BY DEF OpToRel
<1> HIDE DEF R
<1>3. PICK m \in T : \A k \in T : ~ (<<k, m>> \in R)
  BY <1>1, WFMin
<1>4. \A k \in T : ~ (k < m)
  BY <1>2, <1>3
<1> QED
  BY <1>4

(* The places a step on each axis is worth, for the first n axes.          *)
StridesTo(n, f) ==
  f = [r \in 1 .. n |-> IF r = 1 THEN 1 ELSE f[r - 1] * Size[r - 1]]

LEMMA StrideIs ==
  ASSUME NEW f, StridesTo(Rank + 1, f)
  PROVE  StridesTo(Rank + 1, Stride)
BY DEF Stride, StridesTo

(* There is such a function, for there is no first n without one.          *)
LEMMA StridesExist == \A n \in Nat : \E f : StridesTo(n, f)
<1> DEFINE T == {n \in Nat : ~ \E f : StridesTo(n, f)}
<1>1. T = {}
  <2> SUFFICES ASSUME T # {} PROVE FALSE
    OBVIOUS
  <2>1. T \in SUBSET Nat
    OBVIOUS
  <2>2. PICK m \in T : \A k \in T : m <= k
    BY <2>1, LeastNumber
  <2>3. m # 0
    <3> DEFINE f == [r \in 1 .. 0 |-> 1]
    <3>1. StridesTo(0, f)
      BY DEF StridesTo
    <3> QED
      BY <3>1
  <2>4. m - 1 \in Nat /\ m - 1 \notin T
    BY <2>1, <2>2, <2>3
  <2>5. PICK f : StridesTo(m - 1, f)
    BY <2>4
  <2> DEFINE e(r) == IF r = 1 THEN 1 ELSE f[r - 1] * Size[r - 1]
             g == [r \in 1 .. m |-> e(r)]
  <2>6. \A r \in 1 .. m - 1 : f[r] = e(r)
    BY <2>5 DEF StridesTo
  <2>7. \A r \in 1 .. m : r # 1 => g[r - 1] = f[r - 1]
    <3> SUFFICES ASSUME NEW r \in 1 .. m, r # 1
                 PROVE  g[r - 1] = f[r - 1]
      OBVIOUS
    <3>1. r - 1 \in 1 .. m - 1 /\ r - 1 \in 1 .. m
      BY <2>4
    <3>2. g[r - 1] = e(r - 1)
      BY <3>1
    <3> QED
      BY <2>6, <3>1, <3>2
  <2>8. \A r \in 1 .. m : e(r) = IF r = 1 THEN 1 ELSE g[r - 1] * Size[r - 1]
    <3> HIDE DEF g
    <3> QED
      BY <2>7
  <2>9. StridesTo(m, g)
    BY <2>8 DEF StridesTo
  <2> QED
    BY <2>2, <2>9
<1> QED
  BY <1>1

LEMMA StrideSteps ==
  /\ Stride[1] = 1
  /\ \A r \in Axes : Stride[r + 1] = Stride[r] * Size[r]
<1>1. Rank + 1 \in Nat /\ Rank \in Nat /\ Rank > 0
  BY CubeAssumption
<1>2. PICK f : StridesTo(Rank + 1, f)
  BY <1>1, StridesExist
<1>3. StridesTo(Rank + 1, Stride)
  BY <1>2, StrideIs
<1> HIDE DEF Stride
<1>4. \A r \in 1 .. Rank + 1 :
        Stride[r] = IF r = 1 THEN 1 ELSE Stride[r - 1] * Size[r - 1]
  BY <1>3 DEF StridesTo
<1>5. \A r \in Axes : /\ r + 1 \in 1 .. Rank + 1 /\ r + 1 # 1
                      /\ (r + 1) - 1 = r
  BY <1>1 DEF Axes
<1>6. 1 \in 1 .. Rank + 1
  BY <1>1
<1> QED
  BY <1>4, <1>5, <1>6

LEMMA StrideType == \A r \in 1 .. Rank + 1 : Stride[r] \in Nat \ {0}
<1> DEFINE T == {r \in 1 .. Rank + 1 : Stride[r] \notin Nat \ {0}}
<1>1. Rank \in Nat /\ Rank > 0
  BY CubeAssumption
<1>2. T = {}
  <2> SUFFICES ASSUME T # {} PROVE FALSE
    OBVIOUS
  <2>1. T \in SUBSET Nat
    BY <1>1
  <2>2. PICK m \in T : \A k \in T : m <= k
    BY <2>1, LeastNumber
  <2>3. m # 1
    BY StrideSteps
  <2>4. m - 1 \in Axes /\ m - 1 \in 1 .. Rank + 1 /\ m - 1 \notin T
    BY <1>1, <2>2, <2>3 DEF Axes
  <2>5. Stride[m - 1] \in Nat \ {0} /\ Size[m - 1] \in Nat \ {0}
    BY <2>4, CubeAssumption
  <2>6. Stride[m] = Stride[m - 1] * Size[m - 1]
    <3>1. (m - 1) + 1 = m
      BY <2>1
    <3> QED
      BY <2>4, <3>1, StrideSteps
  <2> QED
    BY <2>2, <2>5, <2>6
<1> QED
  BY <1>2

-----------------------------------------------------------------------------
(* Counting.  The ordinals are the digits of a number, with the sizes of   *)
(* the axes for bases; of the highest axis there is no end.                *)
Digit(n, r) ==
  IF r < Rank THEN (n \div Stride[r]) % Size[r] ELSE n \div Stride[r]

(* The axes up to R count the traces.                                      *)
Counts(ord, n, R) == \A r \in 1 .. R : ord[r] = Digit(n, r)

(* What is expected after a trace that carries to an axis.                 *)
Incremented(ord, top) ==
  [r \in Axes |-> IF r < top THEN 0 ELSE IF r = top THEN ord[r] + 1 ELSE ord[r]]

LEMMA QuotientAbove ==
  ASSUME NEW n \in Nat, NEW r \in Axes
  PROVE  /\ n \div Stride[r] \in Nat
         /\ n \div Stride[r + 1] = (n \div Stride[r]) \div Size[r]
<1>1. Stride[r] \in Nat \ {0} /\ Size[r] \in Nat \ {0}
  BY StrideType, CubeAssumption DEF Axes
<1>2. Stride[r + 1] = Stride[r] * Size[r]
  BY StrideSteps
<1>3. PICK a \in Nat \ {0} : a = Stride[r]
  BY <1>1
<1>4. n \div a \in Nat
  BY QuotientType
<1>5. n \div (a * Size[r]) = (n \div a) \div Size[r]
  BY <1>1, QuotientTwice
<1> QED
  BY <1>2, <1>3, <1>4, <1>5

(* Every axis up to the one that is carried to goes on by one,             *)
LEMMA CountsOn ==
  ASSUME NEW n \in Nat, NEW ord, NEW R \in 0 .. Rank, Counts(ord, n, R),
         NEW top \in Axes, CarriedTo(top, ord),
         NEW r \in Axes, r <= top, r <= R + 1
  PROVE  (n + 1) \div Stride[r] = (n \div Stride[r]) + 1
<1> DEFINE T == {q \in 1 .. r : (n + 1) \div Stride[q] # (n \div Stride[q]) + 1}
<1>1. Rank \in Nat /\ Rank > 0 /\ Axes = 1 .. Rank
  BY CubeAssumption DEF Axes
<1>2. T = {}
  <2> SUFFICES ASSUME T # {} PROVE FALSE
    OBVIOUS
  <2>1. T \in SUBSET Nat
    BY <1>1
  <2>2. PICK m \in T : \A k \in T : m <= k
    BY <2>1, LeastNumber
  <2>3. m # 1
    <3>1. (n + 1) \div 1 = n + 1 /\ n \div 1 = n
      OBVIOUS
    <3> QED
      BY <3>1, StrideSteps
  <2>4. PICK q : q = m - 1
    OBVIOUS
  <2>5. q \in Axes /\ q \in 1 .. r /\ q \notin T /\ q + 1 = m
        /\ q < top /\ q < Rank /\ q \in 1 .. R
    BY <1>1, <2>2, <2>3, <2>4
  <2>6. (n + 1) \div Stride[q] = (n \div Stride[q]) + 1
    BY <2>5
  <2> DEFINE a == n \div Stride[q]
  <2>7. a \in Nat /\ Size[q] \in Nat \ {0}
    BY <2>5, QuotientAbove, CubeAssumption
  <2>8. n \div Stride[m] = a \div Size[q]
        /\ (n + 1) \div Stride[m] = (a + 1) \div Size[q]
    <3>1. n + 1 \in Nat
      OBVIOUS
    <3> QED
      BY <2>5, <2>6, <3>1, QuotientAbove
  <2>9. ord[q] = a % Size[q]
    BY <1>1, <2>5 DEF Counts, Digit
  <2>10. ord[q] + 1 >= Size[q]
    BY <1>1, <2>5 DEF CarriedTo
  <2> HIDE DEF a
  <2>11. (a + 1) \div Size[q] = (a \div Size[q]) + 1
    BY <2>7, <2>9, <2>10, NextQuotient
  <2> QED
    BY <2>2, <2>8, <2>11
<1> QED
  BY <1>1, <1>2

(* and those above it stay.                                                *)
LEMMA CountsStay ==
  ASSUME NEW n \in Nat, NEW ord, NEW R \in 0 .. Rank, Counts(ord, n, R),
         NEW top \in Axes, CarriedTo(top, ord),
         NEW r \in Axes, top < r, r <= R
  PROVE  (n + 1) \div Stride[r] = n \div Stride[r]
<1> DEFINE T == {q \in top + 1 .. r : (n + 1) \div Stride[q] # n \div Stride[q]}
<1>1. Rank \in Nat /\ Rank > 0 /\ Axes = 1 .. Rank
  BY CubeAssumption DEF Axes
<1>2. T = {}
  <2> SUFFICES ASSUME T # {} PROVE FALSE
    OBVIOUS
  <2>1. T \in SUBSET Nat
    BY <1>1
  <2>2. PICK m \in T : \A k \in T : m <= k
    BY <2>1, LeastNumber
  <2>3. PICK q : q = m - 1
    OBVIOUS
  <2>4. q \in Axes /\ q + 1 = m /\ q < Rank /\ q \in 1 .. R /\ top <= q
    BY <1>1, <2>2, <2>3
  <2> DEFINE a == n \div Stride[q]
             b == (n + 1) \div Stride[q]
  <2>5. a \in Nat /\ Size[q] \in Nat \ {0}
    BY <2>4, QuotientAbove, CubeAssumption
  <2>6. n \div Stride[m] = a \div Size[q] /\ (n + 1) \div Stride[m] = b \div Size[q]
    <3>1. n + 1 \in Nat
      OBVIOUS
    <3> QED
      BY <2>4, <3>1, QuotientAbove
  <2>7. CASE q = top
    <3>1. b = a + 1
      BY <1>1, <2>4, <2>7, CountsOn
    <3>2. ord[q] = a % Size[q]
      BY <1>1, <2>4 DEF Counts, Digit
    <3>3. ord[q] + 1 < Size[q]
      BY <1>1, <2>4, <2>7 DEF CarriedTo
    <3> HIDE DEF a, b
    <3>4. (a + 1) \div Size[q] = a \div Size[q]
      BY <2>5, <3>2, <3>3, NextQuotient
    <3> QED
      BY <2>2, <2>6, <3>1, <3>4
  <2>8. CASE q # top
    <3>1. q \in top + 1 .. r /\ q \notin T
      BY <1>1, <2>2, <2>3, <2>4, <2>8
    <3>2. a = b
      BY <3>1
    <3> QED
      BY <2>2, <2>6, <3>2
  <2> QED
    BY <2>7, <2>8
<1>3. r \in top + 1 .. r
  BY <1>1
<1> QED
  BY <1>2, <1>3

(* ddsCubeInc counts: the ordinals of the next trace are the next number.  *)
LEMMA CubeCounts ==
  ASSUME NEW n \in Nat, NEW ord, NEW R \in 0 .. Rank, Counts(ord, n, R),
         NEW top \in Axes, CarriedTo(top, ord)
  PROVE  Counts(Incremented(ord, top), n + 1, R)
<1>1. Rank \in Nat /\ Rank > 0 /\ Axes = 1 .. Rank
  BY CubeAssumption DEF Axes
<1> SUFFICES ASSUME NEW r \in 1 .. R
             PROVE  Incremented(ord, top)[r] = Digit(n + 1, r)
  BY DEF Counts
<1>2. r \in Axes /\ r \in Nat /\ top \in Nat
  BY <1>1
<1>3. Incremented(ord, top)[r]
        = IF r < top THEN 0 ELSE IF r = top THEN ord[r] + 1 ELSE ord[r]
  BY <1>2 DEF Incremented
<1>4. ord[r] = Digit(n, r)
  BY DEF Counts
<1> DEFINE a == n \div Stride[r]
           b == (n + 1) \div Stride[r]
<1>5. a \in Nat /\ Size[r] \in Nat \ {0}
  BY <1>2, QuotientAbove, CubeAssumption
<1>6. /\ Digit(n, r) = IF r < Rank THEN a % Size[r] ELSE a
      /\ Digit(n + 1, r) = IF r < Rank THEN b % Size[r] ELSE b
  BY DEF Digit
<1>7. r <= top => b = a + 1
  BY <1>1, <1>2, CountsOn
<1>8. top < r => b = a
  BY <1>2, CountsStay
<1>9. /\ r < top => ord[r] + 1 >= Size[r]
      /\ r = top => ord[r] + 1 < Size[r] \/ r = Rank
  BY <1>1, <1>2 DEF CarriedTo
<1> HIDE DEF a, b
<1>10. /\ (a % Size[r]) + 1 >= Size[r] => (a + 1) % Size[r] = 0
       /\ (a % Size[r]) + 1 < Size[r] => (a + 1) % Size[r] = (a % Size[r]) + 1
  BY <1>5, NextQuotient
<1>11. CASE r < top
  BY <1>1, <1>2, <1>3, <1>4, <1>6, <1>7, <1>9, <1>10, <1>11
<1>12. CASE r = top
  BY <1>1, <1>2, <1>3, <1>4, <1>6, <1>7, <1>9, <1>10, <1>12
<1>13. CASE top < r
  BY <1>1, <1>2, <1>3, <1>4, <1>6, <1>8, <1>13
<1> QED
  BY <1>2, <1>11, <1>12, <1>13

-----------------------------------------------------------------------------
(* Traces in regular order                                                 *)

LEMMA RegularIs ==
  /\ Regular \in 0 .. Rank
  /\ \A r \in 1 .. Regular : r \in Axes /\ Strict(r)
  /\ Regular < Rank => ~ Strict(Regular + 1)
<1> DEFINE Fits(n) == (\A r \in 1 .. n : Strict(r)) /\ (n < Rank => ~ Strict(n + 1))
           T == {n \in 0 .. Rank : n < Rank => ~ Strict(n + 1)}
<1>1. Rank \in Nat /\ Rank > 0 /\ Axes = 1 .. Rank
  BY CubeAssumption DEF Axes
<1>2. T \in SUBSET Nat /\ Rank \in T
  BY <1>1
<1>3. PICK m \in T : \A k \in T : m <= k
  BY <1>2, LeastNumber
<1>4. \A r \in 1 .. m : Strict(r)
  <2> SUFFICES ASSUME NEW r \in 1 .. m
               PROVE  Strict(r)
    OBVIOUS
  <2>1. r - 1 \in 0 .. Rank /\ r - 1 \notin T /\ (r - 1) + 1 = r
    BY <1>1, <1>3
  <2> QED
    BY <2>1
<1>5. m \in 0 .. Rank /\ Fits(m)
  BY <1>3, <1>4
<1>6. Regular = CHOOSE n \in 0 .. Rank : Fits(n)
  BY DEF Regular
<1> HIDE DEF Fits
<1>7. Regular \in 0 .. Rank /\ Fits(Regular)
  BY <1>5, <1>6
<1> QED
  BY <1>1, <1>7 DEF Fits

(* What is expected on an axis of strict order is not changed by an edit.  *)
LEMMA FollowKeeps ==
  ASSUME NEW t, NEW r \in Axes, Strict(r)
  PROVE  Remedy(t, r) # "follow" /\ Follow(t)[r] = ordinal[r]
<1>1. Remedy(t, r) # "follow"
  BY DEF Remedy, Strict
<1> QED
  BY <1>1 DEF Follow, Followed

LEMMA DeciderType ==
  ASSUME NEW t
  PROVE  /\ Decider(t) \in Nat /\ Decider(t) >= 1
         /\ Deciding(t) # {} => Decider(t) \in Deciding(t) /\ Decider(t) \in Axes
         /\ \A r \in Deciding(t) : Decider(t) <= r
<1>1. Rank \in Nat /\ Axes = 1 .. Rank
  BY CubeAssumption DEF Axes
<1>2. CASE Deciding(t) = {}
  BY <1>1, <1>2 DEF Decider
<1>3. CASE Deciding(t) # {}
  <2>1. Deciding(t) \in SUBSET Nat /\ Deciding(t) \subseteq Axes
    BY <1>1 DEF Deciding
  <2>2. \E m \in Deciding(t) : \A k \in Deciding(t) : m <= k
    BY <1>3, <2>1, LeastNumber
  <2>3. Decider(t) = CHOOSE r \in Deciding(t) : \A q \in Deciding(t) : r <= q
    BY <1>3 DEF Decider, Lowest
  <2>4. Decider(t) \in Deciding(t) /\ \A q \in Deciding(t) : Decider(t) <= q
    BY <2>2, <2>3
  <2> QED
    BY <1>1, <2>1, <2>4
<1> QED
  BY <1>2, <1>3

(* The axes of the first n that give way to a trace when a dead one is     *)
(* inserted before it.                                                     *)
YieldsTo(t, n, f) ==
  f = [j \in 1 .. n |->
         /\ j \in flags.sort \ Dense
         /\ \/ j <= Decider(t)
            \/ f[j - 1] /\ Remainder(Index(t, j - 1), Size[j - 1]) = 0
            \/ ~ f[j - 1] /\ Follow(t)[j - 1] = 0]

(* There is such a function, as of the strides.                            *)
LEMMA YieldsExist == \A t, n : n \in Nat => \E f : YieldsTo(t, n, f)
<1> SUFFICES ASSUME NEW t
             PROVE  \A n \in Nat : \E f : YieldsTo(t, n, f)
  OBVIOUS
<1> DEFINE T == {n \in Nat : ~ \E f : YieldsTo(t, n, f)}
<1>1. T = {}
  <2> SUFFICES ASSUME T # {} PROVE FALSE
    OBVIOUS
  <2>1. T \in SUBSET Nat
    OBVIOUS
  <2>2. PICK m \in T : \A k \in T : m <= k
    BY <2>1, LeastNumber
  <2>3. m # 0
    <3> DEFINE f == [r \in 1 .. 0 |-> FALSE]
    <3>1. YieldsTo(t, 0, f)
      BY DEF YieldsTo
    <3> QED
      BY <3>1
  <2>4. m - 1 \in Nat /\ m - 1 \notin T
    BY <2>1, <2>2, <2>3
  <2>5. PICK f : YieldsTo(t, m - 1, f)
    BY <2>4
  <2> DEFINE e(j, y) ==
               /\ j \in flags.sort \ Dense
               /\ \/ j <= Decider(t)
                  \/ y /\ Remainder(Index(t, j - 1), Size[j - 1]) = 0
                  \/ ~ y /\ Follow(t)[j - 1] = 0
             g == [j \in 1 .. m |-> e(j, f[j - 1])]
  <2>6. \A r \in 1 .. m - 1 : f[r] = e(r, f[r - 1])
    BY <2>5, Zenon DEF YieldsTo
  <2>7. \A r \in 1 .. m : r # 1 => g[r - 1] = f[r - 1]
    <3> SUFFICES ASSUME NEW r \in 1 .. m, r # 1
                 PROVE  g[r - 1] = f[r - 1]
      OBVIOUS
    <3>1. r - 1 \in 1 .. m - 1 /\ r - 1 \in 1 .. m
      BY <2>4
    <3>2. g[r - 1] = e(r - 1, f[(r - 1) - 1])
      BY <3>1, Zenon
    <3> HIDE DEF g, e
    <3> QED
      BY <2>6, <3>1, <3>2
  <2>8. \A r \in 1 .. m : e(r, f[r - 1]) = e(r, g[r - 1])
    <3> SUFFICES ASSUME NEW r \in 1 .. m
                 PROVE  e(r, f[r - 1]) = e(r, g[r - 1])
      OBVIOUS
    <3>1. CASE r = 1
      <4>1. r <= Decider(t)
        BY <3>1, DeciderType
      <4> HIDE DEF g
      <4> QED
        BY <4>1, Zenon
    <3>2. CASE r # 1
      <4> HIDE DEF g, e
      <4> QED
        BY <2>7, <3>2
    <3> QED
      BY <3>1, <3>2
  <2>9. YieldsTo(t, m, g)
    BY <2>8, Zenon DEF YieldsTo
  <2> QED
    BY <2>2, <2>9
<1> QED
  BY <1>1

(* A dense axis does not give way.                                         *)
LEMMA InsertedKeeps ==
  ASSUME NEW t, NEW r \in Axes, r \in Dense
  PROVE  Inserted(t)[r] = Follow(t)[r]
<1> DEFINE trace == [j \in Axes |-> Remainder(Index(t, j), Size[j])]
           Yields(f) ==
             f = [j \in Axes |->
                    /\ j \in flags.sort \ Dense
                    /\ \/ j <= Decider(t)
                       \/ f[j - 1] /\ trace[j - 1] = 0
                       \/ ~ f[j - 1] /\ Follow(t)[j - 1] = 0]
           y == CHOOSE f : Yields(f)
<1>1. Inserted(t) = [j \in Axes |-> IF y[j] THEN trace[j] ELSE Follow(t)[j]]
  BY DEF Inserted
<1>2. \E f : Yields(f)
  <2>1. Rank \in Nat /\ Rank > 0 /\ Axes = 1 .. Rank
    BY CubeAssumption DEF Axes
  <2>2. PICK f : YieldsTo(t, Rank, f)
    BY <2>1, YieldsExist
  <2> DEFINE e(j, v) ==
               /\ j \in flags.sort \ Dense
               /\ \/ j <= Decider(t)
                  \/ f[j - 1] /\ v = 0
                  \/ ~ f[j - 1] /\ Follow(t)[j - 1] = 0
  <2>3. f = [j \in Axes |-> e(j, Remainder(Index(t, j - 1), Size[j - 1]))]
    BY <2>1, <2>2, Zenon DEF YieldsTo
  <2>4. \A j \in Axes :
          e(j, Remainder(Index(t, j - 1), Size[j - 1])) = e(j, trace[j - 1])
    <3> SUFFICES ASSUME NEW j \in Axes
                 PROVE  e(j, Remainder(Index(t, j - 1), Size[j - 1]))
                          = e(j, trace[j - 1])
      OBVIOUS
    <3>1. CASE j = 1
      <4>1. j <= Decider(t)
        BY <3>1, DeciderType
      <4> HIDE DEF trace
      <4> QED
        BY <4>1, Zenon
    <3>2. CASE j # 1
      <4>1. j - 1 \in Axes
        BY <2>1, <3>2
      <4>2. trace[j - 1] = Remainder(Index(t, j - 1), Size[j - 1])
        BY <4>1, Zenon
      <4> QED
        BY <4>2, Zenon
    <3> QED
      BY <3>1, <3>2
  <2>5. f = [j \in Axes |-> e(j, trace[j - 1])]
    <3> HIDE DEF trace, e
    <3> QED
      BY <2>3, <2>4, Zenon
  <2>6. Yields(f)
    <3> HIDE DEF trace
    <3> QED
      BY <2>5, Zenon
  <2> QED
    BY <2>6
<1> HIDE DEF Yields, trace
<1>3. Yields(y)
  BY <1>2
<1>4. ~ y[r]
  BY <1>3, Zenon DEF Yields
<1> HIDE DEF y
<1> QED
  BY <1>1, <1>4

LEMMA EditedKeeps ==
  ASSUME NEW t, NEW r \in Axes, Strict(r)
  PROVE  Edited(t)[r] = ordinal[r]
<1>1. CASE ~ Gross(t) /\ Deciding(t) # {} /\ ~ OutOfSync(t, Decider(t))
           /\ Remedy(t, Decider(t)) = "dead"
  <2>1. Decider(t) \in flags.sort \cap Dense
        /\ Decider(t) \notin flags.error \cup flags.force \cup flags.reject
    BY <1>1 DEF Remedy, Differs
  <2>2. r \in Dense
    BY <2>1 DEF Strict, Filling
  <2>3. Edited(t) = Inserted(t)
    BY <1>1 DEF Edited
  <2> QED
    BY <2>2, <2>3, InsertedKeeps, FollowKeeps
<1>2. CASE ~ (~ Gross(t) /\ Deciding(t) # {} /\ ~ OutOfSync(t, Decider(t))
              /\ Remedy(t, Decider(t)) = "dead")
  <2>1. Edited(t) = Follow(t)
    BY <1>2 DEF Edited
  <2> QED
    BY <2>1, FollowKeeps
<1> QED
  BY <1>1, <1>2

(* A trace that is accepted has the index expected, or one that is outside *)
(* the cube.                                                               *)
LEMMA AcceptedInStep ==
  ASSUME EditTypeOK, NEW t \in Traces, Verdict(t) = "accept",
         NEW r \in Axes, Strict(r), ordinal[r] \in Nat
  PROVE  \/ Forced(t).index[r] = GetExpected(ordinal[r], r)
         \/ ~ Inside(Index(Forced(t), r), r)
<1>1. Deciding(t) = {}
  <2>1. Deciding(t) # {} /\ ~ OutOfSync(t, Decider(t)) =>
          Remedy(t, Decider(t)) \in {"error", "reject", "dead"}
    BY DeciderType DEF Deciding
  <2> QED
    BY <2>1 DEF Verdict
<1>2. Remedy(t, r) \notin {"error", "reject", "dead", "follow"}
  BY <1>1, FollowKeeps DEF Deciding
<1>3. /\ Forced(t).index[r] = IF Remedy(t, r) = "force"
                              THEN GetExpected(ordinal[r], r) ELSE t.index[r]
  BY DEF Forced, Traces
<1>4. Remedy(t, r) \in {"none", "force", "fail"}
  BY <1>2 DEF Remedy
<1>5. Index(Forced(t), r) = GetOrdinal(Forced(t).index[r], r)
      /\ Index(t, r) = GetOrdinal(t.index[r], r)
  BY DEF Index
<1>6. CASE Remedy(t, r) = "force"
  BY <1>3, <1>6
<1>7. CASE Remedy(t, r) = "fail"
  <2>1. ~ Inside(Index(t, r), r)
    BY <1>7 DEF Remedy
  <2> QED
    BY <1>3, <1>5, <1>7, <2>1
<1>8. CASE Remedy(t, r) = "none"
  <2>1. Index(t, r) = ordinal[r]
    BY <1>8 DEF Remedy, Differs, Strict
  <2>2. t.index[r] \in Int /\ Base[r] \in Int
    BY CubeAssumption DEF Traces
  <2>3. t.index[r] = Base[r] + ordinal[r]
    BY <1>5, <2>1, <2>2 DEF GetOrdinal
  <2> QED
    BY <1>3, <1>8, <2>3 DEF GetExpected
<1> QED
  BY <1>4, <1>6, <1>7, <1>8

(* The ordinals expected count the traces made, on the axes whose order is *)
(* enforced; those made are in their places.                               *)
Counted == Counts(ordinal, Len(made), Regular)

LEMMA DigitType ==
  ASSUME NEW n \in Nat, NEW r \in Axes
  PROVE  Digit(n, r) \in Nat
<1>1. n \div Stride[r] \in Nat /\ Size[r] \in Nat \ {0}
  BY QuotientAbove, CubeAssumption
<1>2. PICK a \in Nat : a = n \div Stride[r]
  BY <1>1
<1>3. PICK b \in Nat \ {0} : b = Size[r]
  BY <1>1
<1>4. a % b \in Nat
  BY QuotientType
<1> QED
  BY <1>2, <1>3, <1>4 DEF Digit

LEMMA PointIs ==
  ASSUME NEW n, NEW r \in Axes
  PROVE  Point(n)[r] = GetExpected(Digit(n, r), r)
BY DEF Point, Digit

(* The axes are the same ones as long as the flags are.                    *)
LEMMA SameRegular ==
  ASSUME flags' = flags, mode' = mode \/ (mode = "write" /\ mode' = "closed")
  PROVE  Regular' = Regular
<1>1. Dense' = Dense
  BY DEF Dense
<1>2. Filling' = Filling
  BY <1>1 DEF Filling
<1> QED
  BY <1>1, <1>2 DEF Regular, Strict

(* One trace more, in its place, and the ordinals counted on.              *)
LEMMA OneMore ==
  ASSUME EditTypeOK, Counted, InStep, UNCHANGED <<flags, mode>>,
         NEW t, made' = Append(made, t),
         \A r \in 1 .. Regular :
           \/ t.index[r] = GetExpected(ordinal[r], r)
           \/ ~ Inside(Index(t, r), r),
         NEW ord, \A r \in 1 .. Regular : ord[r] = ordinal[r],
         NEW chg, CubeInc(ord, chg)
  PROVE  Counted' /\ InStep'
<1>1. Regular \in 0 .. Rank /\ \A r \in 1 .. Regular : r \in Axes
  BY RegularIs
<1>2. Regular' = Regular
  <2>1. flags' = flags /\ mode' = mode
    OBVIOUS
  <2> QED
    BY <2>1, SameRegular
<1>3. PICK n \in Nat : n = Len(made)
  BY Typed
<1>4. made \in Seq(Traces) /\ DOMAIN made = 1 .. n
  BY <1>3 DEF EditTypeOK
<1>5. /\ Len(made') = n + 1 /\ DOMAIN made' = 1 .. n + 1
      /\ made'[n + 1] = t /\ \A k \in 1 .. n : made'[k] = made[k]
  BY <1>3, <1>4
<1>6. Counts(ordinal, n, Regular)
  BY <1>3 DEF Counted
<1>7. Counts(ord, n, Regular)
  BY <1>6 DEF Counts
<1>8. PICK top \in Axes : CarriedTo(top, ord) /\ ordinal' = Incremented(ord, top)
  BY DEF CubeInc, Incremented
<1>9. Counts(ordinal', n + 1, Regular)
  BY <1>1, <1>7, <1>8, CubeCounts
<1>10. Counted'
  BY <1>2, <1>5, <1>9 DEF Counted, Counts, Digit, Stride
<1>11. ASSUME NEW k \in 1 .. n + 1, NEW r \in 1 .. Regular
       PROVE  \/ made'[k].index[r] = Point(k - 1)[r]
              \/ ~ Inside(Index(made'[k], r), r)
  <2>1. r \in Axes
    BY <1>1
  <2>2. CASE k = n + 1
    <3>1. made'[k] = t /\ k - 1 = n
      BY <1>5, <2>2
    <3>2. ordinal[r] = Digit(n, r)
      BY <1>6 DEF Counts
    <3>3. Point(n)[r] = GetExpected(ordinal[r], r)
      BY <2>1, <3>2, PointIs
    <3> QED
      BY <3>1, <3>3
  <2>3. CASE k # n + 1
    <3>1. k \in 1 .. n /\ made'[k] = made[k]
      BY <1>5, <2>3
    <3> QED
      BY <1>4, <3>1 DEF InStep
  <2> QED
    BY <2>2, <2>3
<1>12. InStep'
  BY <1>2, <1>5, <1>11 DEF InStep, Point, Stride, GetExpected, Inside, Index, GetOrdinal
<1> QED
  BY <1>10, <1>12

LEMMA NoneMore ==
  ASSUME Counted, InStep, flags' = flags, made' = made,
         mode' = mode \/ (mode = "write" /\ mode' = "closed"),
         \A r \in 1 .. Regular : ordinal'[r] = ordinal[r]
  PROVE  Counted' /\ InStep'
<1>1. Regular' = Regular
  BY SameRegular
<1>2. Counted'
  BY <1>1 DEF Counted, Counts, Digit, Stride
<1>3. InStep'
  BY <1>1 DEF InStep, Point, Stride, GetExpected, Inside, Index, GetOrdinal
<1> QED
  BY <1>2, <1>3

LEMMA InStepStep ==
  ASSUME IInv, Counted, InStep, [EditNext]_editVars
  PROVE  Counted' /\ InStep'
<1>1. EditTypeOK
  BY DEF IInv
<1>2. \A r \in 1 .. Regular : r \in Axes /\ Strict(r)
  BY RegularIs
<1>3. \A t : \A r \in 1 .. Regular : Edited(t)[r] = ordinal[r]
  BY <1>2, EditedKeeps
<1>4. \A r \in 1 .. Regular : ordinal[r] \in Nat
  <2>1. Len(made) \in Nat
    BY <1>1, Typed
  <2> QED
    BY <1>2, <2>1, DigitType DEF Counted, Counts
<1>5. \A t : \A r \in 1 .. Regular :
        DeadTrace(Edited(t)).index[r] = GetExpected(ordinal[r], r)
  BY <1>2, <1>3 DEF DeadTrace
<1>6. CASE ReadTrace \/ WriteTrace
  <2>1. PICK t : t = Head(input)
    OBVIOUS
  <2>2. t \in Traces
    BY <1>1, <1>6, <2>1, HeadOK, WriteHead DEF ReadTrace, WriteTrace
  <2>3. UNCHANGED <<flags, mode>> /\ CubeInc(Edited(t), Pending(t))
    BY <1>6, <2>1 DEF ReadTrace, WriteTrace
  <2>4. CASE Verdict(t) = "accept" /\ made' = Append(made, Forced(t))
    <3>1. \A r \in 1 .. Regular :
            \/ Forced(t).index[r] = GetExpected(ordinal[r], r)
            \/ ~ Inside(Index(Forced(t), r), r)
      BY <1>1, <1>2, <1>4, <2>2, <2>4, AcceptedInStep
    <3> QED
      BY <1>1, <1>3, <2>3, <2>4, <3>1, OneMore
  <2>5. CASE made' = Append(made, DeadTrace(Edited(t)))
    BY <1>1, <1>3, <1>5, <2>3, <2>5, OneMore
  <2> QED
    BY <1>6, <2>1, <2>4, <2>5 DEF ReadTrace, WriteTrace
<1>7. CASE ReadPad
  <2>1. UNCHANGED <<flags, mode>> /\ CubeInc(ordinal, change)
        /\ made' = Append(made, DeadTrace(ordinal))
    BY <1>7 DEF ReadPad
  <2>2. \A r \in 1 .. Regular :
          DeadTrace(ordinal).index[r] = GetExpected(ordinal[r], r)
    BY <1>2 DEF DeadTrace
  <2> QED
    BY <1>1, <2>1, <2>2, OneMore
<1>8. CASE Recycle \/ ReadDiscard \/ ReadError \/ WriteDiscard \/ WriteError
           \/ WriteFails \/ DummyReached
  <2>1. UNCHANGED <<flags, mode, made>> /\ ordinal' = Edited(Head(input))
    BY <1>8 DEF Recycle, ReadDiscard, ReadError, WriteDiscard, WriteError,
                WriteFails, DummyReached, Settle
  <2>2. \A r \in 1 .. Regular : ordinal'[r] = ordinal[r]
    BY <1>3, <2>1
  <2>3. flags' = flags /\ mode' = mode /\ made' = made
    BY <2>1
  <2> QED
    BY <2>2, <2>3, NoneMore
<1>9. CASE ReadCall \/ ReadEnd \/ WriteCall \/ CloseFlush \/ UNCHANGED editVars
  <2>1. UNCHANGED <<flags, mode, made, ordinal>>
    BY <1>9 DEF ReadCall, ReadEnd, WriteCall, CloseFlush, editVars, cubeVars
  <2>2. \A r \in 1 .. Regular : ordinal'[r] = ordinal[r]
    BY <2>1
  <2>3. flags' = flags /\ mode' = mode /\ made' = made
    BY <2>1
  <2> QED
    BY <2>2, <2>3, NoneMore
<1>10. CASE Close
  <2>1. UNCHANGED <<flags, made, ordinal>> /\ mode = "write" /\ mode' = "closed"
    BY <1>10 DEF Close, cubeVars
  <2> QED
    BY <2>1, NoneMore
<1> QED
  BY <1>6, <1>7, <1>8, <1>9, <1>10 DEF EditNext, EditStep

LEMMA ZeroDigits == \A r \in Axes : Digit(0, r) = 0
<1> SUFFICES ASSUME NEW r \in Axes
             PROVE  Digit(0, r) = 0
  OBVIOUS
<1>1. Stride[r] \in Nat \ {0} /\ Size[r] \in Nat \ {0}
  BY StrideType, CubeAssumption DEF Axes
<1>2. PICK a \in Nat \ {0} : a = Stride[r]
  BY <1>1
<1>3. 0 \div a = 0 /\ 0 % Size[r] = 0
  <2>1. /\ 0 = a * 0 + 0 /\ 0 \in 0 .. a - 1
        /\ 0 = Size[r] * 0 + 0 /\ 0 \in 0 .. Size[r] - 1
    BY <1>1
  <2> QED
    BY <1>1, <2>1, QuotientOf
<1> QED
  BY <1>2, <1>3 DEF Digit

LEMMA InStepInit ==
  ASSUME EditInit
  PROVE  Counted /\ InStep
<1>1. made = <<>> /\ ordinal = [r \in Axes |-> 0]
  BY DEF EditInit
<1>2. Len(made) = 0 /\ DOMAIN made = {}
  BY <1>1
<1>3. \A r \in Axes : Digit(0, r) = 0
  BY ZeroDigits
<1>4. Counted
  BY <1>1, <1>2, <1>3, RegularIs DEF Counted, Counts
<1> QED
  BY <1>2, <1>4 DEF InStep

(* Whichever traces are missing, repeated or out of order: the k-th trace  *)
(* that is read or written has the indices of place k of the cube, on the  *)
(* axes whose order is enforced, or one that no place has (ddsEditTrace    *)
(* and ddsCubeInc).                                                        *)
THEOREM TracesInStep == EditSpec => []InStep
<1>1. EditInit => Counted /\ InStep
  BY InStepInit
<1>2. IInv /\ Counted /\ InStep /\ [EditNext]_editVars => Counted' /\ InStep'
  BY InStepStep
<1> QED
  BY <1>1, <1>2, AlwaysIInv, PTL DEF EditSpec

-----------------------------------------------------------------------------
(* Complete cubes                                                          *)

(* All axes start at the same index, which ddsEditTrace takes for granted  *)
(* where it scales the index of an axis with the base of the next lower.   *)
Alike == \A r \in Axes \ {Rank} : Base[r] = Base[r + 1]

(* The trace at a place has the ordinals of that place.                    *)
LEMMA IndexOfPoint ==
  ASSUME NEW n \in Nat, NEW t, t.index = Point(n), NEW r \in Axes
  PROVE  Index(t, r) = Digit(n, r)
<1>1. Digit(n, r) \in Nat /\ Base[r] \in Int
  BY DigitType, CubeAssumption
<1>2. t.index[r] = Base[r] + Digit(n, r)
  BY PointIs DEF GetExpected
<1> QED
  BY <1>1, <1>2 DEF Index, GetOrdinal

(* Division is monotone, and a number below a product has a quotient       *)
(* below the other factor.                                                 *)
LEMMA Quotients ==
  ASSUME NEW a \in Nat, NEW b \in Nat, NEW m \in Nat \ {0}, a <= b
  PROVE  a \div m <= b \div m
<1> DEFINE p == a \div m
           q == b \div m
<1>1. /\ p \in Nat /\ a % m \in 0 .. m - 1 /\ a = m * p + (a % m)
      /\ q \in Nat /\ b % m \in 0 .. m - 1 /\ b = m * q + (b % m)
  BY QuotientType
<1>2. p \in Nat /\ m * p <= a /\ q \in Nat /\ b < m * q + m
  BY <1>1
<1> HIDE DEF p, q
<1>3. ASSUME p > q PROVE FALSE
  <2>1. p - q - 1 \in Nat
    BY <1>2, <1>3
  <2>2. m * p = m * q + m + m * (p - q - 1) /\ m * (p - q - 1) \in Nat
    BY <1>2, <2>1
  <2>3. m * p \in Nat /\ m * q \in Nat
    BY <1>2
  <2> QED
    BY <1>2, <2>2, <2>3
<1> QED
  BY <1>2, <1>3 DEF p, q

LEMMA QuotientBelow ==
  ASSUME NEW n \in Nat, NEW a \in Nat \ {0}, NEW b \in Nat \ {0}, n < a * b
  PROVE  n \div a < b
<1> DEFINE q == n \div a
           r == n % a
<1>1. q \in Nat /\ r \in 0 .. a - 1 /\ n = a * q + r
  BY QuotientType
<1> HIDE DEF q, r
<1>2. ASSUME q >= b PROVE FALSE
  <2>1. q - b \in Nat
    BY <1>1, <1>2
  <2>2. a * q = a * b + a * (q - b) /\ a * (q - b) \in Nat /\ a * b \in Nat
    BY <1>1, <2>1
  <2> QED
    BY <1>1, <2>2
<1> QED
  BY <1>1, <1>2 DEF q

(* The places of the cube have ordinals inside each axis.                  *)
LEMMA InsideCube ==
  ASSUME NEW n \in Nat, n < Stride[Rank] * Size[Rank], NEW r \in Axes
  PROVE  Inside(Digit(n, r), r)
<1>1. /\ Rank \in Axes /\ Rank \in Nat /\ Axes = 1 .. Rank
      /\ Stride[r] \in Nat \ {0} /\ Size[r] \in Nat \ {0}
  BY StrideType, CubeAssumption DEF Axes
<1>2. Digit(n, r) \in Nat
  BY DigitType
<1>3. CASE r < Rank
  <2>1. PICK q \in Nat : q = n \div Stride[r]
    BY QuotientAbove
  <2>2. q % Size[r] \in 0 .. Size[r] - 1
    BY <1>1, QuotientType
  <2> QED
    BY <1>1, <1>2, <1>3, <2>1, <2>2 DEF Inside, Digit
<1>4. CASE r = Rank
  <2>1. PICK a \in Nat \ {0}, b \in Nat \ {0} : a = Stride[r] /\ b = Size[r]
    BY <1>1
  <2>2. n \div a < b
    BY <1>4, <2>1, QuotientBelow
  <2> QED
    BY <1>1, <1>2, <1>4, <2>1, <2>2 DEF Inside, Digit
<1> QED
  BY <1>1, <1>3, <1>4

(* The steps on the higher axes are multiples of those on the lower.       *)
LEMMA StrideDivides ==
  ASSUME NEW q \in 1 .. Rank + 1
  PROVE  \A r \in q .. Rank + 1 : \E m \in Nat : Stride[r] = Stride[q] * m
<1> DEFINE T == {r \in q .. Rank + 1 : ~ \E m \in Nat : Stride[r] = Stride[q] * m}
<1>1. Rank \in Nat /\ Rank > 0 /\ Axes = 1 .. Rank
  BY CubeAssumption DEF Axes
<1>2. T = {}
  <2> SUFFICES ASSUME T # {} PROVE FALSE
    OBVIOUS
  <2>1. T \in SUBSET Nat
    BY <1>1
  <2>2. PICK k \in T : \A j \in T : k <= j
    BY <2>1, LeastNumber
  <2>3. k # q
    <3>1. Stride[q] = Stride[q] * 1
      BY StrideType
    <3> QED
      BY <2>2, <3>1
  <2>4. PICK p : p = k - 1
    OBVIOUS
  <2>5. p \in q .. Rank + 1 /\ p \notin T /\ p \in Axes /\ k = p + 1
    BY <1>1, <2>2, <2>3, <2>4
  <2>6. PICK m \in Nat : Stride[p] = Stride[q] * m
    BY <2>5
  <2>7. Stride[k] = Stride[p] * Size[p]
    BY <2>5, StrideSteps
  <2>8. PICK a \in Nat \ {0}, b \in Nat \ {0} : a = Stride[q] /\ b = Size[p]
    BY <2>5, StrideType, CubeAssumption
  <2>9. (a * m) * b = a * (m * b) /\ m * b \in Nat
    OBVIOUS
  <2>10. Stride[k] = a * (m * b)
    BY <2>6, <2>7, <2>8, <2>9
  <2> QED
    BY <2>2, <2>8, <2>9, <2>10
<1> QED
  BY <1>2

(* After the last place of the cube the lower axes start again.            *)
LEMMA CubeFull ==
  ASSUME NEW r \in Axes, r < Rank
  PROVE  Digit(Stride[Rank] * Size[Rank], r) = 0
<1>1. Rank \in Nat /\ Rank > 0 /\ Axes = 1 .. Rank /\ Rank \in Axes
  BY CubeAssumption DEF Axes
<1>2. r + 1 \in 1 .. Rank + 1 /\ Rank + 1 \in r + 1 .. Rank + 1
  BY <1>1
<1>3. PICK m \in Nat : Stride[Rank + 1] = Stride[r + 1] * m
  BY <1>2, StrideDivides
<1>4. Stride[Rank + 1] = Stride[Rank] * Size[Rank] /\ Stride[r + 1] = Stride[r] * Size[r]
  BY <1>1, StrideSteps
<1>5. PICK a \in Nat \ {0}, b \in Nat \ {0} : a = Stride[r] /\ b = Size[r]
  <2>1. r \in 1 .. Rank + 1
    BY <1>1
  <2>2. Stride[r] \in Nat \ {0} /\ Size[r] \in Nat \ {0}
    BY <2>1, StrideType, CubeAssumption
  <2> QED
    BY <2>2
<1>6. (a * b) * m = a * (b * m) + 0 /\ b * m \in Nat /\ 0 \in 0 .. a - 1
      /\ (a * b) * m \in Nat
  OBVIOUS
<1>7. ((a * b) * m) \div a = b * m
  BY <1>6, QuotientOf
<1>8. b * m = b * m + 0 /\ 0 \in 0 .. b - 1
  BY <1>6
<1>9. (b * m) % b = 0
  BY <1>6, <1>8, QuotientOf
<1>10. Stride[Rank] * Size[Rank] = (a * b) * m
  BY <1>3, <1>4, <1>5
<1> QED
  BY <1>1, <1>5, <1>7, <1>9, <1>10 DEF Digit

(* The trace expected next is accepted as it is, whatever the flags say.   *)
LEMMA ExpectedVerdict ==
  ASSUME EditTypeOK, Alike, cycle = {}, NEW t \in Traces,
         t.live \notin flags.drop, \A r \in Axes : "window" \in flags.retain[r],
         \A r \in Axes : Index(t, r) = ordinal[r] /\ Inside(ordinal[r], r)
  PROVE  Verdict(t) = "accept" /\ Forced(t) = t
<1>1. Rank \in Nat /\ Rank > 0 /\ Axes = 1 .. Rank
  BY CubeAssumption DEF Axes
<1>2. ~ Gross(t)
  <2>1. flags.sort \subseteq Axes
    BY DEF EditTypeOK, Flags
  <2>2. \A r \in Axes : Side(Index(t, r), r) = "window"
    BY CubeAssumption DEF Inside, Side, EditTypeOK
  <2> QED
    BY <2>1, <2>2 DEF Gross
<1>3. \A r \in Axes : Remedy(t, r) = "none"
  BY DEF Remedy, Differs
<1>4. \A r \in Axes : ~ OutOfSync(t, r)
  <2> SUFFICES ASSUME NEW r \in Axes, OutOfSync(t, r)
               PROVE  FALSE
    OBVIOUS
  <2>1. r + 1 \in Axes /\ r \in Axes \ {Rank}
    BY <1>1 DEF OutOfSync, Sync, EditTypeOK, Flags
  <2>2. GetOrdinal(t.index[r + 1], r) = Index(t, r + 1)
    BY <2>1 DEF Index, GetOrdinal, Alike
  <2> QED
    BY <2>1, <2>2 DEF OutOfSync
<1>5. Deciding(t) = {}
  BY <1>3, <1>4 DEF Deciding
<1>6. Verdict(t) = "accept"
  BY <1>2, <1>5 DEF Verdict
<1>7. Forced(t) = t
  <2>1. [r \in Axes |-> IF Remedy(t, r) = "force"
                        THEN GetExpected(ordinal[r], r)
                        ELSE t.index[r]] = t.index
    BY <1>3 DEF Traces
  <2> QED
    BY <2>1 DEF Forced, Traces
<1> QED
  BY <1>6, <1>7

LEMMA ExpectedEdited ==
  ASSUME EditTypeOK, NEW t, \A r \in Axes : Index(t, r) = ordinal[r], cycle = {}
  PROVE  Edited(t) = ordinal
<1>1. Followed(t) = {}
  BY DEF Followed, Remedy, Differs
<1>2. Follow(t) = ordinal
  BY <1>1 DEF Follow, EditTypeOK
<1>3. Remedy(t, Decider(t)) # "dead" \/ Deciding(t) = {}
  <2>1. Deciding(t) # {} => Decider(t) \in Axes
    BY DeciderType
  <2> QED
    BY <2>1 DEF Remedy, Differs
<1> QED
  BY <1>2, <1>3 DEF Edited

(* What has been made and what is left make up the cube, and no axis is    *)
(* being synchronized.                                                     *)
Passing ==
  CompleteCube =>
    /\ made \o input = given
    /\ Counts(ordinal, Len(made), Rank)
    /\ cycle = {}
    /\ ~ (padding /\ mode = "write")

LEMMA SameComplete ==
  ASSUME UNCHANGED <<flags, given>>
  PROVE  CompleteCube' = CompleteCube
BY DEF CompleteCube, Stride, Point, GetExpected

(* The head of what is left has the ordinals expected.                     *)
LEMMA ExpectedHead ==
  ASSUME EditTypeOK, CompleteCube, made \o input = given,
         Counts(ordinal, Len(made), Rank), input # <<>>
  PROVE  /\ Head(input).live \notin flags.drop
         /\ \A r \in Axes : /\ Index(Head(input), r) = ordinal[r]
                            /\ Inside(ordinal[r], r)
<1>1. /\ made \in Seq(Traces) /\ input \in Seq(Traces)
      /\ Len(made) \in Nat /\ Len(input) \in Nat
  BY Typed
<1>2. PICK n \in Nat : n = Len(made)
  BY <1>1
<1>3. Len(input) > 0 /\ Head(input) = input[1]
  BY <1>1
<1>4. Len(given) = n + Len(input) /\ given[n + 1] = input[1]
  <2>1. Len(made \o input) = n + Len(input)
    BY <1>1, <1>2
  <2>2. (made \o input)[n + 1] = input[1]
    BY <1>1, <1>2, <1>3
  <2> QED
    BY <2>1, <2>2
<1>5. n + 1 \in DOMAIN given
  BY <1>1, <1>3, <1>4 DEF EditTypeOK
<1>6. given[n + 1] = [index |-> Point(n), live |-> TRUE]
  <2>1. \A k \in DOMAIN given : given[k] = [index |-> Point(k - 1), live |-> TRUE]
    BY DEF CompleteCube
  <2>2. (n + 1) - 1 = n
    OBVIOUS
  <2> QED
    BY <1>5, <2>1, <2>2
<1>7. Head(input).index = Point(n) /\ Head(input).live = TRUE
  BY <1>3, <1>4, <1>6
<1>8. n < Stride[Rank] * Size[Rank]
  BY <1>1, <1>3, <1>4 DEF CompleteCube
<1>9. \A r \in Axes : ordinal[r] = Digit(n, r)
  BY <1>2 DEF Counts, Axes
<1> QED
  BY <1>7, <1>8, <1>9, IndexOfPoint, InsideCube DEF CompleteCube

(* Where nothing is left the whole cube has been passed.                   *)
LEMMA CompletePassed ==
  ASSUME EditTypeOK, CompleteCube, made \o input = given,
         Counts(ordinal, Len(made), Rank), input = <<>>
  PROVE  \A r \in Axes : r < Rank => ordinal[r] = 0
<1>1. made \in Seq(Traces) /\ Len(made) \in Nat
  BY Typed
<1>2. Len(made \o input) = Len(made) + 0
  BY <1>1
<1>3. Len(made) = Stride[Rank] * Size[Rank]
  BY <1>1, <1>2 DEF CompleteCube
<1> QED
  BY <1>3, CubeFull DEF Counts, Axes

LEMMA PassingInit ==
  ASSUME EditInit
  PROVE  Passing
<1>1. EditTypeOK
  BY InitIInv DEF IInv
<1>2. made = <<>> /\ given = input /\ padding = FALSE /\ cycle = {}
      /\ ordinal = [r \in Axes |-> 0]
  BY DEF EditInit
<1>3. made \o input = given
  BY <1>1, <1>2, ConcatEmptySeq DEF EditTypeOK
<1>4. Len(made) = 0
  BY <1>2
<1>5. Counts(ordinal, 0, Rank)
  BY <1>2, ZeroDigits DEF Counts, Axes
<1> QED
  BY <1>2, <1>3, <1>4, <1>5 DEF Passing

LEMMA PassingStep ==
  ASSUME Alike, IInv, Passing, [EditNext]_editVars
  PROVE  Passing'
<1> SUFFICES ASSUME CompleteCube'
             PROVE  (/\ made \o input = given
                     /\ Counts(ordinal, Len(made), Rank)
                     /\ cycle = {}
                     /\ ~ (padding /\ mode = "write"))'
  BY DEF Passing
<1>1. EditTypeOK
  BY DEF IInv
<1>2. flags' = flags /\ given' = given
  BY DEF EditNext, EditStep, Recycle, ReadCall, ReadTrace, ReadDiscard,
         ReadError, ReadPad, ReadEnd, WriteCall, WriteTrace, WriteDiscard,
         WriteError, WriteFails, CloseFlush, DummyReached, Close, editVars
<1>3. CompleteCube
  BY <1>2, SameComplete
<1>4. /\ made \o input = given /\ Counts(ordinal, Len(made), Rank)
      /\ cycle = {} /\ ~ (padding /\ mode = "write")
  BY <1>3 DEF Passing
<1>5. input # <<>> =>
        /\ Verdict(Head(input)) = "accept" /\ Forced(Head(input)) = Head(input)
        /\ Edited(Head(input)) = ordinal
  <2> SUFFICES ASSUME input # <<>>
               PROVE  /\ Verdict(Head(input)) = "accept"
                      /\ Forced(Head(input)) = Head(input)
                      /\ Edited(Head(input)) = ordinal
    OBVIOUS
  <2>1. PICK t : t = Head(input)
    OBVIOUS
  <2>2. t \in Traces
    BY <1>1, <2>1, HeadOK
  <2>3. /\ t.live \notin flags.drop
        /\ \A r \in Axes : Index(t, r) = ordinal[r] /\ Inside(ordinal[r], r)
    BY <1>1, <1>3, <1>4, <2>1, ExpectedHead
  <2>4. \A r \in Axes : "window" \in flags.retain[r]
    BY <1>3 DEF CompleteCube
  <2>5. Verdict(t) = "accept" /\ Forced(t) = t
    BY <1>1, <1>4, <2>2, <2>3, <2>4, ExpectedVerdict
  <2>6. Edited(t) = ordinal
    BY <1>1, <1>4, <2>3, ExpectedEdited
  <2> QED
    BY <2>1, <2>5, <2>6
<1>6. input = <<>> => \A r \in Axes : r < Rank => ordinal[r] = 0
  BY <1>1, <1>3, <1>4, CompletePassed
<1>7. \A o, n : Counts(o, n, Rank)' = Counts(o', n', Rank)
  BY DEF Counts, Digit, Stride
<1>8. CASE ReadTrace \/ WriteTrace
  <2>1. input # <<>>
    BY <1>8, WriteHead DEF ReadTrace, WriteTrace
  <2>2. /\ made' = Append(made, Head(input)) /\ input' = Tail(input)
        /\ padding' = padding /\ mode' = mode
        /\ CubeInc(ordinal, Pending(Head(input)))
    BY <1>5, <1>8, <2>1 DEF ReadTrace, WriteTrace
  <2>3. Append(made, Head(input)) \o Tail(input) = made \o input
    BY <1>1, <2>1, PassedOn DEF EditTypeOK
  <2>4. PICK top \in Axes :
          CarriedTo(top, ordinal) /\ ordinal' = Incremented(ordinal, top)
    BY <2>2 DEF CubeInc, Incremented
  <2>5. cycle' = {}
    BY <1>4, <2>2 DEF CubeInc
  <2>6. PICK n \in Nat : n = Len(made)
    BY <1>1, Typed
  <2>7. Len(made') = n + 1
    BY <1>1, <2>2, <2>6, AppendLen
  <2>8. Counts(ordinal', n + 1, Rank)
    <3>1. Rank \in 0 .. Rank
      BY CubeAssumption
    <3> QED
      BY <1>4, <2>4, <2>6, <3>1, CubeCounts
  <2>9. Counts(ordinal, Len(made), Rank)'
    BY <2>7, <2>8 DEF Counts, Digit, Stride
  <2> QED
    BY <1>2, <1>4, <2>2, <2>3, <2>5, <2>9
<1>9. CASE ReadCall \/ ReadEnd \/ WriteCall \/ Close \/ UNCHANGED editVars
  <2>1. UNCHANGED <<made, input, given, ordinal, cycle>>
    BY <1>9 DEF ReadCall, ReadEnd, WriteCall, Close, editVars, cubeVars
  <2>2. ~ (padding /\ mode = "write")'
    BY <1>4, <1>9 DEF ReadCall, ReadEnd, WriteCall, Close, editVars, cubeVars
  <2>3. Counts(ordinal, Len(made), Rank)'
    BY <1>4, <2>1 DEF Counts, Digit, Stride
  <2> QED
    BY <1>4, <2>1, <2>2, <2>3
<1>10. CASE WriteFails
  <2>1. input # <<>>
    BY <1>10, WriteHead DEF WriteFails
  <2>2. /\ ordinal' = ordinal
        /\ UNCHANGED <<made, input, given, cycle, padding, mode>>
    BY <1>5, <1>10, <2>1 DEF WriteFails, Settle
  <2>3. Counts(ordinal, Len(made), Rank)'
    BY <1>4, <2>2 DEF Counts, Digit, Stride
  <2> QED
    BY <1>4, <2>2, <2>3
<1>11. ~ (Recycle \/ ReadDiscard \/ ReadError)
  BY <1>5 DEF Recycle, ReadDiscard, ReadError
<1>12. ~ (WriteDiscard \/ WriteError \/ DummyReached)
  BY <1>4, <1>5, WriteHead DEF WriteDiscard, WriteError, DummyReached
<1>13. ~ ReadPad
  <2>1. \A r \in Dense : r \in Axes
    BY DEF Dense
  <2> QED
    BY <1>6, <2>1 DEF ReadPad, MoreDead
<1>14. ~ CloseFlush
  <2>1. flags.sort \subseteq Axes
    BY <1>1 DEF EditTypeOK, Flags
  <2> QED
    BY <1>6, <2>1 DEF CloseFlush, FlushPad
<1> QED
  BY <1>8, <1>9, <1>10, <1>11, <1>12, <1>13, <1>14 DEF EditNext, EditStep

(* A cube that is complete and in order passes unchanged whatever flags    *)
(* are set: the flags CHANGE and CYCLE that ddsCubeInc leaves on the axes  *)
(* never make ddsEditTrace wait, insert, reject or end a call.             *)
THEOREM CompletePasses ==
  ASSUME Alike
  PROVE  EditSpec => []Transparent
<1>1. EditInit => Passing
  BY PassingInit
<1>2. IInv /\ Passing /\ [EditNext]_editVars => Passing'
  BY PassingStep
<1>3. Passing => Transparent
  BY DEF Passing, Transparent
<1> QED
  BY <1>1, <1>2, <1>3, AlwaysIInv, PTL DEF EditSpec

-----------------------------------------------------------------------------
(* Cubes that are filled up                                                *)

(* The digit of n where a step is worth s, with base z; p is a multiple of *)
(* m above x.                                                              *)
Mixed(n, s, z) == (n \div s) % z

Apart(p, x, m) == \E j \in Nat : p = x + m * j

(* Adding a multiple of the product changes no digit below it.             *)
LEMMA DigitStays ==
  ASSUME NEW x \in Nat, NEW s \in Nat \ {0}, NEW z \in Nat \ {0}, NEW p \in Nat,
         NEW w \in Nat, w = s * z, Apart(p, x, w)
  PROVE  Mixed(p, s, z) = Mixed(x, s, z)
<1>0. PICK j \in Nat : p = x + (s * z) * j
  BY DEF Apart
<1> DEFINE m == x \div s
           r == x % s
           q == m \div z
           d == m % z
<1>1. m \in Nat /\ r \in 0 .. s - 1 /\ x = s * m + r
  BY QuotientType
<1>2. q \in Nat /\ d \in 0 .. z - 1 /\ m = z * q + d
  BY <1>1, QuotientType
<1>3. (x \div s) % z = d
  OBVIOUS
<1> HIDE DEF m, r, q, d
<1>4. z * j \in Nat /\ s * m \in Nat /\ (s * z) * j \in Nat
      /\ z * q \in Nat /\ q + j \in Nat
  BY <1>0, <1>1, <1>2
<1>5. PICK y : y = m + z * j
  OBVIOUS
<1>6. s * y = s * m + (s * z) * j
  <2>1. s * (m + z * j) = s * m + s * (z * j)
    BY <1>1, <1>4
  <2>2. s * (z * j) = (s * z) * j
    OBVIOUS
  <2> QED
    BY <1>5, <2>1, <2>2
<1>7. y \in Nat /\ x + (s * z) * j \in Nat /\ x + (s * z) * j = s * y + r
  BY <1>1, <1>4, <1>5, <1>6
<1>8. p \div s = y
  BY <1>0, <1>1, <1>7, QuotientOf
<1>9. y = z * (q + j) + d
  <2>1. z * (q + j) = z * q + z * j
    BY <1>2
  <2> QED
    BY <1>2, <1>4, <1>5, <2>1
<1>10. y % z = d
  <2>1. PICK e \in Nat : e = q + j
    BY <1>4
  <2>2. y \in Nat /\ d \in 0 .. z - 1 /\ y = z * e + d
    BY <1>2, <1>7, <1>9, <2>1
  <2> QED
    BY <2>1, <2>2, QuotientOf
<1> QED
  BY <1>3, <1>8, <1>10 DEF Mixed

(* Numbers with the same digits are the same.                              *)
LEMMA SameDigits ==
  ASSUME NEW a \in Nat, NEW b \in Nat, \A r \in Axes : Digit(a, r) = Digit(b, r)
  PROVE  a = b
<1> DEFINE T == {d \in 0 .. Rank - 1 :
                   a \div Stride[Rank - d] # b \div Stride[Rank - d]}
<1>1. Rank \in Nat /\ Rank > 0 /\ Axes = 1 .. Rank
  BY CubeAssumption DEF Axes
<1>2. T = {}
  <2> SUFFICES ASSUME T # {} PROVE FALSE
    OBVIOUS
  <2>1. T \in SUBSET Nat
    BY <1>1
  <2>2. PICK m \in T : \A k \in T : m <= k
    BY <2>1, LeastNumber
  <2>3. m # 0
    <3>1. Digit(a, Rank) = a \div Stride[Rank] /\ Digit(b, Rank) = b \div Stride[Rank]
      BY <1>1 DEF Digit
    <3>2. Rank \in Axes /\ Rank - 0 = Rank
      BY <1>1
    <3> QED
      BY <2>2, <3>1, <3>2
  <2>4. PICK r : r = Rank - m
    OBVIOUS
  <2>5. r \in Axes /\ r < Rank /\ m - 1 \in 0 .. Rank - 1 /\ Rank - (m - 1) = r + 1
        /\ m - 1 \notin T
    BY <1>1, <2>2, <2>3, <2>4
  <2>6. a \div Stride[r + 1] = b \div Stride[r + 1]
    BY <2>5
  <2>7. PICK x \in Nat, y \in Nat, z \in Nat \ {0} :
          x = a \div Stride[r] /\ y = b \div Stride[r] /\ z = Size[r]
    BY <2>5, QuotientAbove, CubeAssumption
  <2>8. x \div z = y \div z
    BY <2>5, <2>6, <2>7, QuotientAbove
  <2>9. x % z = y % z
    BY <2>5, <2>7 DEF Digit
  <2>10. x = z * (x \div z) + (x % z) /\ y = z * (y \div z) + (y % z)
    BY QuotientType
  <2>11. x = y
    BY <2>8, <2>9, <2>10
  <2> QED
    BY <2>2, <2>4, <2>7, <2>11
<1>3. a \div Stride[1] = b \div Stride[1]
  <2>1. Rank - 1 \in 0 .. Rank - 1 /\ Rank - (Rank - 1) = 1
    BY <1>1
  <2> QED
    BY <1>2, <2>1
<1>4. a \div 1 = a /\ b \div 1 = b
  OBVIOUS
<1> QED
  BY <1>3, <1>4, StrideSteps

(* What is behind in a plane is behind in the planes within it.            *)
LEMMA BehindBelow ==
  ASSUME NEW n \in Nat, NEW k \in Nat, NEW r \in Axes, NEW q \in Axes, q <= r,
         n \div Stride[r + 1] < k \div Stride[r + 1]
  PROVE  n \div Stride[q + 1] < k \div Stride[q + 1]
<1>1. Rank \in Nat /\ Axes = 1 .. Rank
  BY CubeAssumption DEF Axes
<1>2. q + 1 \in 1 .. Rank + 1 /\ r + 1 \in q + 1 .. Rank + 1 /\ r + 1 \in 1 .. Rank + 1
  BY <1>1
<1>3. PICK m \in Nat : Stride[r + 1] = Stride[q + 1] * m
  BY <1>2, StrideDivides
<1>4. PICK a \in Nat \ {0} : a = Stride[q + 1]
  BY <1>2, StrideType
<1>5. m # 0
  <2>1. a * 0 = 0 /\ Stride[r + 1] # 0
    BY <1>2, StrideType
  <2> QED
    BY <1>3, <1>4, <2>1
<1>6. n \div (a * m) = (n \div a) \div m /\ k \div (a * m) = (k \div a) \div m
  <2>1. m \in Nat \ {0}
    BY <1>5
  <2> QED
    BY <2>1, QuotientTwice
<1>7. PICK x \in Nat, y \in Nat : x = n \div a /\ y = k \div a
  BY QuotientType
<1>8. x \div m < y \div m
  BY <1>3, <1>4, <1>6, <1>7
<1>9. ASSUME y <= x PROVE FALSE
  <2>1. y \div m <= x \div m
    BY <1>5, <1>9, Quotients
  <2>2. x \div m \in Nat /\ y \div m \in Nat
    BY <1>5, QuotientType
  <2> QED
    BY <1>8, <2>1, <2>2
<1> QED
  BY <1>4, <1>7, <1>9

(* The sum of the places that the indices of a trace are worth, on the     *)
(* first n axes.                                                           *)
PlacesTo(t, n, f) ==
  f = [r \in 0 .. n |-> IF r = 0 THEN 0 ELSE f[r - 1] + Index(t, r) * Stride[r]]

LEMMA PlacesExist == \A t, n : n \in Nat => \E f : PlacesTo(t, n, f)
<1> SUFFICES ASSUME NEW t
             PROVE  \A n \in Nat : \E f : PlacesTo(t, n, f)
  OBVIOUS
<1> DEFINE T == {n \in Nat : ~ \E f : PlacesTo(t, n, f)}
<1>1. T = {}
  <2> SUFFICES ASSUME T # {} PROVE FALSE
    OBVIOUS
  <2>1. T \in SUBSET Nat
    OBVIOUS
  <2>2. PICK m \in T : \A k \in T : m <= k
    BY <2>1, LeastNumber
  <2>3. m # 0
    <3> DEFINE f == [r \in 0 .. 0 |-> 0]
    <3>1. PlacesTo(t, 0, f)
      BY DEF PlacesTo
    <3> QED
      BY <3>1
  <2>4. m - 1 \in Nat /\ m - 1 \notin T
    BY <2>1, <2>2, <2>3
  <2>5. PICK f : PlacesTo(t, m - 1, f)
    BY <2>4
  <2> DEFINE e(r) == IF r = 0 THEN 0 ELSE f[r - 1] + Index(t, r) * Stride[r]
             g == [r \in 0 .. m |-> e(r)]
  <2>6. \A r \in 0 .. m - 1 : f[r] = e(r)
    BY <2>5 DEF PlacesTo
  <2>7. \A r \in 0 .. m : r # 0 => g[r - 1] = f[r - 1]
    <3> SUFFICES ASSUME NEW r \in 0 .. m, r # 0
                 PROVE  g[r - 1] = f[r - 1]
      OBVIOUS
    <3>1. r - 1 \in 0 .. m - 1 /\ r - 1 \in 0 .. m
      BY <2>4
    <3>2. g[r - 1] = e(r - 1)
      BY <3>1
    <3> QED
      BY <2>6, <3>1, <3>2
  <2>8. \A r \in 0 .. m :
          e(r) = IF r = 0 THEN 0 ELSE g[r - 1] + Index(t, r) * Stride[r]
    <3> HIDE DEF g
    <3> QED
      BY <2>7
  <2>9. PlacesTo(t, m, g)
    BY <2>8 DEF PlacesTo
  <2> QED
    BY <2>2, <2>9
<1> QED
  BY <1>1

LEMMA PlaceIs ==
  ASSUME NEW t
  PROVE  \E f : PlacesTo(t, Rank, f) /\ Place(t) = f[Rank]
<1>1. PICK g : PlacesTo(t, Rank, g)
  BY PlacesExist, CubeAssumption
<1> DEFINE f == CHOOSE h : PlacesTo(t, Rank, h)
<1>2. PlacesTo(t, Rank, f)
  BY <1>1
<1>3. Place(t) = f[Rank]
  BY DEF Place, PlacesTo
<1> QED
  BY <1>2, <1>3

LEMMA PlaceSteps ==
  ASSUME NEW t, NEW f, PlacesTo(t, Rank, f)
  PROVE  /\ f[0] = 0
         /\ \A r \in Axes : f[r] = f[r - 1] + Index(t, r) * Stride[r]
<1>1. Rank \in Nat /\ Axes = 1 .. Rank
  BY CubeAssumption DEF Axes
<1>2. \A r \in 0 .. Rank :
        f[r] = IF r = 0 THEN 0 ELSE f[r - 1] + Index(t, r) * Stride[r]
  BY DEF PlacesTo
<1> QED
  BY <1>1, <1>2

Within(t) == \A r \in Axes : Inside(Index(t, r), r)

(* What the indices on the axes up to m are worth has them for digits.     *)
Sums(t, f, m) ==
  /\ f[m] \in Nat
  /\ f[m] < Stride[m + 1]
  /\ \A r \in 1 .. m : (f[m] \div Stride[r]) % Size[r] = Index(t, r)

LEMMA IndexWithin ==
  ASSUME NEW t \in Traces, Within(t), NEW r \in Axes
  PROVE  Index(t, r) \in Nat /\ Index(t, r) < Size[r]
<1>1. t.index[r] \in Int /\ Base[r] \in Int
  BY CubeAssumption DEF Traces
<1>2. Index(t, r) \in Int
  BY <1>1 DEF Index, GetOrdinal
<1> QED
  BY <1>2 DEF Within, Inside

LEMMA SumsOn ==
  ASSUME NEW t \in Traces, Within(t), NEW f, PlacesTo(t, Rank, f),
         NEW m \in Axes, Sums(t, f, m - 1)
  PROVE  Sums(t, f, m)
<1>1. Rank \in Nat /\ Axes = 1 .. Rank
  BY CubeAssumption DEF Axes
<1>2. (m - 1) + 1 = m /\ m \in 1 .. Rank + 1
  BY <1>1
<1>3. PICK a \in Nat \ {0}, b \in Nat \ {0}, i \in Nat, x \in Nat :
        a = Stride[m] /\ b = Size[m] /\ i = Index(t, m) /\ x = f[m - 1]
  BY <1>2, StrideType, CubeAssumption, IndexWithin DEF Sums
<1>4. x < a /\ i < b
  BY <1>2, <1>3, IndexWithin DEF Sums
<1>5. PICK y \in Nat : y = x + i * a
  <2>1. i * a \in Nat
    OBVIOUS
  <2> QED
    BY <2>1
<1>6. f[m] = y
  BY <1>3, <1>5, PlaceSteps
<1>7. y = a * i + x /\ x \in 0 .. a - 1 /\ y \div a = i
  <2>1. y = a * i + x /\ x \in 0 .. a - 1
    BY <1>4, <1>5
  <2> QED
    BY <2>1, QuotientOf
<1>8. i % b = i
  <2>1. i = b * 0 + i /\ i \in 0 .. b - 1
    BY <1>4
  <2> QED
    BY <2>1, QuotientOf
<1>9. y < a * b
  <2>1. b - 1 - i \in Nat
    BY <1>4
  <2>2. a * b = a * i + a + a * (b - 1 - i) /\ a * (b - 1 - i) \in Nat
        /\ a * i \in Nat
    BY <2>1
  <2> QED
    BY <1>4, <1>7, <2>2
<1>10. Stride[m + 1] = a * b
  BY <1>3, StrideSteps
<1>11. ASSUME NEW r \in 1 .. m
       PROVE  (y \div Stride[r]) % Size[r] = Index(t, r)
  <2>1. CASE r = m
    BY <1>3, <1>7, <1>8, <2>1
  <2>2. CASE r # m
    <3>1. r \in 1 .. m - 1 /\ r \in Axes /\ r + 1 \in 1 .. Rank + 1
          /\ m \in r + 1 .. Rank + 1 /\ r \in 1 .. Rank + 1
      BY <1>1, <2>2
    <3>2. PICK k \in Nat : Stride[m] = Stride[r + 1] * k
      BY <3>1, StrideDivides
    <3>3. PICK s \in Nat \ {0}, z \in Nat \ {0} : s = Stride[r] /\ z = Size[r]
      BY <3>1, StrideType, CubeAssumption
    <3>4. a = (s * z) * k
      BY <1>3, <3>1, <3>2, <3>3, StrideSteps
    <3>5. PICK j \in Nat : j = i * k
      <4>1. i * k \in Nat
        BY <1>3, <3>2
      <4> QED
        BY <4>1
    <3>6. y = x + (s * z) * j
      <4>1. i * ((s * z) * k) = (s * z) * (i * k)
        OBVIOUS
      <4> QED
        BY <1>5, <3>4, <3>5, <4>1
    <3>7. (y \div s) % z = (x \div s) % z
      <4>1. PICK w \in Nat : w = s * z
        <5>1. s * z \in Nat
          BY <3>3
        <5> QED
          BY <5>1
      <4>2. Apart(y, x, w)
        BY <3>5, <3>6, <4>1 DEF Apart
      <4>3. x \in Nat /\ y \in Nat /\ s \in Nat \ {0} /\ z \in Nat \ {0}
        BY <1>3, <1>5, <3>3
      <4>4. Mixed(y, s, z) = Mixed(x, s, z)
        BY <4>1, <4>2, <4>3, DigitStays
      <4> QED
        BY <4>4 DEF Mixed
    <3>8. (x \div s) % z = Index(t, r)
      BY <1>3, <3>1, <3>3 DEF Sums
    <3> QED
      BY <3>3, <3>7, <3>8
  <2> QED
    BY <2>1, <2>2
<1> QED
  BY <1>6, <1>9, <1>10, <1>11 DEF Sums

(* The place of a trace within the cube has its indices for digits.        *)
LEMMA PlaceDigits ==
  ASSUME NEW t \in Traces, Within(t)
  PROVE  Place(t) \in Nat /\ \A r \in Axes : Digit(Place(t), r) = Index(t, r)
<1>1. Rank \in Nat /\ Rank > 0 /\ Axes = 1 .. Rank
  BY CubeAssumption DEF Axes
<1>2. PICK f : PlacesTo(t, Rank, f) /\ Place(t) = f[Rank]
  BY PlaceIs
<1> DEFINE T == {m \in 0 .. Rank : ~ Sums(t, f, m)}
<1>3. T = {}
  <2> SUFFICES ASSUME T # {} PROVE FALSE
    OBVIOUS
  <2>1. T \in SUBSET Nat
    BY <1>1
  <2>2. PICK m \in T : \A k \in T : m <= k
    BY <2>1, LeastNumber
  <2>3. Sums(t, f, 0)
    BY <1>2, PlaceSteps, StrideSteps DEF Sums
  <2>4. m \in Axes /\ m - 1 \in 0 .. Rank /\ m - 1 \notin T
    BY <1>1, <2>2, <2>3
  <2>5. Sums(t, f, m - 1)
    BY <2>4
  <2>6. Sums(t, f, m)
    BY <1>2, <2>4, <2>5, SumsOn
  <2> QED
    BY <2>2, <2>6
<1>4. Sums(t, f, Rank)
  BY <1>1, <1>3
<1>5. PICK n \in Nat : n = Place(t)
  BY <1>2, <1>4 DEF Sums
<1>6. \A r \in Axes : (n \div Stride[r]) % Size[r] = Index(t, r)
  BY <1>1, <1>2, <1>4, <1>5 DEF Sums
<1>7. Digit(n, Rank) = Index(t, Rank)
  <2>1. Rank \in Axes /\ Rank \in 1 .. Rank + 1
    BY <1>1
  <2>2. PICK a \in Nat \ {0}, b \in Nat \ {0} : a = Stride[Rank] /\ b = Size[Rank]
    BY <2>1, StrideType, CubeAssumption
  <2>3. n < a * b
    BY <1>2, <1>4, <1>5, <2>1, <2>2, StrideSteps DEF Sums
  <2>4. PICK q \in Nat : q = n \div a
    BY QuotientType
  <2>5. q < b
    BY <2>3, <2>4, QuotientBelow
  <2>6. q % b = q
    <3>1. q = b * 0 + q /\ q \in 0 .. b - 1
      BY <2>5
    <3> QED
      BY <3>1, QuotientOf
  <2> QED
    BY <1>6, <2>1, <2>2, <2>4, <2>6 DEF Digit
<1> QED
  BY <1>1, <1>5, <1>6, <1>7 DEF Digit

(* A trace is at the place whose ordinals it has.                          *)
LEMMA PlaceOf ==
  ASSUME NEW t \in Traces, Within(t), NEW n \in Nat
  PROVE  /\ Place(t) = n <=> \A r \in Axes : Index(t, r) = Digit(n, r)
         /\ Place(t) = n <=> t.index = Point(n)
<1>1. PICK k \in Nat : k = Place(t)
  BY PlaceDigits
<1>2. \A r \in Axes : Digit(k, r) = Index(t, r)
  BY <1>1, PlaceDigits
<1>3. k = n <=> \A r \in Axes : Index(t, r) = Digit(n, r)
  BY <1>2, SameDigits
<1>4. t.index = Point(n) => \A r \in Axes : Index(t, r) = Digit(n, r)
  BY IndexOfPoint
<1>5. ASSUME \A r \in Axes : Index(t, r) = Digit(n, r)
      PROVE  t.index = Point(n)
  <2>1. ASSUME NEW r \in Axes
        PROVE  t.index[r] = GetExpected(Digit(n, r), r)
    <3>1. t.index[r] \in Int /\ Base[r] \in Int /\ Digit(n, r) \in Nat
      BY DigitType, CubeAssumption DEF Traces
    <3> QED
      BY <1>5, <3>1 DEF Index, GetOrdinal, GetExpected
  <2>2. Point(n) = [r \in Axes |-> Point(n)[r]]
    BY DEF Point
  <2>3. t.index = [r \in Axes |-> t.index[r]]
    BY DEF Traces
  <2>4. \A r \in Axes : t.index[r] = Point(n)[r]
    BY <2>1, PointIs
  <2> QED
    BY <2>2, <2>3, <2>4
<1> QED
  BY <1>1, <1>3, <1>4, <1>5

(* The traces there are belong to a cube that is filled up.                *)
FillsUp ==
  /\ flags.sort = Axes
  /\ Dense = Axes
  /\ flags.error \cup flags.force \cup flags.reject = {}
  /\ flags.drop = {}
  /\ \A r \in Axes : "window" \in flags.retain[r]
  /\ InRegularOrder

(* The traces made that are not dead are those of the input, each at its   *)
(* place.                                                                  *)
InPlace ==
  \A k \in DOMAIN made :
    made[k].live <=>
      \E i \in DOMAIN given : given[i].live /\ given[i].index = Point(k - 1)

(* The first c traces of the input have been passed, and the others are    *)
(* left; the dummy of ddsCloseFlush follows on them.                       *)
Remaining(c) ==
  /\ Len(input) = Len(given) - c
  /\ \A j \in 1 .. Len(input) : input[j] = given[c + j]

(* An axis that is being synchronized with the next higher one has not     *)
(* come to the plane of the next trace.                                    *)
Behind(r, n, k) == r \in Sync /\ n \div Stride[r + 1] < k \div Stride[r + 1]

FilledTo(c) ==
  /\ \A i \in 1 .. c : Place(given[i]) < Len(made)
  /\ \A i \in c + 1 .. Len(given) : Len(made) <= Place(given[i])
  /\ Remaining(c) \/ (c = Len(given) /\ padding /\ mode # "read")
  /\ c < Len(given) =>
       \A r \in cycle : Behind(r, Len(made), Place(given[c + 1]))

FillingUp == FillsUp => InPlace /\ \E c \in 0 .. Len(given) : FilledTo(c)

LEMMA SameFillsUp ==
  ASSUME flags' = flags, given' = given,
         mode' = mode \/ (mode = "write" /\ mode' = "closed")
  PROVE  FillsUp' = FillsUp
<1>1. Dense' = Dense
  BY DEF Dense
<1> QED
  BY <1>1 DEF FillsUp, InRegularOrder, Place, Inside, Index, GetOrdinal, Stride

LEMMA FillsUpTraces ==
  ASSUME EditTypeOK, FillsUp, NEW i \in 1 .. Len(given)
  PROVE  /\ given[i] \in Traces /\ Within(given[i]) /\ Place(given[i]) \in Nat
         /\ \A j \in 1 .. Len(given) : i < j => Place(given[i]) < Place(given[j])
<1>1. DOMAIN given = 1 .. Len(given) /\ given[i] \in Traces
  BY DEF EditTypeOK
<1>2. Within(given[i])
  BY <1>1 DEF FillsUp, InRegularOrder, Within
<1>3. Place(given[i]) \in Nat
  BY <1>1, <1>2, PlaceDigits
<1>4. \A j \in 1 .. Len(given) : i < j => Place(given[i]) < Place(given[j])
  BY <1>1 DEF FillsUp, InRegularOrder
<1> QED
  BY <1>1, <1>2, <1>3, <1>4

LEMMA AllCounted ==
  ASSUME FillsUp, Counted
  PROVE  Counts(ordinal, Len(made), Rank)
<1>1. Rank \in Nat /\ Axes = 1 .. Rank
  BY CubeAssumption DEF Axes
<1>2. Regular \in 0 .. Rank /\ (Regular < Rank => ~ Strict(Regular + 1))
  BY RegularIs
<1>3. ~ Regular < Rank
  <2>1. Regular < Rank => Regular + 1 \in Axes
    BY <1>1, <1>2
  <2> QED
    BY <1>2, <2>1 DEF FillsUp, Strict
<1>4. Regular = Rank
  BY <1>1, <1>2, <1>3
<1> QED
  BY <1>4 DEF Counted

(* What ddsEditTrace says of a trace within such a cube.                   *)
LEMMA FillVerdict ==
  ASSUME EditTypeOK, FillsUp, NEW t \in Traces
  PROVE  /\ Edited(t) = ordinal
         /\ Forced(t) = t
         /\ Within(t) => Verdict(t) \in {"accept", "dead", "recycle"}
<1>1. \A r \in Axes : Remedy(t, r) \in {"none", "dead", "fail"}
  BY DEF Remedy, FillsUp
<1>2. Follow(t) = ordinal
  <2>1. Followed(t) = {}
    BY <1>1 DEF Followed
  <2> QED
    BY <2>1 DEF Follow, EditTypeOK
<1>3. Inserted(t) = ordinal
  <2>1. \A r \in Axes : Inserted(t)[r] = ordinal[r]
    BY <1>2, InsertedKeeps DEF FillsUp
  <2>2. Inserted(t) = [r \in Axes |-> Inserted(t)[r]]
    BY DEF Inserted
  <2>3. ordinal = [r \in Axes |-> ordinal[r]]
    BY DEF EditTypeOK
  <2> QED
    BY <2>1, <2>2, <2>3
<1>4. Edited(t) = ordinal
  BY <1>2, <1>3 DEF Edited
<1>5. Forced(t) = t
  <2>1. [r \in Axes |-> IF Remedy(t, r) = "force"
                        THEN GetExpected(ordinal[r], r)
                        ELSE t.index[r]] = t.index
    BY <1>1 DEF Traces
  <2> QED
    BY <2>1 DEF Forced, Traces
<1>6. Within(t) => ~ Gross(t)
  <2> SUFFICES ASSUME Within(t)
               PROVE  ~ Gross(t)
    OBVIOUS
  <2>1. \A r \in Axes : Side(Index(t, r), r) = "window"
    BY IndexWithin, CubeAssumption DEF Side
  <2> QED
    BY <2>1 DEF Gross, FillsUp
<1>7. Within(t) => Verdict(t) \in {"accept", "dead", "recycle"}
  <2> SUFFICES ASSUME Within(t)
               PROVE  Verdict(t) \in {"accept", "dead", "recycle"}
    OBVIOUS
  <2>1. \A j : j \notin flags.error
    BY DEF FillsUp
  <2>2. Deciding(t) # {} /\ ~ OutOfSync(t, Decider(t)) =>
          Remedy(t, Decider(t)) = "dead"
    BY <1>1, DeciderType DEF Deciding
  <2> QED
    BY <1>6, <2>1, <2>2 DEF Verdict
<1> QED
  BY <1>4, <1>5, <1>6, <1>7

(* ddsCubeInc keeps the axes being synchronized behind, for what it counts *)
(* on lies within the planes they wait in.                                 *)
LEMMA CarryBehind ==
  ASSUME NEW n \in Nat, NEW k \in Nat, Counts(ordinal, n, Rank), EditTypeOK,
         \A r \in cycle : Behind(r, n, k), NEW chg, CubeInc(ordinal, chg)
  PROVE  \A r \in cycle' : Behind(r, n + 1, k)
<1>1. Rank \in Nat /\ Axes = 1 .. Rank /\ Rank \in 0 .. Rank
  BY CubeAssumption DEF Axes
<1>2. PICK top \in Axes :
        /\ CarriedTo(top, ordinal)
        /\ cycle' = (cycle \ (1 .. top - 1))
                      \cup (IF top \in cycle THEN Sync \cap (1 .. top - 1) ELSE {})
  BY DEF CubeInc
<1>3. \A r \in Sync : r \in Axes /\ r + 1 \in Axes
  BY DEF Sync, EditTypeOK, Flags
<1>4. ASSUME NEW r \in cycle, top <= r
      PROVE  Behind(r, n + 1, k)
  <2>1. r \in Sync /\ n \div Stride[r + 1] < k \div Stride[r + 1]
    BY DEF Behind
  <2>2. r \in Axes /\ r + 1 \in Axes /\ top < r + 1 /\ r + 1 <= Rank
    BY <1>1, <1>3, <1>4, <2>1
  <2>3. (n + 1) \div Stride[r + 1] = n \div Stride[r + 1]
    BY <1>1, <1>2, <2>2, CountsStay
  <2> QED
    BY <2>1, <2>3 DEF Behind
<1>5. ASSUME top \in cycle, NEW r \in Sync \cap (1 .. top - 1)
      PROVE  Behind(r, n + 1, k)
  <2>1. Behind(top, n + 1, k)
    <3>1. top <= top
      BY <1>1
    <3> QED
      BY <1>4, <1>5, <3>1
  <2>2. (n + 1) \div Stride[top + 1] < k \div Stride[top + 1]
    BY <2>1 DEF Behind
  <2>3. r \in Axes /\ r <= top /\ n + 1 \in Nat
    BY <1>1, <1>3
  <2>4. (n + 1) \div Stride[r + 1] < k \div Stride[r + 1]
    BY <2>2, <2>3, BehindBelow
  <2> QED
    BY <2>4 DEF Behind
<1>6. \A r \in cycle : r \in Axes
  BY DEF EditTypeOK
<1>7. ASSUME NEW r \in cycle'
      PROVE  Behind(r, n + 1, k)
  <2>1. CASE r \in cycle /\ r \notin 1 .. top - 1
    <3>1. top <= r
      BY <1>1, <1>6, <2>1
    <3> QED
      BY <1>4, <2>1, <3>1
  <2>2. CASE top \in cycle /\ r \in Sync \cap (1 .. top - 1)
    BY <1>5, <2>2
  <2> QED
    BY <1>2, <2>1, <2>2
<1> QED
  BY <1>7

(* ddsEditTrace starts to synchronize only the axes behind the plane of    *)
(* the trace.                                                              *)
LEMMA CycleBehind ==
  ASSUME Alike, EditTypeOK, NEW n \in Nat, Counts(ordinal, n, Rank),
         NEW t \in Traces, Within(t), n <= Place(t), Verdict(t) = "recycle",
         NEW q \in Sync, q <= Decider(t)
  PROVE  Behind(q, n, Place(t))
<1>1. Rank \in Nat /\ Axes = 1 .. Rank
  BY CubeAssumption DEF Axes
<1>2. \A r \in Sync : r \in Axes /\ r + 1 \in Axes
  BY DEF Sync, EditTypeOK, Flags
<1>3. PICK d : d = Decider(t)
  OBVIOUS
<1>4. OutOfSync(t, d)
  BY <1>3 DEF Verdict, Remedy
<1>5. d \in Axes /\ d + 1 \in Axes /\ d \in Axes \ {Rank}
      /\ GetOrdinal(t.index[d + 1], d) # ordinal[d + 1]
  BY <1>1, <1>2, <1>4 DEF OutOfSync
<1>6. Index(t, d + 1) # ordinal[d + 1]
  BY <1>5 DEF Index, GetOrdinal, Alike
<1>7. PICK k \in Nat : k = Place(t)
  BY PlaceDigits
<1>8. Digit(k, d + 1) # Digit(n, d + 1)
  BY <1>1, <1>5, <1>6, <1>7, PlaceDigits DEF Counts
<1>9. k \div Stride[d + 1] # n \div Stride[d + 1]
  BY <1>8 DEF Digit
<1>10. n \div Stride[d + 1] < k \div Stride[d + 1]
  <2>1. PICK a \in Nat \ {0} : a = Stride[d + 1]
    <3>1. d + 1 \in 1 .. Rank + 1
      BY <1>1, <1>5
    <3> QED
      BY <3>1, StrideType
  <2>2. n \div a <= k \div a
    BY <1>7, <2>1, Quotients
  <2>3. n \div a \in Nat /\ k \div a \in Nat
    BY <1>7, <2>1, QuotientType
  <2> QED
    BY <1>9, <2>1, <2>2, <2>3
<1>11. n \div Stride[q + 1] < k \div Stride[q + 1]
  <2>1. q \in Axes /\ q <= d
    BY <1>2, <1>3
  <2> QED
    BY <1>5, <1>7, <1>10, <2>1, BehindBelow
<1> QED
  BY <1>7, <1>11 DEF Behind

(* A dead trace is inserted only before the place of the trace,            *)
LEMMA DeadBefore ==
  ASSUME EditTypeOK, NEW n \in Nat, Counts(ordinal, n, Rank),
         NEW t \in Traces, Within(t), n <= Place(t), Verdict(t) = "dead",
         \A r \in cycle : Behind(r, n, Place(t))
  PROVE  n < Place(t)
<1>1. Axes = 1 .. Rank
  BY DEF Axes
<1>2. PICK d : d = Decider(t)
  OBVIOUS
<1>3. Deciding(t) # {} /\ Remedy(t, d) = "dead"
  BY <1>2 DEF Verdict
<1>4. d \in Axes /\ (Index(t, d) # ordinal[d] \/ d \in cycle)
  BY <1>2, <1>3, DeciderType DEF Remedy, Differs
<1>5. PICK k \in Nat : k = Place(t)
  BY PlaceDigits
<1>6. CASE d \in cycle
  <2>1. n \div Stride[d + 1] < k \div Stride[d + 1]
    BY <1>5, <1>6 DEF Behind
  <2>2. PICK a \in Nat \ {0} : a = Stride[d + 1]
    <3>1. d + 1 \in 1 .. Rank + 1
      BY <1>1, <1>4, CubeAssumption
    <3> QED
      BY <3>1, StrideType
  <2>3. n \div a \in Nat
    BY <2>2, QuotientType
  <2>4. n # k
    BY <2>1, <2>2, <2>3
  <2> QED
    BY <1>5, <2>4
<1>7. CASE Index(t, d) # ordinal[d]
  <2>1. Digit(k, d) # Digit(n, d)
    BY <1>1, <1>4, <1>5, <1>7, PlaceDigits DEF Counts
  <2> QED
    BY <1>5, <2>1
<1> QED
  BY <1>4, <1>6, <1>7

(* and the trace is accepted only at its place.                            *)
LEMMA TakenAt ==
  ASSUME EditTypeOK, FillsUp, NEW n \in Nat, Counts(ordinal, n, Rank),
         NEW t \in Traces, Within(t), Verdict(t) = "accept"
  PROVE  Place(t) = n /\ t.index = Point(n) /\ cycle = {}
<1>1. Axes = 1 .. Rank
  BY DEF Axes
<1>2. Deciding(t) = {}
  <2>1. Deciding(t) # {} /\ ~ OutOfSync(t, Decider(t)) =>
          Remedy(t, Decider(t)) \in {"error", "reject", "dead"}
    BY DeciderType DEF Deciding
  <2> QED
    BY <2>1 DEF Verdict
<1>3. \A r \in Axes : ~ Differs(t, r)
  BY <1>2 DEF Deciding, Remedy, FillsUp, Within
<1>4. \A r \in Axes : Index(t, r) = ordinal[r] /\ r \notin cycle
  BY <1>3 DEF Differs, FillsUp
<1>5. cycle = {}
  BY <1>4 DEF EditTypeOK
<1>6. \A r \in Axes : Index(t, r) = Digit(n, r)
  BY <1>1, <1>4 DEF Counts
<1>7. Place(t) = n
  BY <1>6, PlaceOf
<1>8. t.index = Point(n)
  BY <1>7, PlaceOf
<1> QED
  BY <1>5, <1>7, <1>8

(* What has to be shown of a step.                                         *)
LEMMA FilledNext ==
  ASSUME flags' = flags, given' = given, NEW c,
         \A i \in 1 .. c : Place(given[i]) < Len(made'),
         \A i \in c + 1 .. Len(given) : Len(made') <= Place(given[i]),
         Remaining(c)' \/ (c = Len(given) /\ padding' /\ mode' # "read"),
         c < Len(given) =>
           \A r \in cycle' : Behind(r, Len(made'), Place(given[c + 1]))
  PROVE  FilledTo(c)'
<1>1. Sync' = Sync
  BY DEF Sync
<1>2. (\A i \in 1 .. c : Place(given[i]) < Len(made))'
  BY DEF Place, Index, GetOrdinal, Stride
<1>3. (\A i \in c + 1 .. Len(given) : Len(made) <= Place(given[i]))'
  BY DEF Place, Index, GetOrdinal, Stride
<1>4. (Remaining(c) \/ (c = Len(given) /\ padding /\ mode # "read"))'
  OBVIOUS
<1>5. (c < Len(given) => \A r \in cycle : Behind(r, Len(made), Place(given[c + 1])))'
  <2> SUFFICES ASSUME c < Len(given'), NEW r \in cycle'
               PROVE  Behind(r, Len(made), Place(given[c + 1]))'
    OBVIOUS
  <2>1. Place(given[c + 1])' = Place(given[c + 1]) /\ Stride' = Stride
    BY DEF Place, Index, GetOrdinal, Stride
  <2>2. Behind(r, Len(made'), Place(given[c + 1]))
    OBVIOUS
  <2> QED
    BY <1>1, <2>1, <2>2 DEF Behind
<1> QED
  BY <1>2, <1>3, <1>4, <1>5 DEF FilledTo

LEMMA InPlaceMore ==
  ASSUME EditTypeOK, given' = given, NEW n \in Nat, n = Len(made), InPlace,
         NEW t, made' = Append(made, t),
         t.live <=> \E i \in DOMAIN given :
                      given[i].live /\ given[i].index = Point(n)
  PROVE  InPlace'
<1>1. /\ DOMAIN made = 1 .. n /\ DOMAIN made' = 1 .. n + 1
      /\ made'[n + 1] = t /\ \A k \in 1 .. n : made'[k] = made[k]
  <2>1. made \in Seq(Traces)
    BY DEF EditTypeOK
  <2> QED
    BY <2>1
<1>2. ASSUME NEW k \in 1 .. n + 1
      PROVE  made'[k].live <=> \E i \in DOMAIN given :
                given[i].live /\ given[i].index = Point(k - 1)
  <2>1. CASE k = n + 1
    <3>1. k - 1 = n /\ made'[k] = t
      BY <1>1, <2>1
    <3> QED
      BY <3>1
  <2>2. CASE k # n + 1
    <3>1. k \in DOMAIN made /\ made'[k] = made[k]
      BY <1>1, <2>2
    <3> QED
      BY <3>1 DEF InPlace
  <2> QED
    BY <2>1, <2>2
<1>3. \A k \in DOMAIN made' :
        made'[k].live <=> \E i \in DOMAIN given' :
          given'[i].live /\ given'[i].index = Point(k - 1)
  BY <1>1, <1>2
<1> QED
  BY <1>3 DEF InPlace, Point, Stride, GetExpected

LEMMA InPlaceStays ==
  ASSUME given' = given, made' = made, InPlace
  PROVE  InPlace'
BY DEF InPlace, Point, Stride, GetExpected

(* A dead trace more.                                                      *)
LEMMA DeadMore ==
  ASSUME EditTypeOK, FillsUp, Counted, InPlace,
         NEW c \in 0 .. Len(given), FilledTo(c),
         c < Len(given) => Len(made) < Place(given[c + 1]),
         NEW o, made' = Append(made, DeadTrace(o)),
         NEW chg, CubeInc(ordinal, chg),
         flags' = flags, given' = given, mode' = mode, input' = input,
         padding => padding'
  PROVE  InPlace' /\ FilledTo(c)'
<1>1. PICK n \in Nat : n = Len(made)
  BY Typed
<1>2. Len(given) \in Nat /\ DOMAIN given = 1 .. Len(given)
  BY DEF EditTypeOK
<1>3. Len(made') = n + 1
  BY <1>1, Typed, AppendLen
<1>4. \A i \in 1 .. Len(given) : Place(given[i]) \in Nat
  BY FillsUpTraces
<1>5. \A i \in 1 .. c : Place(given[i]) < n
  BY <1>1 DEF FilledTo
<1>6. \A i \in c + 1 .. Len(given) : n + 1 <= Place(given[i])
  <2> SUFFICES ASSUME NEW i \in c + 1 .. Len(given)
               PROVE  n + 1 <= Place(given[i])
    OBVIOUS
  <2>1. c + 1 \in 1 .. Len(given) /\ i \in 1 .. Len(given) /\ c < Len(given)
    BY <1>2
  <2>2. n < Place(given[c + 1])
    BY <1>1, <2>1
  <2>3. c + 1 = i \/ Place(given[c + 1]) < Place(given[i])
    BY <2>1, FillsUpTraces
  <2> QED
    BY <1>4, <2>1, <2>2, <2>3
<1>7. \A i \in 1 .. Len(given) : given[i].index # Point(n)
  <2> SUFFICES ASSUME NEW i \in 1 .. Len(given), given[i].index = Point(n)
               PROVE  FALSE
    OBVIOUS
  <2>1. Place(given[i]) = n
    BY FillsUpTraces, PlaceOf
  <2>2. i \in 1 .. c \/ i \in c + 1 .. Len(given)
    BY <1>2
  <2> QED
    BY <1>5, <1>6, <2>1, <2>2
<1>8. InPlace'
  <2>1. DeadTrace(o).live = FALSE
    BY DEF DeadTrace
  <2>2. DeadTrace(o).live <=> \E i \in DOMAIN given :
           given[i].live /\ given[i].index = Point(n)
    BY <1>2, <1>7, <2>1
  <2> QED
    BY <1>1, <2>2, InPlaceMore
<1>9. c < Len(given) =>
        \A r \in cycle' : Behind(r, n + 1, Place(given[c + 1]))
  <2> SUFFICES ASSUME c < Len(given)
               PROVE  \A r \in cycle' : Behind(r, n + 1, Place(given[c + 1]))
    OBVIOUS
  <2>1. c + 1 \in 1 .. Len(given)
    BY <1>2
  <2>2. PICK k \in Nat : k = Place(given[c + 1])
    BY <1>4, <2>1
  <2>3. \A r \in cycle : Behind(r, n, k)
    BY <1>1, <2>2 DEF FilledTo
  <2>4. Counts(ordinal, n, Rank)
    BY <1>1, AllCounted
  <2>5. \A r \in cycle' : Behind(r, n + 1, k)
    BY <2>3, <2>4, CarryBehind
  <2> QED
    BY <2>2, <2>5
<1>10. Remaining(c)' \/ (c = Len(given) /\ padding' /\ mode' # "read")
  BY DEF FilledTo, Remaining
<1>11. \A i \in 1 .. c : Place(given[i]) < n + 1
  <2>1. \A i \in 1 .. c : i \in 1 .. Len(given)
    BY <1>2
  <2> QED
    BY <1>4, <1>5, <2>1
<1>12. FilledTo(c)'
  BY <1>3, <1>6, <1>9, <1>10, <1>11, FilledNext
<1> QED
  BY <1>8, <1>12

(* The next trace of the input.                                            *)
LEMMA LiveMore ==
  ASSUME EditTypeOK, FillsUp, Counted, InPlace,
         NEW c \in 0 .. Len(given), FilledTo(c), Remaining(c), c < Len(given),
         Place(given[c + 1]) = Len(made), given[c + 1].index = Point(Len(made)),
         cycle = {}, made' = Append(made, given[c + 1]),
         NEW chg, CubeInc(ordinal, chg),
         flags' = flags, given' = given, input # <<>>, input' = Tail(input)
  PROVE  InPlace' /\ FilledTo(c + 1)'
<1>1. PICK n \in Nat : n = Len(made)
  BY Typed
<1>2. Len(given) \in Nat /\ DOMAIN given = 1 .. Len(given)
      /\ c + 1 \in 1 .. Len(given)
  BY DEF EditTypeOK
<1>3. Len(made') = n + 1
  BY <1>1, Typed, AppendLen
<1>4. \A i \in 1 .. Len(given) : Place(given[i]) \in Nat
  BY FillsUpTraces
<1>5. \A i \in 1 .. c + 1 : Place(given[i]) < n + 1
  <2> SUFFICES ASSUME NEW i \in 1 .. c + 1
               PROVE  Place(given[i]) < n + 1
    OBVIOUS
  <2>1. i \in 1 .. Len(given)
    BY <1>2
  <2>2. i \in 1 .. c => Place(given[i]) < n
    BY <1>1 DEF FilledTo
  <2>3. i \in 1 .. c \/ i = c + 1
    BY <1>2
  <2> QED
    BY <1>1, <1>4, <2>1, <2>2, <2>3
<1>6. \A i \in (c + 1) + 1 .. Len(given) : n + 1 <= Place(given[i])
  <2> SUFFICES ASSUME NEW i \in (c + 1) + 1 .. Len(given)
               PROVE  n + 1 <= Place(given[i])
    OBVIOUS
  <2>1. i \in 1 .. Len(given) /\ c + 1 < i
    BY <1>2
  <2>2. Place(given[c + 1]) < Place(given[i])
    BY <1>2, <2>1, FillsUpTraces
  <2> QED
    BY <1>1, <1>4, <2>1, <2>2
<1>7. given[c + 1].live <=> \E i \in DOMAIN given :
         given[i].live /\ given[i].index = Point(n)
  <2>1. ASSUME NEW i \in 1 .. Len(given), given[i].index = Point(n)
        PROVE  i = c + 1
    <3>1. Place(given[i]) = n
      BY <2>1, FillsUpTraces, PlaceOf
    <3>2. ~ (i < c + 1) /\ ~ (c + 1 < i)
      BY <1>1, <1>2, <3>1, FillsUpTraces
    <3> QED
      BY <1>2, <3>2
  <2> QED
    BY <1>1, <1>2, <2>1
<1>8. InPlace'
  BY <1>1, <1>7, InPlaceMore
<1>9. Remaining(c + 1)'
  <2>1. input \in Seq(Traces) /\ Len(input) \in Nat /\ Len(input) > 0
    BY Typed
  <2>2. Len(Tail(input)) = Len(input) - 1
        /\ \A j \in 1 .. Len(Tail(input)) : Tail(input)[j] = input[j + 1]
    BY <2>1
  <2>3. Len(input) = Len(given) - c
        /\ \A j \in 1 .. Len(input) : input[j] = given[c + j]
    BY DEF Remaining
  <2>4. Len(Tail(input)) = Len(given) - (c + 1)
    <3>1. Len(Tail(input)) = Len(input) - 1 /\ Len(input) = Len(given) - c
      BY <2>2, <2>3
    <3>2. c \in Int /\ Len(given) \in Int
      BY <1>2
    <3> QED
      BY <3>1, <3>2
  <2>5. ASSUME NEW j \in 1 .. Len(Tail(input))
        PROVE  Tail(input)[j] = given[(c + 1) + j]
    <3>1. j + 1 \in 1 .. Len(input) /\ c + (j + 1) = (c + 1) + j
      BY <2>1, <2>2
    <3>2. Tail(input)[j] = input[j + 1]
      BY <2>2
    <3>3. input[j + 1] = given[c + (j + 1)]
      BY <2>3, <3>1
    <3> QED
      BY <3>1, <3>2, <3>3
  <2> QED
    BY <2>4, <2>5 DEF Remaining
<1>10. cycle' = {}
  BY DEF CubeInc
<1>11. FilledTo(c + 1)'
  BY <1>3, <1>5, <1>6, <1>9, <1>10, FilledNext
<1> QED
  BY <1>8, <1>11

(* No trace more.                                                          *)
LEMMA NoneFilled ==
  ASSUME InPlace, NEW c \in 0 .. Len(given), FilledTo(c), made' = made,
         flags' = flags, given' = given,
         Remaining(c)' \/ (c = Len(given) /\ padding' /\ mode' # "read"),
         c < Len(given) =>
           \A r \in cycle' : Behind(r, Len(made), Place(given[c + 1]))
  PROVE  InPlace' /\ FilledTo(c)'
<1>1. InPlace'
  BY InPlaceStays
<1>2. /\ \A i \in 1 .. c : Place(given[i]) < Len(made')
      /\ \A i \in c + 1 .. Len(given) : Len(made') <= Place(given[i])
      /\ c < Len(given) =>
           \A r \in cycle' : Behind(r, Len(made'), Place(given[c + 1]))
  BY DEF FilledTo
<1>3. FilledTo(c)'
  BY <1>2, FilledNext
<1> QED
  BY <1>1, <1>3

(* The trace at the head of the input, or the dummy.                       *)
LEMMA HeadLeft ==
  ASSUME EditTypeOK, FillsUp, NEW c \in 0 .. Len(given), FilledTo(c),
         input # <<>>
  PROVE  \/ c = Len(given) /\ padding /\ mode # "read"
         \/ /\ Remaining(c) /\ c < Len(given) /\ Head(input) = given[c + 1]
            /\ Head(input) \in Traces /\ Within(Head(input))
            /\ Len(made) <= Place(Head(input))
<1>1. Len(given) \in Nat /\ Len(input) \in Nat /\ Len(input) > 0
      /\ Head(input) = input[1] /\ Head(input) \in Traces
  <2>1. input \in Seq(Traces) /\ Len(given) \in Nat
    BY Typed DEF EditTypeOK
  <2> QED
    BY <2>1, HeadOK
<1>2. CASE Remaining(c)
  <2>1. Len(input) = Len(given) - c
    BY <1>2 DEF Remaining
  <2>2. c < Len(given) /\ 1 \in 1 .. Len(input) /\ c + 1 \in 1 .. Len(given)
        /\ c + 1 \in c + 1 .. Len(given)
    BY <1>1, <2>1
  <2>3. input[1] = given[c + 1]
    BY <1>2, <2>2 DEF Remaining
  <2>4. Within(given[c + 1])
    BY <2>2, FillsUpTraces
  <2>5. Len(made) <= Place(given[c + 1])
    BY <2>2 DEF FilledTo
  <2> QED
    BY <1>1, <1>2, <2>2, <2>3, <2>4, <2>5
<1> QED
  BY <1>2 DEF FilledTo

LEMMA EmptyLeft ==
  ASSUME EditTypeOK, NEW c \in 0 .. Len(given), FilledTo(c), input = <<>>
  PROVE  c = Len(given)
<1>1. Len(given) \in Nat /\ Len(input) = 0
  BY DEF EditTypeOK
<1>2. Remaining(c) => Len(input) = Len(given) - c
  BY DEF Remaining
<1> QED
  BY <1>1, <1>2 DEF FilledTo

LEMMA FillTrace ==
  ASSUME IInv, Counted, FillsUp, InPlace,
         NEW c \in 0 .. Len(given), FilledTo(c), ReadTrace \/ WriteTrace
  PROVE  InPlace' /\ \E d \in 0 .. Len(given) : FilledTo(d)'
<1>1. EditTypeOK
  BY DEF IInv
<1>2. PICK t : t = Head(input)
  OBVIOUS
<1>3. input # <<>>
  BY WriteHead DEF ReadTrace, WriteTrace
<1>4. t \in Traces
  BY <1>1, <1>2, <1>3, HeadOK
<1>5. Edited(t) = ordinal /\ Forced(t) = t
  BY <1>1, <1>4, FillVerdict
<1>6. /\ CubeInc(ordinal, Pending(t)) /\ flags' = flags /\ given' = given
      /\ mode' = mode /\ padding' = padding
  BY <1>2, <1>5 DEF ReadTrace, WriteTrace
<1>7. PICK n \in Nat : n = Len(made)
  BY <1>1, Typed
<1>8. Counts(ordinal, n, Rank)
  BY <1>7, AllCounted
<1>9. Len(given) \in Nat
  BY <1>1 DEF EditTypeOK
<1>10. \/ c = Len(given) /\ padding /\ mode # "read"
       \/ /\ Remaining(c) /\ c < Len(given) /\ t = given[c + 1]
          /\ Within(t) /\ n <= Place(t)
  BY <1>1, <1>2, <1>3, <1>7, HeadLeft
<1>11. CASE Verdict(t) = "dead" /\ input' = input
            /\ made' = Append(made, DeadTrace(Edited(t)))
  <2>1. c < Len(given) => Len(made) < Place(given[c + 1])
    <3> SUFFICES ASSUME c < Len(given)
                 PROVE  n < Place(t)
      BY <1>7, <1>9, <1>10
    <3>1. t = given[c + 1] /\ Within(t) /\ n <= Place(t)
      BY <1>9, <1>10
    <3>2. \A r \in cycle : Behind(r, n, Place(t))
      BY <1>7, <3>1 DEF FilledTo
    <3> QED
      BY <1>1, <1>4, <1>8, <1>11, <3>1, <3>2, DeadBefore
  <2>2. InPlace' /\ FilledTo(c)'
    BY <1>1, <1>6, <1>11, <2>1, DeadMore
  <2> QED
    BY <2>2
<1>12. CASE /\ Verdict(t) = "accept" /\ input' = Tail(input)
            /\ made' = Append(made, Forced(t)) /\ (mode = "read" \/ ~ padding)
  <2>1. Remaining(c) /\ c < Len(given) /\ t = given[c + 1] /\ Within(t)
    BY <1>10, <1>12
  <2>2. Place(t) = n /\ t.index = Point(n) /\ cycle = {}
    BY <1>1, <1>4, <1>8, <1>12, <2>1, TakenAt
  <2>3. made' = Append(made, given[c + 1])
    BY <1>5, <1>12, <2>1
  <2>4. InPlace' /\ FilledTo(c + 1)'
    BY <1>1, <1>3, <1>6, <1>7, <1>12, <2>1, <2>2, <2>3, LiveMore
  <2>5. c + 1 \in 0 .. Len(given)
    BY <1>9, <2>1
  <2> QED
    BY <2>4, <2>5
<1>13. \/ /\ Verdict(t) = "dead" /\ input' = input
          /\ made' = Append(made, DeadTrace(Edited(t)))
       \/ /\ Verdict(t) = "accept" /\ input' = Tail(input)
          /\ made' = Append(made, Forced(t)) /\ (mode = "read" \/ ~ padding)
  BY <1>2 DEF ReadTrace, WriteTrace
<1> QED
  BY <1>11, <1>12, <1>13

LEMMA FillQuiet ==
  ASSUME Alike, IInv, Counted, FillsUp, InPlace,
         NEW c \in 0 .. Len(given), FilledTo(c),
         \/ Recycle \/ ReadEnd \/ ReadCall \/ WriteCall \/ WriteFails
         \/ CloseFlush \/ DummyReached \/ Close \/ UNCHANGED editVars
  PROVE  InPlace' /\ FilledTo(c)'
<1>1. EditTypeOK
  BY DEF IInv
<1>2. made' = made /\ flags' = flags /\ given' = given
  BY DEF Recycle, ReadEnd, ReadCall, WriteCall, WriteFails, CloseFlush,
         DummyReached, Close, editVars, Settle
<1>3. PICK n \in Nat : n = Len(made)
  BY <1>1, Typed
<1>4. Remaining(c)' \/ (c = Len(given) /\ padding' /\ mode' # "read")
  <2>1. CASE CloseFlush
    <3>1. input = <<>> /\ padding' = TRUE /\ mode' = mode /\ mode = "write"
      BY <2>1 DEF CloseFlush
    <3> QED
      BY <1>1, <3>1, EmptyLeft
  <2>2. CASE ~ CloseFlush
    <3>1. /\ input' = input /\ (padding => padding')
          /\ mode' = mode \/ mode' = "closed"
      BY <2>2 DEF Recycle, ReadEnd, ReadCall, WriteCall, WriteFails,
                  DummyReached, Close, editVars, Settle
    <3> QED
      BY <1>2, <3>1 DEF FilledTo, Remaining
  <2> QED
    BY <2>1, <2>2
<1>5. c < Len(given) =>
        \A r \in cycle' : Behind(r, Len(made), Place(given[c + 1]))
  <2> SUFFICES ASSUME c < Len(given), NEW r \in cycle'
               PROVE  Behind(r, Len(made), Place(given[c + 1]))
    OBVIOUS
  <2>1. CASE r \in cycle
    BY <2>1 DEF FilledTo
  <2>2. CASE r \notin cycle
    <3>1. Recycle
      BY <2>2 DEF Recycle, ReadEnd, ReadCall, WriteCall, WriteFails,
                  CloseFlush, DummyReached, Close, editVars, Settle, cubeVars
    <3>2. PICK t : t = Head(input)
      OBVIOUS
    <3>3. input # <<>> /\ Verdict(t) = "recycle"
          /\ r \in Sync \cap (1 .. Decider(t))
      BY <2>2, <3>1, <3>2 DEF Recycle
    <3>4. /\ t = given[c + 1] /\ t \in Traces /\ Within(t) /\ n <= Place(t)
      <4>1. Len(given) \in Nat
        BY <1>1 DEF EditTypeOK
      <4> QED
        BY <1>1, <1>3, <3>2, <3>3, <4>1, HeadLeft
    <3>5. Counts(ordinal, n, Rank)
      BY <1>3, AllCounted
    <3>6. r <= Decider(t)
      BY <3>3, DeciderType
    <3>7. Behind(r, n, Place(t))
      BY <1>1, <3>3, <3>4, <3>5, <3>6, CycleBehind
    <3> QED
      BY <1>3, <3>4, <3>7
  <2> QED
    BY <2>1, <2>2
<1> QED
  BY <1>2, <1>4, <1>5, NoneFilled

LEMMA FillPad ==
  ASSUME IInv, Counted, FillsUp, InPlace,
         NEW c \in 0 .. Len(given), FilledTo(c), ReadPad
  PROVE  InPlace' /\ FilledTo(c)'
<1>1. EditTypeOK
  BY DEF IInv
<1>2. input = <<>> /\ made' = Append(made, DeadTrace(ordinal))
      /\ CubeInc(ordinal, change) /\ padding' = TRUE
      /\ flags' = flags /\ given' = given /\ mode' = mode /\ input' = input
  BY DEF ReadPad
<1>3. ~ c < Len(given)
  <2>1. c = Len(given) /\ Len(given) \in Nat
    BY <1>1, <1>2, EmptyLeft DEF EditTypeOK
  <2> QED
    BY <2>1
<1> QED
  BY <1>1, <1>2, <1>3, DeadMore

(* The head of the input is never rejected, nor in error.                  *)
LEMMA FillKeeps ==
  ASSUME IInv, FillsUp, NEW c \in 0 .. Len(given), FilledTo(c)
  PROVE  ~ (ReadDiscard \/ ReadError \/ WriteDiscard \/ WriteError)
<1>1. EditTypeOK
  BY DEF IInv
<1> SUFFICES ASSUME ReadDiscard \/ ReadError \/ WriteDiscard \/ WriteError
             PROVE  FALSE
  OBVIOUS
<1>2. PICK t : t = Head(input)
  OBVIOUS
<1>3. input # <<>> /\ Verdict(t) \in {"reject", "error"}
  BY <1>2, WriteHead DEF ReadDiscard, ReadError, WriteDiscard, WriteError
<1>4. t \in Traces
  BY <1>1, <1>2, <1>3, HeadOK
<1>5. CASE Within(t)
  BY <1>1, <1>3, <1>4, <1>5, FillVerdict
<1>6. CASE padding
  <2>1. ~ Gross(t)
    BY <1>6 DEF Gross
  <2>2. \A r \in Axes : Remedy(t, r) \in {"none", "dead", "fail"}
    BY DEF Remedy, FillsUp
  <2>3. Deciding(t) # {} /\ ~ OutOfSync(t, Decider(t)) =>
          Remedy(t, Decider(t)) = "dead"
    BY <2>2, DeciderType DEF Deciding
  <2>4. \A j : j \notin flags.error
    BY DEF FillsUp
  <2> QED
    BY <1>3, <2>1, <2>3, <2>4 DEF Verdict
<1> QED
  BY <1>1, <1>2, <1>3, <1>5, <1>6, HeadLeft

LEMMA FillingUpStep ==
  ASSUME Alike, IInv, Counted, FillingUp, [EditNext]_editVars
  PROVE  FillingUp'
<1>1. flags' = flags /\ given' = given
      /\ (mode' = mode \/ (mode = "write" /\ mode' = "closed"))
  BY DEF EditNext, EditStep, Recycle, ReadCall, ReadTrace, ReadDiscard,
         ReadError, ReadPad, ReadEnd, WriteCall, WriteTrace, WriteDiscard,
         WriteError, WriteFails, CloseFlush, DummyReached, Close, editVars
<1>2. FillsUp' = FillsUp
  BY <1>1, SameFillsUp
<1> SUFFICES ASSUME FillsUp
             PROVE  InPlace' /\ \E c \in 0 .. Len(given) : FilledTo(c)'
  BY <1>1, <1>2 DEF FillingUp
<1>3. InPlace
  BY DEF FillingUp
<1>4. PICK c \in 0 .. Len(given) : FilledTo(c)
  BY DEF FillingUp
<1>5. CASE ReadTrace \/ WriteTrace
  BY <1>3, <1>4, <1>5, FillTrace
<1>6. CASE \/ Recycle \/ ReadEnd \/ ReadCall \/ WriteCall \/ WriteFails
           \/ CloseFlush \/ DummyReached \/ Close \/ UNCHANGED editVars
  BY <1>3, <1>4, <1>6, FillQuiet
<1>7. CASE ReadPad
  BY <1>3, <1>4, <1>7, FillPad
<1>8. ~ (ReadDiscard \/ ReadError \/ WriteDiscard \/ WriteError)
  BY <1>4, FillKeeps
<1> QED
  BY <1>5, <1>6, <1>7, <1>8 DEF EditNext, EditStep

LEMMA FillingUpInit ==
  ASSUME EditInit
  PROVE  FillingUp
<1>1. EditTypeOK
  BY InitIInv DEF IInv
<1>2. made = <<>> /\ given = input /\ cycle = {} /\ Len(given) \in Nat
  BY <1>1 DEF EditInit, EditTypeOK
<1>3. InPlace
  BY <1>2 DEF InPlace
<1>4. Remaining(0)
  BY <1>2 DEF Remaining
<1>5. FillsUp => FilledTo(0)
  <2> SUFFICES ASSUME FillsUp
               PROVE  FilledTo(0)
    OBVIOUS
  <2>1. Len(made) = 0
    BY <1>2
  <2>2. \A i \in 1 .. Len(given) : Place(given[i]) \in Nat
    BY <1>1, FillsUpTraces
  <2>3. \A i \in 0 + 1 .. Len(given) : Len(made) <= Place(given[i])
    BY <2>1, <2>2
  <2> QED
    BY <1>2, <1>4, <2>3 DEF FilledTo
<1>6. 0 \in 0 .. Len(given)
  BY <1>2
<1> QED
  BY <1>3, <1>5, <1>6 DEF FillingUp

(* A dense cube is filled up: if the traces there are come in order, each  *)
(* is read or written at its own place, and a dead trace at every place    *)
(* between them, while ddsEditTrace makes axes wait for the next higher    *)
(* ones, calls are cut anywhere, and the last plane is padded.             *)
THEOREM CubeFilledUp ==
  ASSUME Alike
  PROVE  EditSpec => []Filled
<1>1. EditInit => Counted /\ InStep
  BY InStepInit
<1>2. IInv /\ Counted /\ InStep /\ [EditNext]_editVars => Counted' /\ InStep'
  BY InStepStep
<1>3. EditInit => FillingUp
  BY FillingUpInit
<1>4. IInv /\ Counted /\ FillingUp /\ [EditNext]_editVars => FillingUp'
  BY FillingUpStep
<1>5. FillingUp => Filled
  BY DEF FillingUp, Filled, FillsUp, InPlace
<1> QED
  BY <1>1, <1>2, <1>3, <1>4, <1>5, AlwaysIInv, PTL DEF EditSpec

-----------------------------------------------------------------------------
(* Cubes that are complete at the end                                      *)

(* A number with zeros for its lower digits is a multiple of their places. *)
LEMMA ZeroBelow ==
  ASSUME NEW n \in Nat, NEW q \in Axes, q < Rank, \A r \in 1 .. q : Digit(n, r) = 0
  PROVE  n % Stride[q + 1] = 0
<1> DEFINE T == {m \in 1 .. q + 1 : n % Stride[m] # 0}
<1>1. Rank \in Nat /\ Rank > 0 /\ Axes = 1 .. Rank /\ q \in Nat
  BY CubeAssumption DEF Axes
<1>2. T = {}
  <2> SUFFICES ASSUME T # {} PROVE FALSE
    OBVIOUS
  <2>1. T \in SUBSET Nat
    BY <1>1
  <2>2. PICK m \in T : \A k \in T : m <= k
    BY <2>1, LeastNumber
  <2>3. m # 1
    <3>1. n % 1 = 0
      OBVIOUS
    <3> QED
      BY <2>2, <3>1, StrideSteps
  <2>4. PICK p : p = m - 1
    OBVIOUS
  <2>5. p \in Axes /\ p \in 1 .. q /\ p \in 1 .. q + 1 /\ p \notin T
        /\ p + 1 = m /\ p < Rank /\ p \in 1 .. Rank + 1
    BY <1>1, <2>2, <2>3, <2>4
  <2>6. PICK s \in Nat \ {0}, z \in Nat \ {0} : s = Stride[p] /\ z = Size[p]
    BY <2>5, StrideType, CubeAssumption
  <2>7. PICK a \in Nat : a = n \div s
    BY <2>6, QuotientType
  <2>8. n = s * a + 0
    <3>1. n % s = 0
      BY <2>5, <2>6
    <3> QED
      BY <2>6, <2>7, <3>1, QuotientType
  <2>9. a % z = 0
    BY <2>5, <2>6, <2>7 DEF Digit
  <2>10. PICK b \in Nat : b = a \div z
    BY <2>6, <2>7, QuotientType
  <2>11. a = z * b + 0
    <3>1. a = z * (a \div z) + (a % z)
      BY <2>6, <2>7, QuotientType
    <3> QED
      BY <2>9, <2>10, <3>1
  <2>12. PICK w \in Nat \ {0} : w = s * z
    <3>1. s * z \in Nat \ {0}
      BY <2>6
    <3> QED
      BY <3>1
  <2>13. n = w * b + 0
    <3>1. s * (z * b) = (s * z) * b
      BY <2>6, <2>10
    <3> QED
      BY <2>8, <2>11, <2>12, <3>1
  <2>14. n % w = 0
    <3>1. 0 \in 0 .. w - 1
      BY <2>12
    <3> QED
      BY <2>10, <2>12, <2>13, <3>1, QuotientOf
  <2>15. Stride[m] = w
    BY <2>5, <2>6, <2>12, StrideSteps
  <2> QED
    BY <2>2, <2>14, <2>15
<1> QED
  BY <1>1, <1>2

(* The dense axes below the highest are in order.                          *)
LEMMA DenseRegular ==
  ASSUME NEW q \in 1 .. Rank, 1 .. q \subseteq flags.sort \cap Dense
  PROVE  q <= Regular
<1>1. Rank \in Nat /\ Axes = 1 .. Rank
  BY CubeAssumption DEF Axes
<1>2. Regular \in 0 .. Rank /\ (Regular < Rank => ~ Strict(Regular + 1))
  BY RegularIs
<1>3. ASSUME Regular < q PROVE FALSE
  <2>1. Regular + 1 \in 1 .. q /\ Regular < Rank
    BY <1>1, <1>2, <1>3
  <2>2. Strict(Regular + 1)
    BY <2>1 DEF Strict
  <2> QED
    BY <1>2, <2>1, <2>2
<1> QED
  BY <1>1, <1>2, <1>3

(* While a file that has been written is padded, the dummy waits for the   *)
(* lower axes to start again; when it has been reached they have.          *)
Padded ==
  flags.error \cup flags.force \cup flags.reject = {} /\ padding /\ mode # "read" =>
    /\ left = 0 /\ ~ eom =>
         \A r \in flags.sort \cap Dense : r < Rank => ordinal[r] = 0
    /\ left > 0 =>
         /\ left = 1 /\ Len(input) = 1
         /\ \A r \in Axes : r < Rank => input[1].index[r] = GetExpected(0, r)

(* The dummy is not reached before.                                        *)
LEMMA DummyWaits ==
  ASSUME EditTypeOK, flags.error \cup flags.force \cup flags.reject = {}, padding,
         NEW t, \A r \in Axes : r < Rank => t.index[r] = GetExpected(0, r)
  PROVE  /\ Verdict(t) \in {"accept", "dead", "recycle"}
         /\ Verdict(t) = "accept" =>
              \A r \in flags.sort \cap Dense : r < Rank => ordinal[r] = 0
<1>1. \A r \in Axes : Remedy(t, r) \in {"none", "follow", "dead", "fail"}
  BY DEF Remedy
<1>2. ~ Gross(t)
  BY DEF Gross
<1>3. Deciding(t) # {} /\ ~ OutOfSync(t, Decider(t)) =>
        Remedy(t, Decider(t)) = "dead"
  BY <1>1, DeciderType DEF Deciding
<1>4. \A j : j \notin flags.error
  OBVIOUS
<1>5. Verdict(t) \in {"accept", "dead", "recycle"}
  BY <1>2, <1>3, <1>4 DEF Verdict
<1>6. ASSUME Verdict(t) = "accept", NEW r \in flags.sort \cap Dense, r < Rank
      PROVE  ordinal[r] = 0
  <2>1. r \in Axes
    BY DEF Dense
  <2>2. Deciding(t) = {}
    BY <1>2, <1>3, <1>6 DEF Verdict
  <2>3. Remedy(t, r) # "dead"
    BY <2>1, <2>2 DEF Deciding
  <2>4. Base[r] \in Int /\ Size[r] \in Nat \ {0}
    BY <2>1, CubeAssumption
  <2>5. Index(t, r) = 0 /\ Inside(Index(t, r), r)
    BY <1>6, <2>1, <2>4 DEF Index, GetOrdinal, GetExpected, Inside
  <2>6. ~ Differs(t, r)
    BY <1>6, <2>3, <2>5 DEF Remedy
  <2> QED
    BY <1>6, <2>5, <2>6 DEF Differs
<1> QED
  BY <1>5, <1>6

LEMMA PaddedStep ==
  ASSUME IInv, Padded, [EditNext]_editVars
  PROVE  Padded'
<1>1. EditTypeOK
  BY DEF IInv
<1>2. flags' = flags
  BY DEF EditNext, EditStep, Recycle, ReadCall, ReadTrace, ReadDiscard,
         ReadError, ReadPad, ReadEnd, WriteCall, WriteTrace, WriteDiscard,
         WriteError, WriteFails, CloseFlush, DummyReached, Close, editVars
<1> SUFFICES ASSUME flags.error \cup flags.force \cup flags.reject = {},
                    padding', mode' # "read"
             PROVE  /\ left' = 0 /\ ~ eom' =>
                         \A r \in flags.sort \cap Dense' : r < Rank => ordinal'[r] = 0
                    /\ left' > 0 =>
                         /\ left' = 1 /\ Len(input') = 1
                         /\ \A r \in Axes : r < Rank =>
                              input'[1].index[r] = GetExpected(0, r)
  BY <1>2 DEF Padded, GetExpected
<1>3. CASE ReadCall \/ ReadTrace \/ ReadDiscard \/ ReadError \/ ReadPad \/ ReadEnd
  BY <1>3 DEF ReadCall, ReadTrace, ReadDiscard, ReadError, ReadPad, ReadEnd
<1>4. CASE WriteCall
  BY <1>4 DEF WriteCall
<1>5. CASE CloseFlush
  <2>1. left' = 1 /\ input' = <<Dummy>>
    BY <1>5 DEF CloseFlush
  <2>2. \A r \in Axes : r < Rank => Dummy.index[r] = GetExpected(0, r)
    BY DEF Dummy
  <2> QED
    BY <2>1, <2>2
<1>6. CASE Close \/ UNCHANGED editVars
  <2>1. /\ UNCHANGED <<ordinal, padding, eom, input, left>>
        /\ mode' = mode \/ (mode = "write" /\ mode' = "closed")
    BY <1>6 DEF Close, editVars, cubeVars
  <2>2. Dense' = Dense
    BY <1>2, <2>1 DEF Dense
  <2> QED
    BY <2>1, <2>2 DEF Padded
<1>7. CASE Recycle \/ WriteTrace \/ WriteDiscard \/ WriteError \/ WriteFails
           \/ DummyReached
  <2>1. padding /\ mode # "read" /\ left > 0 /\ mode' = mode
    BY <1>7 DEF Recycle, WriteTrace, WriteDiscard, WriteError, WriteFails,
                DummyReached
  <2>2. left = 1 /\ Len(input) = 1
        /\ \A r \in Axes : r < Rank => input[1].index[r] = GetExpected(0, r)
    BY <2>1 DEF Padded
  <2>3. PICK t : t = input[1]
    OBVIOUS
  <2>4. Head(input) = t
    BY <2>2, <2>3
  <2>5. /\ Verdict(t) \in {"accept", "dead", "recycle"}
        /\ Verdict(t) = "accept" =>
              \A r \in flags.sort \cap Dense : r < Rank => ordinal[r] = 0
    BY <1>1, <2>1, <2>2, <2>3, DummyWaits
  <2>6. Dense' = Dense
    BY <1>2, <2>1 DEF Dense
  <2>7. CASE Recycle \/ WriteTrace
    <3>1. left' = left /\ input' = input
      BY <2>1, <2>7 DEF Recycle, WriteTrace
    <3> QED
      BY <2>2, <3>1
  <2>8. CASE WriteFails
    BY <2>8 DEF WriteFails
  <2>9. CASE DummyReached
    <3>1. left' = 0 /\ ordinal' = Edited(t) /\ Verdict(t) = "accept"
      BY <2>4, <2>9 DEF DummyReached, Settle
    <3>2. \A r \in flags.sort \cap Dense : r \in Axes /\ Strict(r)
      BY DEF Dense, Strict
    <3> QED
      BY <2>5, <2>6, <3>1, <3>2, EditedKeeps
  <2>10. ~ (WriteDiscard \/ WriteError)
    BY <2>4, <2>5 DEF WriteDiscard, WriteError
  <2> QED
    BY <1>7, <2>7, <2>8, <2>9, <2>10
<1> QED
  BY <1>3, <1>4, <1>5, <1>6, <1>7 DEF EditNext, EditStep

PlanesDone ==
  (/\ ReadEnd \/ (Close /\ written /\ ~ eom)
   /\ flags.error \cup flags.force \cup flags.reject = {})
  => \A n \in 1 .. Rank - 1 :
       (1 .. n \subseteq flags.sort \cap Dense) => Len(made) % Stride[n + 1] = 0

LEMMA PlanesAreDone ==
  ASSUME IInv, Counted, Padded
  PROVE  PlanesDone
<1>1. Rank \in Nat /\ Axes = 1 .. Rank
  BY CubeAssumption DEF Axes
<1> SUFFICES ASSUME ReadEnd \/ (Close /\ written /\ ~ eom),
                    flags.error \cup flags.force \cup flags.reject = {},
                    NEW n \in 1 .. Rank - 1,
                    1 .. n \subseteq flags.sort \cap Dense
             PROVE  Len(made) % Stride[n + 1] = 0
  BY DEF PlanesDone
<1>2. n \in Axes /\ n < Rank /\ n \in 1 .. Rank
  BY <1>1
<1>3. n <= Regular /\ Regular \in 0 .. Rank
  BY <1>2, DenseRegular, RegularIs
<1>4. \A r \in flags.sort \cap Dense : r < Rank => ordinal[r] = 0
  <2>1. CASE ReadEnd
    BY <2>1 DEF ReadEnd, MoreDead
  <2>2. CASE Close /\ written /\ ~ eom
    <3>1. mode = "write" /\ left = 0 /\ ~ eom /\ (padding \/ ~ FlushPad)
      BY <2>2 DEF Close
    <3>2. CASE padding
      BY <3>1, <3>2 DEF Padded
    <3>3. CASE ~ FlushPad
      <4>1. \A r \in Dense : r \notin flags.sparse
        BY <3>1 DEF Dense
      <4> QED
        BY <2>2, <3>3, <4>1 DEF FlushPad
    <3> QED
      BY <3>1, <3>2, <3>3
  <2> QED
    BY <2>1, <2>2
<1>5. PICK k \in Nat : k = Len(made)
  BY Typed DEF IInv
<1>6. \A r \in 1 .. n : Digit(k, r) = 0
  <2> SUFFICES ASSUME NEW r \in 1 .. n
               PROVE  Digit(k, r) = 0
    OBVIOUS
  <2>1. r \in flags.sort \cap Dense /\ r < Rank /\ r \in 1 .. Regular
    BY <1>1, <1>2, <1>3
  <2> QED
    BY <1>4, <1>5, <2>1 DEF Counted, Counts
<1> QED
  BY <1>2, <1>5, <1>6, ZeroBelow

(* When a read has come to the end, and when a file that has been written  *)
(* is closed, the planes of the dense axes are complete, whatever was      *)
(* missing (ddsEditFinal and ddsCloseFlush).                               *)
THEOREM PlanesComplete == EditSpec => PaddedAtEnd
<1>1. EditInit => Counted /\ InStep
  BY InStepInit
<1>2. IInv /\ Counted /\ InStep /\ [EditNext]_editVars => Counted' /\ InStep'
  BY InStepStep
<1>3. EditInit => Padded
  BY DEF EditInit, Padded
<1>4. IInv /\ Padded /\ [EditNext]_editVars => Padded'
  BY PaddedStep
<1>5. IInv /\ Counted /\ Padded /\ [EditNext]_editVars => [PlanesDone]_editVars
  BY PlanesAreDone
<1>6. [PlanesDone]_editVars =>
        [ (/\ ReadEnd \/ (Close /\ written /\ ~ eom)
           /\ flags.error \cup flags.force \cup flags.reject = {})
          => \A n \in 1 .. Rank - 1 :
               (1 .. n \subseteq flags.sort \cap Dense)
                 => Len(made) % Stride[n + 1] = 0 ]_editVars
  BY DEF PlanesDone
<1> QED
  BY <1>1, <1>2, <1>3, <1>4, <1>5, <1>6, AlwaysIInv, PTL DEF EditSpec, PaddedAtEnd

=============================================================================
