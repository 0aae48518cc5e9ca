-------------------------- MODULE GioStreamsProofs --------------------------
(***************************************************************************)
(* Streams with their buffers use descriptors as GioCfd says: every call   *)
(* of GioStreams is a call of GioCfd or leaves the descriptors alone, so   *)
(* that what GioCfdProofs proves holds of GioStreams too.  Then, on top of *)
(* what GioBufferProofs says of one stream: the buffers, positions and     *)
(* descriptors of all streams agree after every call.  Last, GioStreams    *)
(* implements StreamStore when every file is kept to one stream, and a     *)
(* file that is only read and appended to keeps what it has.               *)
(***************************************************************************)
EXTENDS GioStreams, GioCfdProofs, GioBufferProofs

(* A transfer, a seek or a position query touches descriptors in its       *)
(* GIO_cfd_check only.                                                     *)
LEMMA CheckedCall ==
  ASSUME NEW s \in Streams, NEW v \in Streams \cup {NoStream},
         \/ Gread(s, v)
         \/ Gwrite(s, v)
         \/ GunreadBytes(s, v)
         \/ GsetposCall(s, v)
         \/ GseekCur(s, v)
         \/ GseekEnd(s, v)
         \/ GgetposCall(s, v)
         \/ ReadPointer(s, v)
         \/ WritePointer(s, v)
         \/ GsetvbufCall(s, v)
  PROVE  CfdNext
<1>1. CASE Gread(s, v)
  BY <1>1, Zenon DEF Gread, Checked, GIO_cfd_check, CfdNext
<1>2. CASE Gwrite(s, v)
  BY <1>2, Zenon DEF Gwrite, Checked, GIO_cfd_check, CfdNext
<1>3. CASE GunreadBytes(s, v)
  BY <1>3, Zenon DEF GunreadBytes, Checked, GIO_cfd_check, CfdNext
<1>4. CASE GsetposCall(s, v)
  BY <1>4, Zenon DEF GsetposCall, Setpos, Checked, GIO_cfd_check, CfdNext
<1>5. CASE GseekCur(s, v)
  BY <1>5, Zenon DEF GseekCur, Setpos, Checked, GIO_cfd_check, CfdNext
<1>6. CASE GseekEnd(s, v)
  BY <1>6, Zenon DEF GseekEnd, Checked, GIO_cfd_check, CfdNext
<1>7. CASE GgetposCall(s, v)
  BY <1>7, Zenon DEF GgetposCall, Checked, GIO_cfd_check, CfdNext
<1>8. CASE ReadPointer(s, v)
  BY <1>8, Zenon DEF ReadPointer, Checked, GIO_cfd_check, CfdNext
<1>9. CASE WritePointer(s, v)
  BY <1>9, Zenon DEF WritePointer, Checked, GIO_cfd_check, CfdNext
<1>10. CASE GsetvbufCall(s, v)
  BY <1>10, Zenon DEF GsetvbufCall, Checked, GIO_cfd_check, CfdNext
<1> QED
  BY <1>1, <1>2, <1>3, <1>4, <1>5, <1>6, <1>7, <1>8, <1>9, <1>10

(* Every call is one of GioCfd, except gflush, ggetc and gputc, which do   *)
(* not see to it that the descriptor is open.                              *)
LEMMA NextIsCfdNext == [Next]_vars => [CfdNext]_cfdVars
<1> SUFFICES ASSUME [Next]_vars PROVE [CfdNext]_cfdVars
  OBVIOUS
<1>1. CASE UNCHANGED vars
  BY <1>1 DEF vars
<1>2. ASSUME NEW s \in Streams, NEW v \in Streams \cup {NoStream},
             Gopen(s, v) \/ GopenError(s, v) \/ CallError(s, v)
      PROVE  CfdNext
  <2>1. CASE Gopen(s, v)
    <3>1. PICK cached \in BOOLEAN : GopenOk(s, cached, v)
      BY <2>1, Zenon DEF Gopen
    <3> QED
      BY <3>1 DEF CfdNext
  <2>2. CASE GopenError(s, v)
    BY <2>2 DEF GopenError, CfdNext
  <2>3. CASE CallError(s, v)
    BY <2>3 DEF CallError, CfdNext
  <2> QED
    BY <1>2, <2>1, <2>2, <2>3
<1>3. ASSUME NEW s \in Streams,
             GdopenStream(s) \/ GcloseStream(s) \/ GcloseClosed(s)
      PROVE  CfdNext
  BY <1>3 DEF GdopenStream, GcloseStream, GcloseClosed, CfdNext
<1>4. ASSUME NEW s \in Streams, GflushStream(s) \/ GetChar(s) \/ PutChar(s)
      PROVE  UNCHANGED cfdVars
  <2>1. CASE GflushStream(s)
    BY <2>1 DEF GflushStream
  <2>2. CASE GetChar(s)
    BY <2>2, Zenon DEF GetChar, ByDescriptor
  <2>3. CASE PutChar(s)
    BY <2>3, Zenon DEF PutChar, ByDescriptor
  <2> QED
    BY <1>4, <2>1, <2>2, <2>3
<1>5. CASE SetLimit
  BY <1>5 DEF SetLimit, CfdNext
<1> QED
  BY <1>1, <1>2, <1>3, <1>4, <1>5, CheckedCall DEF Next

(* GioStreams implements GioCfd: what buffers, errors of transfers and     *)
(* positions add never makes a call use descriptors in another way.        *)
THEOREM StreamsImplementCfd == Spec => CfdSpec
<1>1. Init => CfdInit
  BY DEF Init
<1> QED
  BY <1>1, NextIsCfdNext, PTL DEF Spec, CfdSpec

(* Of streams with buffers, too: no descriptor is lent twice or leaked.    *)
THEOREM StreamsOwnership == Spec => []FdOwnership
BY StreamsImplementCfd, CfdOwnership, PTL

-----------------------------------------------------------------------------
(* Buffers and descriptors                                                 *)

(* The inductive invariant when read() and write() do not fail, nothing is *)
(* pushed back and every call starts with GIO_cfd_check or finds the       *)
(* descriptor there: each stream is Sound, its descriptor is InPlace, and  *)
(* a stream that waits for one has nothing to lose.                        *)
StreamsInv ==
  /\ CfdInv
  /\ content \in [Files -> Seq(Bytes)]
  /\ kpos \in [Streams -> Nat]
  /\ last_open_pos \in [Streams -> Nat]
  /\ last_close_status \in [Streams -> BOOLEAN]
  /\ st = [s \in Streams |-> st[s]]
  /\ \A s \in Streams : Sound(st[s])
  /\ \A s \in Streams : really_open[s] => InPlace(st[s], kpos[s])
  /\ \A s \in Streams :
       life[s] = "open" /\ ~ really_open[s]
         => st[s].data = <<>> /\ last_open_pos[s] = st[s].offset

LEMMA FreshSound ==
  ASSUME NEW can, NEW at \in Nat
  PROVE  Sound(Fresh(can, at)) /\ InPlace(Fresh(can, at), at)
<1> DEFINE x == Fresh(can, at)
<1>1. /\ DOMAIN x = {"mode", "can", "offset", "data", "used", "unread", "room",
                     "lead", "size_p", "buffered"}
      /\ x.mode = "idle" /\ x.offset = at /\ x.data = <<>> /\ x.used = 0
      /\ x.unread = <<>> /\ x.room = 0 /\ x.lead = 0 /\ x.size_p = 0
      /\ x.buffered \in BOOLEAN
  BY DEF Fresh
<1> HIDE DEF x
<1>2. Sound(x)
  <2>1. x.data \in Seq(Bytes) /\ Len(x.data) = 0
    BY <1>1, EmptyType
  <2> QED
    BY <1>1, <2>1 DEF Sound
<1>3. InPlace(x, at)
  BY <1>1 DEF InPlace
<1> QED
  BY <1>2, <1>3 DEF x

(* A call on s has come to the stream b and the offset p after v has been  *)
(* closed, if v is a stream.                                               *)
LEMMA StoreStep ==
  ASSUME StreamsInv, CfdInv', NEW s \in Streams, NEW v, NEW e, NEW b,
         NEW p \in Nat, NEW q \in Nat, NEW c \in [Files -> Seq(Bytes)],
         v = NoStream \/ (v \in Streams /\ v # s /\ Flushed(e, st[v])),
         \A t \in Streams : t # s =>
           /\ life'[t] = life[t]
           /\ really_open'[t] <=> (t # v /\ really_open[t]),
         Sound(b), really_open'[s] => InPlace(b, p),
         life'[s] = "open" /\ ~ really_open'[s]
           => b.data = <<>> /\ q = b.offset,
         Store(s, v, e, b, p, c), KeepPosition(s, v, q)
  PROVE  StreamsInv'
<1>1. /\ st' = [t \in Streams |-> IF t = s THEN b
                                  ELSE IF t = v THEN e.b ELSE st[t]]
      /\ kpos' = [t \in Streams |-> IF t = s THEN p
                                    ELSE IF t = v THEN 0 ELSE kpos[t]]
      /\ content' = c
      /\ last_close_status' =
           [t \in Streams |-> IF t = v THEN e.ok ELSE last_close_status[t]]
  BY DEF Store
<1>2. last_open_pos' = [t \in Streams |-> IF t = v THEN Getpos(st[v])
                                          ELSE IF t = s THEN q
                                          ELSE last_open_pos[t]]
  BY DEF KeepPosition
<1>3. v \in Streams => /\ v # s /\ Sound(st[v]) /\ Sound(e.b)
                       /\ e.ok \in BOOLEAN /\ Getpos(st[v]) \in Nat
                       /\ e.b.data = <<>> /\ e.b.offset = Getpos(st[v])
  <2>1. CASE v = NoStream
    BY <2>1, StreamsAssumption
  <2>2. CASE v # NoStream
    BY <2>2, GetposType DEF StreamsInv, Flushed, Fits, Good
  <2> QED
    BY <2>1, <2>2
<1>4. content' \in [Files -> Seq(Bytes)]
  BY <1>1
<1>5. kpos' \in [Streams -> Nat]
  BY <1>1 DEF StreamsInv
<1>6. last_open_pos' \in [Streams -> Nat]
  BY <1>2, <1>3 DEF StreamsInv
<1>7. last_close_status' \in [Streams -> BOOLEAN]
  BY <1>1, <1>3 DEF StreamsInv
<1>8. st' = [t \in Streams |-> st'[t]]
  BY <1>1
<1>9. ASSUME NEW t \in Streams
      PROVE  /\ Sound(st'[t])
             /\ really_open'[t] => InPlace(st'[t], kpos'[t])
             /\ life'[t] = "open" /\ ~ really_open'[t]
                  => st'[t].data = <<>> /\ last_open_pos'[t] = st'[t].offset
  <2>1. CASE t = s
    BY <1>1, <1>2, <1>3, <2>1
  <2>2. CASE t # s /\ t = v
    BY <1>1, <1>2, <1>3, <2>2
  <2>3. CASE t # s /\ t # v
    BY <1>1, <1>2, <2>3 DEF StreamsInv
  <2> QED
    BY <2>1, <2>2, <2>3
<1> QED
  BY <1>4, <1>5, <1>6, <1>7, <1>8, <1>9 DEF StreamsInv

(* A stream that has its descriptor is Good for it.                        *)
LEMMA DiskGood ==
  ASSUME StreamsInv, NEW s \in Streams, really_open[s]
  PROVE  Good(st[s], Disk(s))
<1> DEFINE k == Disk(s)
<1>1. DOMAIN k = {"bytes", "pos"} /\ k.bytes = content[NameOf[s]]
      /\ k.pos = kpos[s]
  BY DEF Disk
<1> HIDE DEF k
<1>2. Kernel(k)
  BY <1>1, FilesAssumption DEF Kernel, StreamsInv
<1> QED
  BY <1>1, <1>2 DEF Good, StreamsInv, k

(* What a temporary close leaves, and the files after it.                  *)
LEMMA EvictionFits ==
  ASSUME StreamsInv, ~ IOErrors, NEW v \in Streams, really_open[v],
         NEW e \in Evictions(v)
  PROVE  Flushed(e, st[v])
<1>1. v # NoStream
  BY StreamsAssumption
<1>2. e \in Gflush(st[v], Disk(v))
  BY <1>1 DEF Evictions
<1>3. Good(st[v], Disk(v))
  BY DiskGood
<1> DEFINE b == st[v]
           k == Disk(v)
<1>4. Good(b, k) /\ e \in Gflush(b, k)
  BY <1>2, <1>3
<1> HIDE DEF b, k
<1>5. Flushed(e, b)
  BY <1>4, GflushFits
<1> QED
  BY <1>5 DEF b

LEMMA FilesAfter ==
  ASSUME StreamsInv, NEW v, NEW e,
         v = NoStream \/ (v \in Streams /\ Flushed(e, st[v]))
  PROVE  ContentAfter(v, e) \in [Files -> Seq(Bytes)]
<1>1. CASE v = NoStream
  BY <1>1 DEF ContentAfter, StreamsInv
<1>2. CASE v # NoStream
  <2>1. e.k.bytes \in Seq(Bytes)
    BY <1>2 DEF Flushed, Fits, Good, Kernel
  <2> QED
    BY <1>2, <2>1, FilesAssumption DEF ContentAfter, StreamsInv
<1> QED
  BY <1>1, <1>2

(* GIO_cfd_check gives s its descriptor and takes one away from v at most. *)
LEMMA CheckFacts ==
  ASSUME StreamsInv, NEW s \in Streams, NEW v \in Streams \cup {NoStream},
         GIO_cfd_check(s, v)
  PROVE  /\ v = NoStream \/ (v \in Streams /\ v # s /\ really_open[v])
         /\ life[s] = "open" /\ really_open'[s]
         /\ \A t \in Streams : t # s =>
              /\ life'[t] = life[t]
              /\ really_open'[t] <=> (t # v /\ really_open[t])
<1>1. CfdTypeOK
  BY DEF StreamsInv, CfdInv
<1>2. CASE v = NoStream /\ CheckReal(s)
  BY <1>2, StreamsAssumption DEF CheckReal
<1>3. CASE CheckReopen(s, v)
  <2>1. /\ life[s] = "open" /\ ~ really_open[s] /\ life' = life
        /\ v \in Victims
        /\ really_open' = [t \in Streams |-> t = s \/ (t # v /\ really_open[t])]
    BY <1>3 DEF CheckReopen, GIO_open_ok
  <2>2. v = NoStream \/ (v \in Streams /\ really_open[v])
    BY <1>1, <2>1, VictimIsOpen
  <2>3. v # s
    BY <2>1, <2>2, StreamsAssumption
  <2> QED
    BY <2>1, <2>2, <2>3
<1> QED
  BY <1>2, <1>3 DEF GIO_cfd_check

(* The file and the offset a checked call on s finds.                      *)
DiskAfter(s, v, e) ==
  [bytes |-> ContentAfter(v, e)[NameOf[s]], pos |-> ReopenedAt(s)]

LEMMA CheckedStart ==
  ASSUME StreamsInv, ~ IOErrors, NEW s \in Streams,
         NEW v \in Streams \cup {NoStream}, GIO_cfd_check(s, v),
         NEW e \in Evictions(v)
  PROVE  /\ Good(Reopened(s), DiskAfter(s, v, e))
         /\ v = NoStream \/ (v \in Streams /\ v # s /\ Flushed(e, st[v]))
<1>1. v = NoStream \/ (v \in Streams /\ v # s /\ Flushed(e, st[v]))
  BY CheckFacts, EvictionFits
<1>2. ContentAfter(v, e) \in [Files -> Seq(Bytes)]
  BY <1>1, FilesAfter
<1> DEFINE k == DiskAfter(s, v, e)
           b == Reopened(s)
<1>3. /\ DOMAIN k = {"bytes", "pos"} /\ k.pos = ReopenedAt(s)
      /\ k.bytes \in Seq(Bytes)
  BY <1>2, FilesAssumption DEF DiskAfter
<1>4. CASE really_open[s]
  <2>1. b = st[s] /\ k.pos = kpos[s]
    BY <1>3, <1>4 DEF Reopened, ReopenedAt
  <2> HIDE DEF b, k
  <2>2. Kernel(k)
    BY <1>3, <2>1 DEF Kernel, StreamsInv
  <2>3. Sound(b) /\ InPlace(b, k.pos)
    BY <1>4, <2>1 DEF StreamsInv
  <2>4. Good(b, k)
    BY <2>2, <2>3 DEF Good
  <2> QED
    BY <1>1, <2>4 DEF b, k
<1>5. CASE ~ really_open[s]
  <2>1. life[s] = "open" /\ Sound(st[s]) /\ last_open_pos[s] \in Nat
        /\ st[s].data = <<>> /\ last_open_pos[s] = st[s].offset
    BY <1>5, CheckFacts DEF StreamsInv
  <2>2. /\ DOMAIN b = DOMAIN st[s] /\ b.can = st[s].can /\ b.mode = st[s].mode
        /\ b.offset = st[s].offset /\ b.data = <<>> /\ b.lead = st[s].lead
        /\ b.room = st[s].room /\ b.size_p = st[s].size_p
        /\ b.used = st[s].used /\ b.unread = st[s].unread
        /\ b.buffered = st[s].buffered
    <3>1. CASE last_open_pos[s] = 0
      BY <1>5, <2>1, <3>1 DEF Reopened
    <3>2. CASE last_open_pos[s] # 0
      <4> DEFINE x == st[s]
      <4>1. b = [x EXCEPT !.offset = last_open_pos[s]]
        BY <1>5, <3>2 DEF Reopened
      <4>2. DOMAIN x = {"mode", "can", "offset", "data", "used", "unread",
                        "room", "lead", "size_p", "buffered"}
            /\ x.offset = last_open_pos[s] /\ x.data = <<>>
        BY <2>1 DEF Sound
      <4> HIDE DEF b, x
      <4>3. /\ DOMAIN b = DOMAIN x /\ b.can = x.can /\ b.mode = x.mode
            /\ b.offset = x.offset /\ b.data = <<>> /\ b.lead = x.lead
            /\ b.room = x.room /\ b.size_p = x.size_p
            /\ b.used = x.used /\ b.unread = x.unread
            /\ b.buffered = x.buffered
        BY <4>1, <4>2
      <4> QED
        BY <4>3 DEF x
    <3> QED
      BY <3>1, <3>2
  <2>3. k.pos = last_open_pos[s]
    BY <1>3, <1>5 DEF ReopenedAt
  <2> HIDE DEF b, k
  <2>4. Kernel(k)
    BY <1>3, <2>1, <2>3 DEF Kernel
  <2>5. Sound(b)
    <3> DEFINE x == st[s]
    <3>1. Sound(x) /\ x.data = <<>>
      BY <2>1
    <3>2. /\ DOMAIN b = DOMAIN x /\ b.mode = x.mode
          /\ b.offset = x.offset /\ b.data = x.data /\ b.lead = x.lead
          /\ b.room = x.room /\ b.size_p = x.size_p
          /\ b.used = x.used /\ b.unread = x.unread
          /\ b.buffered = x.buffered
      BY <2>1, <2>2
    <3> HIDE DEF x
    <3> QED
      BY <3>1, <3>2 DEF Sound, RoomKnown, Vacancy
  <2>6. InPlace(b, k.pos)
    BY <2>1, <2>2, <2>3, EmptyType DEF InPlace, Sound
  <2>7. Good(b, k)
    BY <2>4, <2>5, <2>6 DEF Good
  <2> QED
    BY <1>1, <2>7 DEF b, k
<1> QED
  BY <1>4, <1>5

(* What a checked call comes to.                                           *)
Settled(s, v, e, o) ==
  /\ Store(s, v, e, o.b, o.k.pos,
           [ContentAfter(v, e) EXCEPT ![NameOf[s]] = o.k.bytes])
  /\ KeepPosition(s, v, last_open_pos[s])

LEMMA CheckedStep ==
  ASSUME StreamsInv, ~ IOErrors, CfdInv', NEW s \in Streams,
         NEW v \in Streams \cup {NoStream}, GIO_cfd_check(s, v),
         NEW e \in Evictions(v), NEW o, Good(o.b, o.k), Settled(s, v, e, o)
  PROVE  StreamsInv'
<1>1. /\ v = NoStream \/ (v \in Streams /\ v # s /\ Flushed(e, st[v]))
      /\ really_open'[s]
      /\ \A t \in Streams : t # s =>
           /\ life'[t] = life[t]
           /\ really_open'[t] <=> (t # v /\ really_open[t])
  BY CheckFacts, CheckedStart
<1> DEFINE b == o.b
           p == o.k.pos
           c == [ContentAfter(v, e) EXCEPT ![NameOf[s]] = o.k.bytes]
           q == last_open_pos[s]
<1>2. Sound(b) /\ InPlace(b, p) /\ p \in Nat /\ o.k.bytes \in Seq(Bytes)
  BY DEF Good, Kernel
<1>3. ContentAfter(v, e) \in [Files -> Seq(Bytes)]
  BY <1>1, FilesAfter
<1>4. c \in [Files -> Seq(Bytes)]
  BY <1>2, <1>3, FilesAssumption
<1>5. q \in Nat
  BY DEF StreamsInv
<1>6. Store(s, v, e, b, p, c) /\ KeepPosition(s, v, q)
  BY DEF Settled
<1> HIDE DEF b, p, c, q
<1> QED
  BY <1>1, <1>2, <1>4, <1>5, <1>6, StoreStep

-----------------------------------------------------------------------------
(* The calls that begin with GIO_cfd_check.                                *)

LEMMA GreadStep ==
  ASSUME StreamsInv, ~ IOErrors, CfdInv', NEW s \in Streams,
         NEW v \in Streams \cup {NoStream}, Gread(s, v)
  PROVE  StreamsInv'
<1>1. GIO_cfd_check(s, v)
  BY Zenon DEF Gread, Checked
<1>2. PICK n \in Sizes, e \in Evictions(v) :
        \E o \in Greadc(Reopened(s), DiskAfter(s, v, e), n) :
          Settled(s, v, e, o)
  BY Zenon DEF Gread, Checked, DiskAfter, Settled
<1> DEFINE b == Reopened(s)
           k == DiskAfter(s, v, e)
<1>3. PICK o \in Greadc(b, k, n) : Settled(s, v, e, o)
  BY <1>2
<1>4. Good(b, k)
  BY <1>1, CheckedStart
<1>5. n \in Nat
  BY CallsAssumption
<1> HIDE DEF b, k
<1>6. Fits(o, b)
  BY <1>4, <1>5, GreadcFits
<1> QED
  BY <1>1, <1>3, <1>6, CheckedStep DEF Fits

LEMMA GwriteStep ==
  ASSUME StreamsInv, ~ IOErrors, CfdInv', NEW s \in Streams,
         NEW v \in Streams \cup {NoStream}, Gwrite(s, v)
  PROVE  StreamsInv'
<1>1. GIO_cfd_check(s, v)
  BY Zenon DEF Gwrite, Checked
<1>2. PICK bs \in Chunks, e \in Evictions(v) :
        \E o \in Gwritec(Reopened(s), DiskAfter(s, v, e), bs) :
          Settled(s, v, e, o)
  BY Zenon DEF Gwrite, Checked, DiskAfter, Settled
<1> DEFINE b == Reopened(s)
           k == DiskAfter(s, v, e)
<1>3. PICK o \in Gwritec(b, k, bs) : Settled(s, v, e, o)
  BY <1>2
<1>4. Good(b, k)
  BY <1>1, CheckedStart
<1>5. bs \in Seq(Bytes)
  BY CallsAssumption
<1> HIDE DEF b, k
<1>6. Fits(o, b)
  BY <1>4, <1>5, GwritecFits
<1> QED
  BY <1>1, <1>3, <1>6, CheckedStep DEF Fits

LEMMA GsetposCallStep ==
  ASSUME StreamsInv, ~ IOErrors, CfdInv', NEW s \in Streams,
         NEW v \in Streams \cup {NoStream}, GsetposCall(s, v)
  PROVE  StreamsInv'
<1>1. GIO_cfd_check(s, v)
  BY Zenon DEF GsetposCall, Setpos, Checked
<1>2. PICK pos \in Positions, e \in Evictions(v) :
        \E o \in Gsetpos(Reopened(s), DiskAfter(s, v, e), pos) :
          Settled(s, v, e, o)
  BY Zenon DEF GsetposCall, Setpos, Checked, DiskAfter, Settled
<1> DEFINE b == Reopened(s)
           k == DiskAfter(s, v, e)
<1>3. PICK o \in Gsetpos(b, k, pos) : Settled(s, v, e, o)
  BY <1>2
<1>4. Good(b, k)
  BY <1>1, CheckedStart
<1>5. pos \in Int
  BY CallsAssumption
<1> HIDE DEF b, k
<1>6. Fits(o, b)
  BY <1>4, <1>5, GsetposFits
<1> QED
  BY <1>1, <1>3, <1>6, CheckedStep DEF Fits

LEMMA ReadPointerStep ==
  ASSUME StreamsInv, ~ IOErrors, CfdInv', NEW s \in Streams,
         NEW v \in Streams \cup {NoStream}, ReadPointer(s, v)
  PROVE  StreamsInv'
<1>1. GIO_cfd_check(s, v)
  BY Zenon DEF ReadPointer, Checked
<1>2. PICK n \in Stretches, e \in Evictions(v) :
        \E o \in Greadb(Reopened(s), DiskAfter(s, v, e), n) :
          Settled(s, v, e, o)
  BY Zenon DEF ReadPointer, Checked, DiskAfter, Settled
<1> DEFINE b == Reopened(s)
           k == DiskAfter(s, v, e)
<1>3. PICK o \in Greadb(b, k, n) : Settled(s, v, e, o)
  BY <1>2
<1>4. Good(b, k)
  BY <1>1, CheckedStart
<1>5. n \in Nat
  BY CallsAssumption
<1> HIDE DEF b, k
<1>6. Fits(o, b)
  BY <1>4, <1>5, GreadbFits
<1> QED
  BY <1>1, <1>3, <1>6, CheckedStep DEF Fits

LEMMA WritePointerStep ==
  ASSUME StreamsInv, ~ IOErrors, CfdInv', NEW s \in Streams,
         NEW v \in Streams \cup {NoStream}, WritePointer(s, v)
  PROVE  StreamsInv'
<1>1. GIO_cfd_check(s, v)
  BY Zenon DEF WritePointer, Checked
<1>2. PICK bs \in Fillings, e \in Evictions(v) :
        \E o \in Gwriteb(Reopened(s), DiskAfter(s, v, e), bs) :
          Settled(s, v, e, o)
  BY Zenon DEF WritePointer, Checked, DiskAfter, Settled
<1> DEFINE b == Reopened(s)
           k == DiskAfter(s, v, e)
<1>3. PICK o \in Gwriteb(b, k, bs) : Settled(s, v, e, o)
  BY <1>2
<1>4. Good(b, k)
  BY <1>1, CheckedStart
<1>5. bs \in Seq(Bytes)
  BY CallsAssumption
<1> HIDE DEF b, k
<1>6. Fits(o, b)
  BY <1>4, <1>5, GwritebFits
<1> QED
  BY <1>1, <1>3, <1>6, CheckedStep DEF Fits

LEMMA GsetvbufCallStep ==
  ASSUME StreamsInv, ~ IOErrors, CfdInv', NEW s \in Streams,
         NEW v \in Streams \cup {NoStream}, GsetvbufCall(s, v)
  PROVE  StreamsInv'
<1>1. GIO_cfd_check(s, v)
  BY Zenon DEF GsetvbufCall, Checked
<1>2. PICK buffered \in Bufferings, e \in Evictions(v) :
        \E o \in Gsetvbuf(Reopened(s), DiskAfter(s, v, e), buffered) :
          Settled(s, v, e, o)
  BY Zenon DEF GsetvbufCall, Checked, DiskAfter, Settled
<1> DEFINE b == Reopened(s)
           k == DiskAfter(s, v, e)
<1>3. PICK o \in Gsetvbuf(b, k, buffered) : Settled(s, v, e, o)
  BY <1>2
<1>4. Good(b, k)
  BY <1>1, CheckedStart
<1>5. buffered \in BOOLEAN
  BY CallsAssumption
<1> HIDE DEF b, k
<1>6. Fits(o, b)
  BY <1>4, <1>5, GsetvbufFits
<1> QED
  BY <1>1, <1>3, <1>6, CheckedStep DEF Fits

LEMMA TargetsWhole ==
  ASSUME NEW s \in Streams, NEW d \in Steps
  PROVE  SeekCurTargets(s, d) \subseteq Int
<1>1. SeekCurTargets(s, d) \subseteq Positions \cup {-1}
  BY Zenon DEF SeekCurTargets
<1>2. Positions \subseteq Int /\ -1 \in Int
  BY CallsAssumption
<1> QED
  BY <1>1, <1>2

LEMMA GseekCurStep ==
  ASSUME StreamsInv, ~ IOErrors, CfdInv', NEW s \in Streams,
         NEW v \in Streams \cup {NoStream}, GseekCur(s, v)
  PROVE  StreamsInv'
<1>1. GIO_cfd_check(s, v)
  BY Zenon DEF GseekCur, Setpos, Checked
<1>2. PICK d \in Steps :
        \E pos \in SeekCurTargets(s, d) :
          \E e \in Evictions(v) :
             \E o \in Gsetpos(Reopened(s), DiskAfter(s, v, e), pos) :
               Settled(s, v, e, o)
  BY Zenon DEF GseekCur, Setpos, Checked, DiskAfter, Settled
<1> PICK pos \in SeekCurTargets(s, d) :
       \E e \in Evictions(v) :
          \E o \in Gsetpos(Reopened(s), DiskAfter(s, v, e), pos) :
            Settled(s, v, e, o)
  BY <1>2
<1>3. pos \in Int
  BY TargetsWhole
<1>4. PICK e \in Evictions(v) :
        \E o \in Gsetpos(Reopened(s), DiskAfter(s, v, e), pos) :
          Settled(s, v, e, o)
  OBVIOUS
<1> DEFINE b == Reopened(s)
           k == DiskAfter(s, v, e)
<1>5. PICK o \in Gsetpos(b, k, pos) : Settled(s, v, e, o)
  BY <1>4
<1>6. Good(b, k)
  BY <1>1, CheckedStart
<1> HIDE DEF b, k
<1>7. Fits(o, b)
  BY <1>3, <1>6, GsetposFits
<1> QED
  BY <1>1, <1>5, <1>7, CheckedStep DEF Fits

(* The end is looked for after the flush of what is still to be written.   *)
SeekEndOp(s, b, k, d) ==
  UNION {IF o.ok
         THEN Gsetpos(o.b, o.k, IF StatSize(s, o.k) < 0 THEN -1
                                ELSE StatSize(s, o.k) + d)
         ELSE {o} :
           o \in IF b.mode = "write" THEN Gflushw(b, k)
                 ELSE {Outcome(b, k, TRUE, 0)}}

LEMMA SeekEndFits ==
  ASSUME ~ IOErrors, NEW s, really_open[s], NEW b, NEW k, Good(b, k),
         NEW d \in Int, NEW o \in SeekEndOp(s, b, k, d)
  PROVE  Fits(o, b)
<1> DEFINE Begun == IF b.mode = "write" THEN Gflushw(b, k)
                    ELSE {Outcome(b, k, TRUE, 0)}
           End(kr) == IF StatSize(s, kr) < 0 THEN -1 ELSE StatSize(s, kr) + d
           Part(r) == IF r.ok THEN Gsetpos(r.b, r.k, End(r.k)) ELSE {r}
<1>1. PICK r \in Begun : o \in Part(r)
  <2>1. SeekEndOp(s, b, k, d) = UNION {Part(r) : r \in Begun}
    BY DEF SeekEndOp
  <2> HIDE DEF Part, Begun
  <2> QED
    BY <2>1
<1>2. Fits(r, b) /\ r.ok
  <2>1. CASE b.mode = "write"
    BY <1>1, <2>1, GflushwFits DEF Flushed
  <2>2. CASE b.mode # "write"
    <3>1. r = Outcome(b, k, TRUE, 0)
      BY <1>1, <2>2
    <3>2. Fits(r, b)
      BY <3>1, OutcomeFits DEF Good
    <3> QED
      BY <3>1, <3>2 DEF Outcome
  <2> QED
    BY <2>1, <2>2
<1> DEFINE c == r.b
           kc == r.k
           pos == End(kc)
<1>3. Good(c, kc) /\ c.can = b.can
  BY <1>2 DEF Fits
<1>4. pos \in Int
  <2>1. Len(kc.bytes) \in Nat
    BY <1>3, EmptyType DEF Good, Kernel
  <2>2. StatSize(s, kc) \in Int
    BY <2>1 DEF StatSize
  <2> QED
    BY <2>2
<1>5. o \in Gsetpos(c, kc, pos)
  BY <1>1, <1>2
<1> HIDE DEF c, kc, pos
<1>6. Fits(o, c)
  BY <1>3, <1>4, <1>5, GsetposFits
<1> QED
  BY <1>3, <1>6 DEF Fits

LEMMA GseekEndStep ==
  ASSUME StreamsInv, ~ IOErrors, Unchecked = {}, CfdInv', NEW s \in Streams,
         NEW v \in Streams \cup {NoStream}, GseekEnd(s, v)
  PROVE  StreamsInv'
<1>1. GIO_cfd_check(s, v) /\ really_open[s]
  BY Zenon DEF GseekEnd, Checked
<1>2. PICK d \in Steps, e \in Evictions(v) :
        \E o \in SeekEndOp(s, Reopened(s), DiskAfter(s, v, e), d) :
          Settled(s, v, e, o)
  BY Zenon DEF GseekEnd, SeekEndOp, Checked, DiskAfter, Settled
<1> DEFINE b == Reopened(s)
           k == DiskAfter(s, v, e)
<1>3. PICK o \in SeekEndOp(s, b, k, d) : Settled(s, v, e, o)
  BY <1>2
<1>4. Good(b, k)
  BY <1>1, CheckedStart
<1>5. d \in Int
  BY CallsAssumption
<1> HIDE DEF b, k
<1>6. Fits(o, b)
  BY <1>1, <1>4, <1>5, SeekEndFits
<1> QED
  BY <1>1, <1>3, <1>6, CheckedStep DEF Fits

LEMMA GgetposStep ==
  ASSUME StreamsInv, ~ IOErrors, CfdInv', NEW s \in Streams,
         NEW v \in Streams \cup {NoStream}, GgetposCall(s, v)
  PROVE  StreamsInv'
<1>1. GIO_cfd_check(s, v)
  BY Zenon DEF GgetposCall, Checked
<1>2. PICK e \in Evictions(v) :
        \E o \in {Outcome(Reopened(s), DiskAfter(s, v, e), TRUE,
                          Getpos(Reopened(s)))} :
          Settled(s, v, e, o)
  BY Zenon DEF GgetposCall, Checked, DiskAfter, Settled
<1> DEFINE b == Reopened(s)
           k == DiskAfter(s, v, e)
           o == Outcome(b, k, TRUE, Getpos(b))
<1>3. Settled(s, v, e, o)
  BY <1>2
<1>4. Good(b, k)
  BY <1>1, CheckedStart
<1> HIDE DEF b, k
<1>5. Fits(o, b)
  BY <1>4, OutcomeFits DEF Good
<1> HIDE DEF o
<1> QED
  BY <1>1, <1>3, <1>5, CheckedStep DEF Fits

-----------------------------------------------------------------------------
(* The calls that open and close.                                          *)

(* GIO_open of a stream that has no descriptor, successful or not.         *)
LEMMA OpenFacts ==
  ASSUME StreamsInv, NEW s \in Streams, ~ really_open[s],
         NEW v \in Streams \cup {NoStream}, v \in Victims
  PROVE  v = NoStream \/ (v \in Streams /\ v # s /\ really_open[v])
<1>1. CfdTypeOK
  BY DEF StreamsInv, CfdInv
<1>2. v = NoStream \/ (v \in Streams /\ really_open[v])
  BY <1>1, VictimIsOpen
<1> QED
  BY <1>2

(* A GFILE the caller does not hold has no descriptor.                     *)
LEMMA UnusedClosed ==
  ASSUME StreamsInv, NEW s \in Streams, Unused(s)
  PROVE  ~ really_open[s] /\ life[s] # "open"
BY DEF StreamsInv, CfdInv, OpenOnChain, ReallyOpen, Unused

LEMMA GopenStep ==
  ASSUME StreamsInv, ~ IOErrors, CfdInv', NEW s \in Streams,
         NEW v \in Streams \cup {NoStream}, Gopen(s, v)
  PROVE  StreamsInv'
<1> DEFINE Files1(e) == ContentAfter(v, e)
           At(mode, e) == OpenedAt(mode, Files1(e)[NameOf[s]])
           Files2(mode, e) == IF mode \in {"w", "w+"}
                              THEN [Files1(e) EXCEPT ![NameOf[s]] = <<>>]
                              ELSE Files1(e)
<1>1. PICK cached \in BOOLEAN, mode \in Modes, e \in Evictions(v) :
        /\ GopenOk(s, cached, v)
        /\ Store(s, v, e, Fresh(Can(mode), At(mode, e)), At(mode, e),
                 Files2(mode, e))
        /\ KeepPosition(s, v, 0)
  BY Zenon DEF Gopen
<1>2. ~ really_open[s]
  BY <1>1, UnusedClosed DEF GopenOk
<1>3. /\ v \in Victims /\ life' = [life EXCEPT ![s] = "open"]
      /\ really_open' = [t \in Streams |-> t = s \/ (t # v /\ really_open[t])]
  BY <1>1 DEF GopenOk, GIO_open_ok
<1>4. v = NoStream \/ (v \in Streams /\ v # s /\ Flushed(e, st[v]))
  BY <1>2, <1>3, OpenFacts, EvictionFits
<1>5. Files1(e) \in [Files -> Seq(Bytes)]
  BY <1>4, FilesAfter
<1> DEFINE at == At(mode, e)
           b == Fresh(Can(mode), at)
           c == Files2(mode, e)
<1>6. at \in Nat
  <2>1. Files1(e)[NameOf[s]] \in Seq(Bytes)
    BY <1>5, FilesAssumption
  <2> HIDE DEF Files1
  <2> QED
    BY <2>1, EmptyType DEF OpenedAt
<1>7. c \in [Files -> Seq(Bytes)]
  <2> HIDE DEF Files1
  <2> QED
    BY <1>5, EmptyType, FilesAssumption
<1>8. Store(s, v, e, b, at, c) /\ KeepPosition(s, v, 0)
  BY <1>1
<1> HIDE DEF at, c
<1>9. Sound(b) /\ InPlace(b, at)
  BY <1>6, FreshSound
<1>10. /\ really_open'[s]
       /\ \A t \in Streams : t # s =>
            /\ life'[t] = life[t]
            /\ really_open'[t] <=> (t # v /\ really_open[t])
  BY <1>3 DEF StreamsInv, CfdInv, CfdTypeOK
<1> HIDE DEF b
<1> QED
  BY <1>4, <1>6, <1>7, <1>8, <1>9, <1>10, StoreStep

(* The open has failed: s has still no descriptor.                         *)
LEMMA NotOpenedStep ==
  ASSUME StreamsInv, ~ IOErrors, CfdInv', NEW s \in Streams,
         NEW v \in Streams \cup {NoStream}, ~ really_open[s],
         GIO_open_failed(s, v), life' = life, NotOpened(s, v)
  PROVE  StreamsInv'
<1>1. /\ v \in Victims
      /\ really_open' = [t \in Streams |-> t # v /\ really_open[t]]
  BY DEF GIO_open_failed
<1>2. last_open_pos[s] \in Nat /\ ~ (last_open_pos[s] < 0)
  BY DEF StreamsInv
<1>3. PICK e \in Evictions(v) :
        Store(s, v, e, st[s], kpos[s], ContentAfter(v, e))
  BY <1>2, Zenon DEF NotOpened
<1>4. v = NoStream \/ (v \in Streams /\ v # s /\ Flushed(e, st[v]))
  BY <1>1, OpenFacts, EvictionFits
<1>5. KeepPosition(s, v, last_open_pos[s])
  BY Zenon DEF NotOpened
<1> DEFINE b == st[s]
           p == kpos[s]
           q == last_open_pos[s]
           c == ContentAfter(v, e)
<1>6. c \in [Files -> Seq(Bytes)]
  BY <1>4, FilesAfter
<1>7. /\ Sound(b) /\ p \in Nat /\ q \in Nat
      /\ life'[s] = "open" => b.data = <<>> /\ q = b.offset
  BY DEF StreamsInv
<1>8. /\ ~ really_open'[s]
      /\ \A t \in Streams : t # s =>
           /\ life'[t] = life[t]
           /\ really_open'[t] <=> (t # v /\ really_open[t])
  BY <1>1
<1>9. Store(s, v, e, b, p, c) /\ KeepPosition(s, v, q)
  BY <1>3, <1>5
<1> HIDE DEF b, p, q, c
<1> QED
  BY <1>4, <1>6, <1>7, <1>8, <1>9, StoreStep

LEMMA ErrorStep ==
  ASSUME StreamsInv, ~ IOErrors, CfdInv', NEW s \in Streams,
         NEW v \in Streams \cup {NoStream}, GopenError(s, v) \/ CallError(s, v)
  PROVE  StreamsInv'
<1>1. CASE GopenError(s, v)
  <2>1. /\ Unused(s) /\ GIO_open_failed(s, v) /\ life' = life
        /\ NotOpened(s, v)
    BY <1>1 DEF GopenError, GopenFailed
  <2> QED
    BY <2>1, UnusedClosed, NotOpenedStep
<1>2. CASE CallError(s, v)
  <2>1. /\ ~ really_open[s] /\ GIO_open_failed(s, v) /\ life' = life
        /\ NotOpened(s, v)
    BY <1>2 DEF CallError, CheckFailed, GfilenoFailed
  <2> QED
    BY <2>1, NotOpenedStep
<1> QED
  BY <1>1, <1>2

(* A descriptor of the application's own, at the offset of the stream.     *)
LEMMA GdopenStep ==
  ASSUME StreamsInv, CfdInv', NEW s \in Streams, GdopenStream(s)
  PROVE  StreamsInv'
<1>1. /\ Gdopen(s)
      /\ last_open_pos' = [last_open_pos EXCEPT ![s] = 0]
      /\ UNCHANGED <<last_close_status, content>>
  BY DEF GdopenStream
<1>2. PICK mode \in Modes :
        LET at == OpenedAt(mode, content[NameOf[s]])
        IN  /\ \E can \in {Can(mode), Can(mode) \ {"a"}} :
                 st' = [st EXCEPT ![s] = Fresh(can, at)]
            /\ kpos' = [kpos EXCEPT ![s] = at]
  BY DEF GdopenStream
<1> DEFINE at == OpenedAt(mode, content[NameOf[s]])
<1>3. at \in Nat
  <2>1. content[NameOf[s]] \in Seq(Bytes)
    BY FilesAssumption DEF StreamsInv
  <2> QED
    BY <2>1, EmptyType DEF OpenedAt
<1>4. PICK can : st' = [st EXCEPT ![s] = Fresh(can, at)]
  BY <1>2
<1>5. kpos' = [kpos EXCEPT ![s] = at]
  BY <1>2
<1> DEFINE b == Fresh(can, at)
<1>6. Sound(b) /\ InPlace(b, at)
  BY <1>3, FreshSound
<1>7. st' = [st EXCEPT ![s] = b]
  BY <1>4
<1> HIDE DEF at, b
<1>8. /\ life' = [life EXCEPT ![s] = "open"]
      /\ really_open' = [really_open EXCEPT ![s] = TRUE]
  BY <1>1 DEF Gdopen
<1>9. CfdTypeOK
  BY DEF StreamsInv, CfdInv
<1>10. /\ content' \in [Files -> Seq(Bytes)]
       /\ kpos' \in [Streams -> Nat]
       /\ last_open_pos' \in [Streams -> Nat]
       /\ last_close_status' \in [Streams -> BOOLEAN]
       /\ st' = [t \in Streams |-> st'[t]]
  BY <1>1, <1>3, <1>5, <1>7 DEF StreamsInv
<1>11. ASSUME NEW t \in Streams
       PROVE  /\ Sound(st'[t])
              /\ really_open'[t] => InPlace(st'[t], kpos'[t])
              /\ life'[t] = "open" /\ ~ really_open'[t]
                   => st'[t].data = <<>> /\ last_open_pos'[t] = st'[t].offset
  <2>1. CASE t = s
    <3>1. st'[t] = b /\ kpos'[t] = at /\ really_open'[t]
      BY <1>5, <1>7, <1>8, <1>9, <2>1 DEF StreamsInv, CfdTypeOK
    <3> QED
      BY <1>6, <3>1
  <2>2. CASE t # s
    <3>1. /\ st'[t] = st[t] /\ kpos'[t] = kpos[t] /\ life'[t] = life[t]
          /\ really_open'[t] = really_open[t]
          /\ last_open_pos'[t] = last_open_pos[t]
      BY <1>1, <1>5, <1>7, <1>8, <1>9, <2>2 DEF StreamsInv, CfdTypeOK
    <3> QED
      BY <3>1 DEF StreamsInv
  <2> QED
    BY <2>1, <2>2
<1> QED
  BY <1>10, <1>11 DEF StreamsInv

(* A GFILE that is given back.                                             *)
LEMMA ResetStep ==
  ASSUME StreamsInv, CfdInv', NEW s \in Streams, Reset(s),
         content' \in [Files -> Seq(Bytes)],
         life' = [life EXCEPT ![s] = "closed"], ~ really_open'[s],
         \A t \in Streams : t # s => (really_open'[t] <=> really_open[t])
  PROVE  StreamsInv'
<1> DEFINE b == Fresh({}, 0)
<1>1. Sound(b)
  BY FreshSound
<1>2. /\ st' = [st EXCEPT ![s] = b]
      /\ kpos' = [kpos EXCEPT ![s] = 0]
      /\ last_open_pos' = [last_open_pos EXCEPT ![s] = 0]
      /\ last_close_status' = [last_close_status EXCEPT ![s] = TRUE]
  BY DEF Reset
<1> HIDE DEF b
<1>3. CfdTypeOK
  BY DEF StreamsInv, CfdInv
<1>4. /\ kpos' \in [Streams -> Nat]
      /\ last_open_pos' \in [Streams -> Nat]
      /\ last_close_status' \in [Streams -> BOOLEAN]
      /\ st' = [t \in Streams |-> st'[t]]
  BY <1>2 DEF StreamsInv
<1>5. ASSUME NEW t \in Streams
      PROVE  /\ Sound(st'[t])
             /\ really_open'[t] => InPlace(st'[t], kpos'[t])
             /\ life'[t] = "open" /\ ~ really_open'[t]
                  => st'[t].data = <<>> /\ last_open_pos'[t] = st'[t].offset
  <2>1. CASE t = s
    <3>1. st'[t] = b /\ life'[t] = "closed" /\ ~ really_open'[t]
      BY <1>2, <1>3, <2>1 DEF StreamsInv, CfdTypeOK
    <3> QED
      BY <1>1, <3>1
  <2>2. CASE t # s
    <3>1. /\ st'[t] = st[t] /\ kpos'[t] = kpos[t] /\ life'[t] = life[t]
          /\ really_open'[t] <=> really_open[t]
          /\ last_open_pos'[t] = last_open_pos[t]
      BY <1>2, <1>3, <2>2 DEF StreamsInv, CfdTypeOK
    <3> QED
      BY <3>1 DEF StreamsInv
  <2> QED
    BY <2>1, <2>2
<1> QED
  BY <1>4, <1>5 DEF StreamsInv

LEMMA GcloseStep ==
  ASSUME StreamsInv, ~ IOErrors, CfdInv', NEW s \in Streams,
         GcloseStream(s) \/ GcloseClosed(s)
  PROVE  StreamsInv'
<1>1. CfdTypeOK
  BY DEF StreamsInv, CfdInv
<1>2. CASE GcloseStream(s)
  <2>1. PICK o \in Gflush(st[s], Disk(s)) :
          content' = [content EXCEPT ![NameOf[s]] = o.k.bytes]
    BY <1>2 DEF GcloseStream
  <2>2. /\ really_open[s] /\ life' = [life EXCEPT ![s] = "closed"]
        /\ really_open' = [really_open EXCEPT ![s] = FALSE] /\ Reset(s)
    BY <1>2 DEF GcloseStream, GcloseReal
  <2> DEFINE b == st[s]
             k == Disk(s)
  <2>3. Good(b, k) /\ o \in Gflush(b, k)
    BY <2>1, <2>2, DiskGood
  <2> HIDE DEF b, k
  <2>4. Fits(o, b)
    BY <2>3, GflushFits DEF Flushed
  <2>5. content' \in [Files -> Seq(Bytes)]
    BY <2>1, <2>4, FilesAssumption DEF StreamsInv, Fits, Good, Kernel
  <2>6. /\ ~ really_open'[s]
        /\ \A t \in Streams : t # s => (really_open'[t] <=> really_open[t])
    BY <1>1, <2>2 DEF CfdTypeOK
  <2> QED
    BY <2>2, <2>5, <2>6, ResetStep
<1>3. CASE GcloseClosed(s)
  <2>1. /\ ~ really_open[s] /\ life' = [life EXCEPT ![s] = "closed"]
        /\ really_open' = really_open /\ Reset(s) /\ content' = content
    BY <1>3 DEF GcloseClosed, GcloseTmp
  <2> QED
    BY <2>1, ResetStep DEF StreamsInv
<1> QED
  BY <1>2, <1>3

-----------------------------------------------------------------------------
(* The calls without GIO_cfd_check, of a stream that has its descriptor.   *)

LEMMA OwnStep ==
  ASSUME StreamsInv, CfdInv', NEW s \in Streams, really_open[s], NEW o,
         Good(o.b, o.k),
         st' = [st EXCEPT ![s] = o.b], kpos' = [kpos EXCEPT ![s] = o.k.pos],
         content' = [content EXCEPT ![NameOf[s]] = o.k.bytes],
         UNCHANGED <<cfdVars, last_open_pos, last_close_status>>
  PROVE  StreamsInv'
<1>1. Sound(o.b) /\ InPlace(o.b, o.k.pos) /\ o.k.pos \in Nat
      /\ o.k.bytes \in Seq(Bytes)
  BY DEF Good, Kernel
<1>2. life' = life /\ really_open' = really_open
  BY DEF cfdVars, streamVars
<1>3. /\ content' \in [Files -> Seq(Bytes)]
      /\ kpos' \in [Streams -> Nat]
      /\ last_open_pos' \in [Streams -> Nat]
      /\ last_close_status' \in [Streams -> BOOLEAN]
      /\ st' = [t \in Streams |-> st'[t]]
  BY <1>1, FilesAssumption DEF StreamsInv
<1>4. ASSUME NEW t \in Streams
      PROVE  /\ Sound(st'[t])
             /\ really_open'[t] => InPlace(st'[t], kpos'[t])
             /\ life'[t] = "open" /\ ~ really_open'[t]
                  => st'[t].data = <<>> /\ last_open_pos'[t] = st'[t].offset
  <2>1. CASE t = s
    <3>1. st'[t] = o.b /\ kpos'[t] = o.k.pos
      BY <2>1 DEF StreamsInv
    <3> QED
      BY <1>1, <1>2, <2>1, <3>1
  <2>2. CASE t # s
    <3>1. st'[t] = st[t] /\ kpos'[t] = kpos[t]
      BY <2>2 DEF StreamsInv
    <3> QED
      BY <1>2, <3>1 DEF StreamsInv
  <2> QED
    BY <2>1, <2>2
<1> QED
  BY <1>3, <1>4 DEF StreamsInv

LEMMA GflushStep ==
  ASSUME StreamsInv, ~ IOErrors, CfdInv', NEW s \in Streams, GflushStream(s)
  PROVE  StreamsInv'
<1>1. PICK o \in Gflush(st[s], Disk(s)) :
        /\ st' = [st EXCEPT ![s] = o.b]
        /\ kpos' = [kpos EXCEPT ![s] = o.k.pos]
        /\ content' = [content EXCEPT ![NameOf[s]] = o.k.bytes]
  BY DEF GflushStream
<1>2. /\ really_open[s]
      /\ UNCHANGED <<cfdVars, last_open_pos, last_close_status>>
  BY DEF GflushStream
<1> DEFINE b == st[s]
           k == Disk(s)
<1>3. Good(b, k) /\ o \in Gflush(b, k)
  BY <1>1, <1>2, DiskGood
<1> HIDE DEF b, k
<1>4. Fits(o, b)
  BY <1>3, GflushFits DEF Flushed
<1> QED
  BY <1>1, <1>2, <1>4, OwnStep DEF Fits

(* The descriptor ggetc and gputc use is that of the stream.               *)
LEMMA OwnDescriptor ==
  ASSUME StreamsInv, NEW s \in Streams, really_open[s],
         NEW t \in ReallyOpen, fd[t] = fd[s]
  PROVE  t = s
BY DEF StreamsInv, CfdInv, FdOwnership, ReallyOpen

LEMMA GetCharStep ==
  ASSUME StreamsInv, ~ IOErrors, Unchecked = {}, CfdInv', NEW s \in Streams,
         GetChar(s)
  PROVE  StreamsInv'
<1>1. really_open[s]
  BY Zenon DEF GetChar
<1>2. UNCHANGED <<cfdVars, last_open_pos, last_close_status>>
  BY Zenon DEF GetChar, ByDescriptor
<1>3. PICK t \in ReallyOpen :
        /\ fd[t] = fd[s]
        /\ \E o \in Greadb(st[s], Disk(t), 1) :
             /\ st' = [st EXCEPT ![s] = o.b]
             /\ kpos' = [kpos EXCEPT ![t] = o.k.pos]
             /\ content' = [content EXCEPT ![NameOf[t]] = o.k.bytes]
  BY Zenon DEF GetChar, ByDescriptor
<1>4. t = s
  BY <1>1, <1>3, OwnDescriptor
<1> DEFINE b == st[s]
           k == Disk(s)
<1>5. PICK o \in Greadb(b, k, 1) :
        /\ st' = [st EXCEPT ![s] = o.b]
        /\ kpos' = [kpos EXCEPT ![s] = o.k.pos]
        /\ content' = [content EXCEPT ![NameOf[s]] = o.k.bytes]
  BY <1>3, <1>4
<1>6. Good(b, k)
  BY <1>1, DiskGood
<1> HIDE DEF b, k
<1>7. Fits(o, b)
  BY <1>6, GreadbFits
<1> QED
  BY <1>1, <1>2, <1>5, <1>7, OwnStep DEF Fits

LEMMA PutCharStep ==
  ASSUME StreamsInv, ~ IOErrors, Unchecked = {}, CfdInv', NEW s \in Streams,
         PutChar(s)
  PROVE  StreamsInv'
<1>1. really_open[s]
  BY Zenon DEF PutChar
<1>2. UNCHANGED <<cfdVars, last_open_pos, last_close_status>>
  BY Zenon DEF PutChar, ByDescriptor
<1>3. PICK c \in Chars :
        ByDescriptor(s, LAMBDA b, k : {o \in Gputc(b, k, c) : Getpos(o.b) \in Positions},
                     "write")
  BY Zenon DEF PutChar
<1>4. PICK t \in ReallyOpen :
        /\ fd[t] = fd[s]
        /\ \E o \in {o \in Gputc(st[s], Disk(t), c) : Getpos(o.b) \in Positions} :
             /\ st' = [st EXCEPT ![s] = o.b]
             /\ kpos' = [kpos EXCEPT ![t] = o.k.pos]
             /\ content' = [content EXCEPT ![NameOf[t]] = o.k.bytes]
  BY <1>3, Zenon DEF ByDescriptor
<1>5. t = s
  BY <1>1, <1>4, OwnDescriptor
<1> DEFINE b == st[s]
           k == Disk(s)
<1>6. PICK o \in Gputc(b, k, c) :
        /\ st' = [st EXCEPT ![s] = o.b]
        /\ kpos' = [kpos EXCEPT ![s] = o.k.pos]
        /\ content' = [content EXCEPT ![NameOf[s]] = o.k.bytes]
  BY <1>4, <1>5
<1>7. Good(b, k) /\ c \in Bytes
  BY <1>1, DiskGood, CallsAssumption
<1> HIDE DEF b, k
<1>8. Fits(o, b)
  BY <1>7, GputcFits
<1> QED
  BY <1>1, <1>2, <1>6, <1>8, OwnStep DEF Fits

-----------------------------------------------------------------------------
(* The invariant                                                           *)

LEMMA StreamsInitInv == Init => StreamsInv
<1> SUFFICES ASSUME Init PROVE StreamsInv
  OBVIOUS
<1> DEFINE b == Fresh({}, 0)
<1>1. Sound(b) /\ InPlace(b, 0)
  BY FreshSound
<1>2. CfdInv
  BY CfdInitInv DEF Init
<1>3. /\ st = [s \in Streams |-> b]
      /\ kpos = [s \in Streams |-> 0]
      /\ last_open_pos = [s \in Streams |-> 0]
      /\ last_close_status = [s \in Streams |-> TRUE]
      /\ content = [f \in Files |-> <<>>]
      /\ life = [s \in Streams |-> "free"]
  BY DEF Init, CfdInit
<1> HIDE DEF b
<1> QED
  BY <1>1, <1>2, <1>3, EmptyType DEF StreamsInv

LEMMA StreamsNextInv ==
  ASSUME ~ IOErrors, Unchecked = {}, Pushed = {}
  PROVE  StreamsInv /\ [Next]_vars => StreamsInv'
<1> SUFFICES ASSUME StreamsInv, [Next]_vars PROVE StreamsInv'
  OBVIOUS
<1>1. CfdInv'
  BY NextIsCfdNext, CfdNextInv DEF StreamsInv
<1>2. ASSUME NEW s \in Streams, NEW v \in Streams \cup {NoStream},
             \/ Gopen(s, v)
             \/ GopenError(s, v)
             \/ Gread(s, v)
             \/ Gwrite(s, v)
             \/ GunreadBytes(s, v)
             \/ GsetposCall(s, v)
             \/ GseekCur(s, v)
             \/ GseekEnd(s, v)
             \/ GgetposCall(s, v)
             \/ ReadPointer(s, v)
             \/ WritePointer(s, v)
             \/ GsetvbufCall(s, v)
             \/ CallError(s, v)
      PROVE  StreamsInv'
  <2>1. ~ GunreadBytes(s, v)
    BY Zenon DEF GunreadBytes
  <2>2. CASE Gopen(s, v) \/ GopenError(s, v) \/ CallError(s, v)
    BY <1>1, <2>2, GopenStep, ErrorStep
  <2>3. CASE Gread(s, v) \/ ReadPointer(s, v)
    BY <1>1, <2>3, GreadStep, ReadPointerStep
  <2>4. CASE Gwrite(s, v) \/ WritePointer(s, v)
    BY <1>1, <2>4, GwriteStep, WritePointerStep
  <2>5. CASE GsetposCall(s, v) \/ GseekCur(s, v) \/ GseekEnd(s, v)
    BY <1>1, <2>5, GsetposCallStep, GseekCurStep, GseekEndStep
  <2>6. CASE GgetposCall(s, v) \/ GsetvbufCall(s, v)
    BY <1>1, <2>6, GgetposStep, GsetvbufCallStep
  <2> QED
    BY <1>2, <2>1, <2>2, <2>3, <2>4, <2>5, <2>6
<1>3. ASSUME NEW s \in Streams,
             \/ GdopenStream(s)
             \/ GetChar(s)
             \/ PutChar(s)
             \/ GflushStream(s)
             \/ GcloseStream(s)
             \/ GcloseClosed(s)
      PROVE  StreamsInv'
  BY <1>1, <1>3, GdopenStep, GetCharStep, PutCharStep, GflushStep, GcloseStep
<1>4. CASE SetLimit
  BY <1>1, <1>4 DEF SetLimit, Gopenmax, streamVars, StreamsInv
<1>5. CASE UNCHANGED vars
  BY <1>1, <1>5 DEF vars, cfdVars, streamVars, dataVars, StreamsInv
<1> QED
  BY <1>2, <1>3, <1>4, <1>5 DEF Next

LEMMA StreamsInvariant ==
  ASSUME ~ IOErrors, Unchecked = {}, Pushed = {}
  PROVE  Spec => []StreamsInv
BY StreamsInitInv, StreamsNextInv, PTL DEF Spec

(* Streams keep their types: what is consumed of a cache is in it, only a  *)
(* stream in read state has read ahead, and the kernel's offsets stay      *)
(* natural numbers through every temporary close.                          *)
THEOREM StreamsType ==
  ASSUME ~ IOErrors, Unchecked = {}, Pushed = {}
  PROVE  Spec => []StreamsTypeOK
<1>1. StreamsInv => StreamsTypeOK
  <2> SUFFICES ASSUME StreamsInv PROVE StreamsTypeOK
    OBVIOUS
  <2>1. CfdTypeOK
    BY DEF StreamsInv, CfdInv
  <2>2. ASSUME NEW s \in Streams
        PROVE  /\ DOMAIN st[s] = DOMAIN Fresh({}, 0)
               /\ st[s].mode \in {"idle", "read", "write"}
               /\ st[s].used \in 0 .. Len(st[s].data)
               /\ st[s].mode # "read"
                    => st[s].used = 0 /\ st[s].unread = <<>>
               /\ st[s].mode = "idle" => st[s].data = <<>>
    <3> DEFINE b == st[s]
    <3>1. Sound(b) /\ Sound(Fresh({}, 0))
      BY FreshSound DEF StreamsInv
    <3> HIDE DEF b
    <3>2. /\ DOMAIN b = DOMAIN Fresh({}, 0)
          /\ b.mode \in {"idle", "read", "write"}
          /\ b.used \in 0 .. Len(b.data)
          /\ b.mode # "read" => b.used = 0 /\ b.unread = <<>>
          /\ b.mode = "idle" => b.data = <<>>
      BY <3>1, EmptyType DEF Sound
    <3> QED
      BY <3>2 DEF b
  <2> QED
    BY <2>1, <2>2 DEF StreamsTypeOK, StreamsInv
<1> QED
  BY <1>1, StreamsInvariant, PTL

(* A descriptor is always where its stream takes it to be, for any sizes   *)
(* of caches, requests and blocks, any number of streams and any limit: no *)
(* order of transfers, flushes, seeks and temporary closes makes the next  *)
(* read() or write() go to a wrong place.                                  *)
THEOREM StreamsKernelOffset ==
  ASSUME ~ IOErrors, Unchecked = {}, Pushed = {}
  PROVE  Spec => []KernelOffset
<1>1. StreamsInv => KernelOffset
  <2> SUFFICES ASSUME StreamsInv, NEW s \in ReallyOpen, "a" \notin st[s].can
               PROVE  kpos[s] = IF st[s].mode = "read"
                                THEN st[s].offset + Len(st[s].data)
                                ELSE st[s].offset
    BY DEF KernelOffset
  <2>1. s \in Streams /\ really_open[s]
    BY DEF ReallyOpen
  <2>2. Sound(st[s]) /\ InPlace(st[s], kpos[s])
    BY <2>1 DEF StreamsInv
  <2> QED
    BY <2>2 DEF InPlace, Sound
<1> QED
  BY <1>1, StreamsInvariant, PTL

(* Whatever stream GIO_open picks to be closed, nothing of it is left in   *)
(* its buffers, and it is opened again where it was left.                  *)
THEOREM StreamsClosedClean ==
  ASSUME ~ IOErrors, Unchecked = {}, Pushed = {}
  PROVE  Spec => []TmpClosedClean
<1>1. StreamsInv => TmpClosedClean
  BY DEF StreamsInv, TmpClosedClean
<1> QED
  BY <1>1, StreamsInvariant, PTL

(* count_w never promises gwritec, gwriteb or gputc more room than there   *)
(* is behind the bytes that wait, however calls, flushes and temporary     *)
(* closes follow each other.                                               *)
THEOREM StreamsRoom ==
  ASSUME ~ IOErrors, Unchecked = {}, Pushed = {}
  PROVE  Spec => []RoomIsVacancy
<1>1. StreamsInv => RoomIsVacancy
  <2> SUFFICES ASSUME StreamsInv, NEW s \in Streams,
                      st[s].mode = "write", st[s].buffered
               PROVE  /\ st[s].lead + Len(st[s].data) <= st[s].size_p
                      /\ st[s].room
                           \in {0, st[s].size_p - st[s].lead - Len(st[s].data)}
    BY DEF RoomIsVacancy
  <2> DEFINE b == st[s]
  <2>1. Sound(b) /\ b.mode = "write" /\ b.buffered
    BY DEF StreamsInv
  <2> HIDE DEF b
  <2>2. /\ b.lead + Len(b.data) <= b.size_p
        /\ b.room \in {0, b.size_p - b.lead - Len(b.data)}
    BY <2>1, EmptyType DEF Sound, RoomKnown, Vacancy
  <2> QED
    BY <2>2 DEF b
<1> QED
  BY <1>1, StreamsInvariant, PTL


-----------------------------------------------------------------------------
(* Streams as the application sees them                                    *)

(* Every file is kept to one stream, no stream appends or has bytes pushed *)
(* back, and I/O does not fail.                                            *)
Alone ==
  /\ ~ IOErrors /\ Unchecked = {} /\ Pushed = {}
  /\ Modes \cap {"a", "a+"} = {}
  /\ \A s, t \in Streams : NameOf[s] = NameOf[t] => s = t

StoreInv ==
  /\ StreamsInv
  /\ \A s \in Streams :
       /\ Coherent(st[s], Disk(s))
       /\ "a" \notin st[s].can
       /\ last_close_status[s] = TRUE
       /\ life[s] # "open" => st[s].mode = "idle" /\ st[s].buffered = TRUE

LEMMA FirstFiles ==
  ASSUME content = [f \in Files |-> <<>>],
         life = [s \in Streams |-> "free"]
  PROVE  LogicalFile = [f \in Files |-> <<>>]
<1>1. \A f \in Files : {s \in Streams : life[s] = "open" /\ NameOf[s] = f
                                        /\ st[s].mode = "write"} = {}
  OBVIOUS
<1>2. \A f \in Files : content[f] = <<>>
  OBVIOUS
<1> QED
  BY <1>1, <1>2 DEF LogicalFile

LEMMA SameFiles ==
  ASSUME UNCHANGED <<life, st, kpos, content, really_open>>
  PROVE  LogicalFile' = LogicalFile
BY DEF LogicalFile

(* The file and the position of a stream as the application knows them.    *)
KnownFile(s) ==
  IF life[s] = "open" THEN Known(st[s], Disk(s)) ELSE content[NameOf[s]]
KnownPos(s) == IF life[s] = "open" THEN Getpos(st[s]) ELSE -1

Unpushed == [s \in Streams |-> st[s].unread]
Plain == {s \in Streams : ~ st[s].buffered}

(* No two streams write to one file.                                       *)
LEMMA FilesKnown ==
  ASSUME Alone, StreamsInv
  PROVE  /\ LogicalFile = [f \in Files |-> LogicalFile[f]]
         /\ \A s \in Streams : LogicalFile[NameOf[s]] = KnownFile(s)
         /\ \A f \in Files : (\A s \in Streams : NameOf[s] # f)
                               => LogicalFile[f] = content[f]
<1> DEFINE Writers(f) == {s \in Streams : life[s] = "open" /\ NameOf[s] = f
                                            /\ st[s].mode = "write"}
           Writer(f) == CHOOSE s \in Writers(f) : TRUE
           Entry(f) == IF Writers(f) = {} THEN content[f]
                       ELSE Overlay(content[f], st[Writer(f)].offset,
                                    st[Writer(f)].data)
<1>1. LogicalFile = [f \in Files |-> Entry(f)]
  BY DEF LogicalFile
<1> HIDE DEF Entry
<1>2. LogicalFile = [f \in Files |-> LogicalFile[f]]
  BY <1>1
<1>3. ASSUME NEW s \in Streams
      PROVE  LogicalFile[NameOf[s]] = KnownFile(s)
  <2>1. LogicalFile[NameOf[s]] = Entry(NameOf[s])
    BY <1>1, FilesAssumption
  <2>2. \A t \in Writers(NameOf[s]) : t = s
    BY DEF Alone
  <2>3. Disk(s).bytes = content[NameOf[s]]
    BY DEF Disk
  <2>4. CASE s \in Writers(NameOf[s])
    <3>1. Writer(NameOf[s]) = s /\ Writers(NameOf[s]) # {}
      <4> HIDE DEF Writers
      <4> QED
        BY <2>2, <2>4
    <3>2. Entry(NameOf[s]) = Overlay(content[NameOf[s]], st[s].offset, st[s].data)
      <4> HIDE DEF Writers, Writer
      <4> QED
        BY <3>1 DEF Entry
    <3>3. life[s] = "open" /\ st[s].mode = "write"
      BY <2>4
    <3> QED
      BY <2>1, <2>3, <3>2, <3>3 DEF KnownFile, Known
  <2>5. CASE s \notin Writers(NameOf[s])
    <3>1. Writers(NameOf[s]) = {}
      <4> HIDE DEF Writers
      <4> QED
        BY <2>2, <2>5
    <3>2. Entry(NameOf[s]) = content[NameOf[s]]
      BY <3>1 DEF Entry
    <3>3. ~ (life[s] = "open" /\ st[s].mode = "write")
      BY <2>5
    <3> QED
      BY <2>1, <2>3, <3>2, <3>3 DEF KnownFile, Known
  <2> QED
    BY <2>4, <2>5
<1>4. ASSUME NEW f \in Files, \A s \in Streams : NameOf[s] # f
      PROVE  LogicalFile[f] = content[f]
  <2>1. Writers(f) = {}
    BY <1>4
  <2>2. Entry(f) = content[f]
    BY <2>1 DEF Entry
  <2> QED
    BY <1>1, <2>2
<1> QED
  BY <1>2, <1>3, <1>4

(* A stream that is put away is where it will be put back to.              *)
LEMMA PositionsKnown ==
  ASSUME StreamsInv
  PROVE  LogicalPos = [s \in Streams |-> KnownPos(s)]
<1> DEFINE Entry(s) ==
             IF life[s] # "open" THEN -1
             ELSE Getpos(st[s])
                    + (IF st[s].buffered THEN Len(st[s].unread) ELSE 0)
                    + IF really_open[s] THEN 0
                      ELSE last_open_pos[s] - st[s].offset
<1>1. LogicalPos = [s \in Streams |-> Entry(s)]
  BY DEF LogicalPos
<1>2. ASSUME NEW s \in Streams
      PROVE  Entry(s) = KnownPos(s)
  <2>1. CASE life[s] # "open"
    BY <2>1 DEF KnownPos
  <2>2. CASE life[s] = "open"
    <3>1. Getpos(st[s]) \in Nat /\ Len(st[s].unread) = 0
      BY GetposType, EmptyType DEF StreamsInv, Sound
    <3>2. really_open[s] \/ last_open_pos[s] - st[s].offset = 0
      <4>1. last_open_pos[s] \in Nat
        BY DEF StreamsInv
      <4>2. really_open[s] \/ last_open_pos[s] = st[s].offset
        BY <2>2 DEF StreamsInv
      <4> QED
        BY <4>1, <4>2
    <3> DEFINE g == Getpos(st[s])
    <3> HIDE DEF g
    <3>3. Entry(s) = g + 0 + 0
      BY <2>2, <3>1, <3>2 DEF g
    <3> QED
      BY <2>2, <3>1, <3>3 DEF KnownPos, g
  <2> QED
    BY <2>1, <2>2
<1> HIDE DEF Entry
<1> QED
  BY <1>1, <1>2

LEMMA NothingPushed ==
  ASSUME StreamsInv
  PROVE  Unpushed = [s \in Streams |-> <<>>]
BY DEF StreamsInv, Sound, Unpushed

(* A step after which the file of s is known to be f and s to be at p,     *)
(* and nothing is known to have changed of any other stream.               *)
Comes(s, f, p, buffered) ==
  /\ LogicalFile' = [LogicalFile EXCEPT ![NameOf[s]] = f]
  /\ LogicalPos' = [LogicalPos EXCEPT ![s] = p]
  /\ Plain' = IF buffered THEN Plain \ {s} ELSE Plain \cup {s}
  /\ Unpushed = [t \in Streams |-> <<>>]
  /\ Unpushed' = [t \in Streams |-> <<>>]

(* What is known before it.                                                *)
Is(s, f, p, buffered) ==
  /\ LogicalFile = [g \in Files |-> LogicalFile[g]]
  /\ LogicalPos = [t \in Streams |-> LogicalPos[t]]
  /\ LogicalFile[NameOf[s]] = f /\ LogicalPos[s] = p
  /\ s \in Plain <=> ~ buffered

(* The three lemmas on what is known, of the state after a step too.       *)
FilesAreKnown ==
  /\ LogicalFile = [f \in Files |-> LogicalFile[f]]
  /\ \A s \in Streams : LogicalFile[NameOf[s]] = KnownFile(s)
  /\ \A f \in Files : (\A s \in Streams : NameOf[s] # f)
                        => LogicalFile[f] = content[f]
  /\ LogicalPos = [s \in Streams |-> KnownPos(s)]
  /\ Unpushed = [s \in Streams |-> <<>>]

LEMMA KnownNow == Alone /\ StreamsInv => FilesAreKnown
BY FilesKnown, PositionsKnown, NothingPushed DEF FilesAreKnown

LEMMA KnownNext == Alone' /\ StreamsInv' => FilesAreKnown'
BY KnownNow, PTL

LEMMA IsKnown ==
  ASSUME Alone, StreamsInv, NEW s \in Streams
  PROVE  Is(s, KnownFile(s), KnownPos(s), st[s].buffered)
<1>1. LogicalPos = [t \in Streams |-> KnownPos(t)]
  BY PositionsKnown
<1>2. LogicalPos = [t \in Streams |-> LogicalPos[t]]
      /\ LogicalPos[s] = KnownPos(s)
  <2> HIDE DEF KnownPos
  <2> QED
    BY <1>1
<1>3. s \in Plain <=> ~ st[s].buffered
  BY DEF Plain
<1> QED
  BY <1>2, <1>3, FilesKnown DEF Is

LEMMA ComesKnown ==
  ASSUME Alone, StreamsInv, StreamsInv', NEW s \in Streams,
         \A t \in Streams : t # s =>
           /\ KnownFile(t)' = KnownFile(t)
           /\ KnownPos(t)' = KnownPos(t)
           /\ st'[t].buffered = st[t].buffered,
         \A f \in Files : (\A t \in Streams : NameOf[t] # f)
                            => content'[f] = content[f]
  PROVE  Comes(s, KnownFile(s)', KnownPos(s)', st'[s].buffered)
<1>1. /\ LogicalFile = [f \in Files |-> LogicalFile[f]]
      /\ \A t \in Streams : LogicalFile[NameOf[t]] = KnownFile(t)
      /\ \A f \in Files : (\A t \in Streams : NameOf[t] # f)
                            => LogicalFile[f] = content[f]
  BY FilesKnown
<1>2. /\ LogicalFile' = [f \in Files |-> LogicalFile'[f]]
      /\ \A t \in Streams : LogicalFile'[NameOf[t]] = KnownFile(t)'
      /\ \A f \in Files : (\A t \in Streams : NameOf[t] # f)
                            => LogicalFile'[f] = content'[f]
      /\ LogicalPos' = [t \in Streams |-> KnownPos(t)']
      /\ Unpushed' = [t \in Streams |-> <<>>]
  <2>1. Alone'
    BY DEF Alone
  <2> QED
    BY <2>1, KnownNext DEF FilesAreKnown
<1>3. LogicalPos = [t \in Streams |-> KnownPos(t)]
  BY PositionsKnown
<1>4. Unpushed = [t \in Streams |-> <<>>]
  BY NothingPushed
<1>5. LogicalFile' = [LogicalFile EXCEPT ![NameOf[s]] = KnownFile(s)']
  <2> DEFINE old == LogicalFile
             new == LogicalFile'
             x == KnownFile(s)'
  <2>1. new = [f \in Files |-> new[f]] /\ old = [f \in Files |-> old[f]]
    BY <1>1, <1>2
  <2>2. ASSUME NEW f \in Files
        PROVE  new[f] = IF f = NameOf[s] THEN x ELSE old[f]
    <3>1. CASE \E t \in Streams : NameOf[t] = f
      BY <1>1, <1>2, <3>1 DEF Alone
    <3>2. CASE ~ \E t \in Streams : NameOf[t] = f
      BY <1>1, <1>2, <3>2
    <3> QED
      BY <3>1, <3>2
  <2> HIDE DEF old, new, x
  <2>3. new = [old EXCEPT ![NameOf[s]] = x]
    BY <2>1, <2>2
  <2> QED
    BY <2>3 DEF old, new, x
<1>6. LogicalPos' = [LogicalPos EXCEPT ![s] = KnownPos(s)']
  <2> HIDE DEF KnownPos
  <2> QED
    BY <1>2, <1>3
<1>7. Plain' = IF st'[s].buffered THEN Plain \ {s} ELSE Plain \cup {s}
  BY DEF Plain
<1> QED
  BY <1>2, <1>4, <1>5, <1>6, <1>7 DEF Comes

-----------------------------------------------------------------------------
(* Steps of the abstract store                                             *)

LEMMA FileKept ==
  ASSUME NEW s \in Streams, NEW f, NEW p, NEW q, NEW u, NEW w,
         Is(s, f, p, u), Comes(s, f, q, w)
  PROVE  LogicalFile' = LogicalFile /\ LogicalFile[NameOf[s]] = f
<1> DEFINE old == LogicalFile
           new == LogicalFile'
<1>1. /\ new = [old EXCEPT ![NameOf[s]] = f] /\ old[NameOf[s]] = f
      /\ old = [g \in Files |-> old[g]]
  BY DEF Is, Comes
<1> HIDE DEF old, new
<1>2. new = old
  BY <1>1
<1> QED
  BY <1>1, <1>2 DEF old, new

LEMMA PositionKept ==
  ASSUME NEW s \in Streams, NEW f, NEW g, NEW p, NEW u, NEW w,
         Is(s, f, p, u), Comes(s, g, p, w)
  PROVE  LogicalPos' = LogicalPos /\ LogicalPos[s] = p
<1> DEFINE old == LogicalPos
           new == LogicalPos'
<1>1. /\ new = [old EXCEPT ![s] = p] /\ old[s] = p
      /\ old = [t \in Streams |-> old[t]]
  BY DEF Is, Comes
<1> HIDE DEF old, new
<1>2. new = old
  BY <1>1
<1> QED
  BY <1>1, <1>2 DEF old, new

LEMMA PlainKept ==
  ASSUME NEW s \in Streams, NEW f, NEW g, NEW p, NEW q, NEW u,
         Is(s, f, p, u), Comes(s, g, q, u)
  PROVE  Plain' = Plain
<1> DEFINE old == Plain
           new == Plain'
<1>1. /\ new = IF u THEN old \ {s} ELSE old \cup {s}
      /\ s \in old <=> ~ u
  BY DEF Is, Comes
<1> HIDE DEF old, new
<1>2. new = old
  BY <1>1
<1> QED
  BY <1>2 DEF old, new

LEMMA UnpushedKept ==
  ASSUME NEW s \in Streams, NEW f, NEW p, NEW u, Comes(s, f, p, u)
  PROVE  /\ Unpushed' = Unpushed /\ Unpushed[s] = <<>>
         /\ Unpushed' = [Unpushed EXCEPT ![s] = <<>>]
<1> DEFINE old == Unpushed
           new == Unpushed'
<1>1. old = [t \in Streams |-> <<>>] /\ new = [t \in Streams |-> <<>>]
  BY DEF Comes
<1> HIDE DEF old, new
<1>2. new = old /\ old[s] = <<>> /\ new = [old EXCEPT ![s] = <<>>]
  BY <1>1
<1> QED
  BY <1>2 DEF old, new

LEMMA StepOpen ==
  ASSUME NEW s \in Streams, NEW f, NEW g, Is(s, f, -1, TRUE),
         Comes(s, g, 0, TRUE), g = f \/ g = <<>>, result' = <<"open", 0>>
  PROVE  Logical!Open(s)
<1>1. LogicalFile' = LogicalFile
        \/ LogicalFile' = [LogicalFile EXCEPT ![NameOf[s]] = <<>>]
  <2>1. CASE g = f
    BY <2>1, FileKept
  <2>2. CASE g = <<>>
    BY <2>2 DEF Comes
  <2> QED
    BY <2>1, <2>2
<1>2. LogicalPos' = [LogicalPos EXCEPT ![s] = 0] /\ LogicalPos[s] = -1
  BY DEF Is, Comes
<1>3. Plain' = Plain /\ Unpushed' = Unpushed
  BY PlainKept, UnpushedKept
<1> HIDE DEF LogicalFile, LogicalPos
<1> QED
  BY <1>1, <1>2, <1>3 DEF Logical!Open, Logical!Closed, Plain, Unpushed

LEMMA StepSetBuf ==
  ASSUME NEW s \in Streams, NEW f, NEW p \in Nat, NEW u, NEW w \in BOOLEAN,
         Is(s, f, p, u), Comes(s, f, p, w), result' = <<"setvbuf", 0>>
  PROVE  Logical!SetBuf(s)
<1>1. Plain' \in {Plain \cup {s}, Plain \ {s}}
  <2>1. Plain' = IF w THEN Plain \ {s} ELSE Plain \cup {s}
    BY DEF Comes
  <2> HIDE DEF Plain
  <2> QED
    BY <2>1
<1>2. LogicalFile' = LogicalFile /\ LogicalPos' = LogicalPos /\ LogicalPos[s] = p
  BY FileKept, PositionKept
<1>3. Unpushed' = Unpushed /\ Unpushed[s] = <<>>
  BY UnpushedKept
<1> HIDE DEF LogicalFile, LogicalPos
<1> QED
  BY <1>1, <1>2, <1>3 DEF Logical!SetBuf, Logical!Closed, Plain, Unpushed

(* What is behind the position p, and at most n bytes of something.        *)
Rest(bytes, p) == SubSeq(bytes, p + 1, Len(bytes))
AtMost(bytes, n) == SubSeq(bytes, 1, IF n < Len(bytes) THEN n ELSE Len(bytes))

LEMMA CutOfRest ==
  ASSUME NEW bs \in Seq(Bytes), NEW p \in Nat, NEW n \in Nat
  PROVE  /\ Rest(bs, p) \in Seq(Bytes)
         /\ AtMost(Rest(bs, p), n) = Cut(bs, p, n)
<1> DEFINE l == Len(bs)
           rest == Rest(bs, p)
           m == IF n < Len(rest) THEN n ELSE Len(rest)
<1>1. l \in Nat /\ rest = SubSeq(bs, p + 1, l)
  BY EmptyType DEF Rest
<1> HIDE DEF l
<1>4. AtMost(rest, n) = SubSeq(rest, 1, m)
  BY DEF AtMost
<1> HIDE DEF rest
<1>2. CASE p <= l
  <2>1. rest \in Seq(Bytes) /\ Len(rest) = l - p
    BY <1>1, <1>2, PieceType DEF l
  <2>2. m \in Nat /\ m <= l - p /\ m = (IF n < l - p THEN n ELSE l - p)
    BY <1>1, <1>2, <2>1
  <2> HIDE DEF m
  <2> DEFINE z == 0
  <2>3. z \in Nat /\ z <= m /\ z + 1 = 1 /\ p + z + 1 = p + 1
    BY <2>2
  <2> HIDE DEF z
  <2>4. SubSeq(SubSeq(bs, p + 1, l), z + 1, m) = SubSeq(bs, p + z + 1, p + m)
    BY <1>1, <1>2, <2>2, <2>3, PieceOfPiece DEF l
  <2>5. SubSeq(rest, 1, m) = SubSeq(bs, p + 1, p + m)
    BY <1>1, <2>3, <2>4
  <2>6. p + m = Lesser(p + n, l)
    BY <1>1, <1>2, <2>2 DEF Lesser
  <2>7. SubSeq(rest, 1, m) = Cut(bs, p, n)
    BY <2>5, <2>6 DEF Cut, l
  <2> QED
    BY <1>4, <2>1, <2>7 DEF m, l, rest
<1>3. CASE ~ (p <= l)
  <2>1. rest = <<>>
    BY <1>1, <1>3, EmptyPiece
  <2>2. m = 0 /\ rest \in Seq(Bytes)
    <3>1. Len(rest) = 0 /\ rest \in Seq(Bytes)
      BY <2>1, EmptyType
    <3> DEFINE lr == Len(rest)
    <3>2. lr = 0
      BY <3>1
    <3> HIDE DEF lr
    <3>3. (IF n < lr THEN n ELSE lr) = 0
      BY <3>2
    <3> QED
      BY <3>1, <3>3 DEF lr
  <2>3. SubSeq(rest, 1, m) = <<>>
    BY <2>1, <2>2
  <2> DEFINE j == Lesser(p + n, l)
  <2>4. j \in Int /\ j <= p
    BY <1>1, <1>3 DEF Lesser
  <2> HIDE DEF j
  <2>5. SubSeq(bs, p + 1, j) = <<>>
    BY <2>4, EmptyPiece
  <2>6. Cut(bs, p, n) = <<>>
    BY <2>5 DEF Cut, j, l
  <2> QED
    BY <1>4, <2>2, <2>3, <2>6 DEF l, rest
<1> QED
  BY <1>2, <1>3

LEMMA StepRead ==
  ASSUME NEW s \in Streams, NEW f \in Seq(Bytes), NEW p \in Nat, NEW u,
         Is(s, f, p, u), NEW n \in Sizes \cup Stretches \cup {1}, n \in Nat,
         NEW got, got = Cut(f, p, n), Comes(s, f, p + Len(got), u),
         result' = <<"read", got>>
  PROVE  Logical!Read(s)
<1> DEFINE rest == SubSeq(f, p + 1, Len(f))
           all == <<>> \o rest
           m == IF n < Len(all) THEN n ELSE Len(all)
<1>1. got = SubSeq(all, 1, m)
  <2>1. Rest(f, p) \in Seq(Bytes) /\ AtMost(Rest(f, p), n) = got
    BY CutOfRest
  <2>2. Rest(f, p) = rest
    BY DEF Rest
  <2> HIDE DEF rest
  <2>3. all = rest
    BY <2>1, <2>2
  <2> HIDE DEF all
  <2> QED
    BY <2>1, <2>2, <2>3 DEF AtMost
<1>2. Len(got) \in Nat /\ got \in Seq(Bytes)
  BY CutType, EmptyType
<1>3. LogicalFile' = LogicalFile /\ LogicalFile[NameOf[s]] = f
  BY FileKept
<1>4. /\ LogicalPos' = [LogicalPos EXCEPT ![s] = @ + Len(got) - (0 - 0)]
      /\ LogicalPos[s] = p
  <2>1. LogicalPos' = [LogicalPos EXCEPT ![s] = p + Len(got)]
        /\ LogicalPos[s] = p
    BY DEF Is, Comes
  <2> HIDE DEF LogicalPos
  <2>2. p + Len(got) - (0 - 0) = p + Len(got)
    BY <1>2
  <2> QED
    BY <2>1, <2>2
<1>5. Plain' = Plain
  BY PlainKept
<1>6. /\ Unpushed[s] = <<>>
      /\ SubSeq(<<>>, Len(got) + 1, Len(<<>>)) = <<>>
      /\ Len(<<>>) = 0
      /\ Unpushed' = [Unpushed EXCEPT ![s] = <<>>]
  BY <1>2, UnpushedKept, EmptyType, EmptyPiece
<1> DEFINE fl == LogicalFile
           po == LogicalPos
           un == Unpushed
           left == SubSeq(un[s], Len(got) + 1, Len(un[s]))
<1>7. /\ fl[NameOf[s]] = f /\ po[s] = p /\ p # -1 /\ un[s] = <<>>
  BY <1>3, <1>4, <1>6
<1>8. LET bs == fl[NameOf[s]]
          rst == SubSeq(bs, po[s] + 1, Len(bs))
          al == un[s] \o rst
          gt == SubSeq(al, 1, IF n < Len(al) THEN n ELSE Len(al))
      IN  gt = got
  <2> HIDE DEF fl, po, un
  <2> QED
    BY <1>1, <1>7
<1>9. left = <<>> /\ Len(left) = 0 /\ Len(un[s]) = 0
  <2> HIDE DEF un
  <2> QED
    BY <1>6, <1>7
<1>10. /\ un' = [un EXCEPT ![s] = left]
       /\ po' = [po EXCEPT ![s] = @ + Len(got) - (Len(un[s]) - Len(left))]
  <2> HIDE DEF left
  <2>1. un' = [un EXCEPT ![s] = left]
    BY <1>6, <1>9
  <2>2. po' = [po EXCEPT ![s] = @ + Len(got) - (Len(un[s]) - Len(left))]
    BY <1>4, <1>9
  <2> QED
    BY <2>1, <2>2
<1> HIDE DEF LogicalFile, LogicalPos
<1> QED
  BY <1>3, <1>5, <1>7, <1>8, <1>10 DEF Logical!Read, Logical!Closed, Plain, Unpushed

LEMMA PutIsOverlay ==
  ASSUME NEW bytes \in Seq(Bytes), NEW at \in Nat, NEW bs \in Seq(Bytes)
  PROVE  Logical!Put(bytes, at, bs) = Overlay(bytes, at, bs)
<1>1. CASE bs = <<>>
  BY <1>1 DEF Logical!Put, Overlay
<1>2. CASE bs # <<>>
  <2> DEFINE n == Greater(Len(bytes), at + Len(bs))
             G(i) == IF i > at /\ i <= at + Len(bs) THEN bs[i - at]
                     ELSE IF i <= Len(bytes) THEN bytes[i] ELSE Zero
             m == IF at + Len(bs) > Len(bytes) THEN at + Len(bs) ELSE Len(bytes)
             H(i) == IF i \in at + 1 .. at + Len(bs) THEN bs[i - at]
                     ELSE IF i <= Len(bytes) THEN bytes[i] ELSE Zero
  <2>1. n = m /\ n \in Nat
    BY DEF Greater
  <2>2. ASSUME NEW i \in 1 .. n PROVE G(i) = H(i)
    <3>1. i \in Nat
      BY <2>1
    <3>2. i > at /\ i <= at + Len(bs) <=> i \in at + 1 .. at + Len(bs)
      BY <3>1
    <3> QED
      BY <3>2
  <2>3. Overlay(bytes, at, bs) = [i \in 1 .. n |-> G(i)]
    BY <1>2 DEF Overlay
  <2>4. Logical!Put(bytes, at, bs) = [i \in 1 .. m |-> H(i)]
    BY <1>2 DEF Logical!Put
  <2> HIDE DEF n, m, G, H
  <2> QED
    BY <2>1, <2>2, <2>3, <2>4
<1> QED
  BY <1>1, <1>2

LEMMA StepWrite ==
  ASSUME NEW s \in Streams, NEW f \in Seq(Bytes), NEW p \in Nat, NEW u,
         Is(s, f, p, u),
         NEW bs \in Chunks \cup Fillings \cup {<<c>> : c \in Chars},
         bs \in Seq(Bytes), Comes(s, Overlay(f, p, bs), p + Len(bs), u),
         result' = <<"write", Len(bs)>>
  PROVE  Logical!Write(s)
<1>1. LogicalFile' = [LogicalFile EXCEPT ![NameOf[s]]
                        = Logical!Put(@, LogicalPos[s], bs)]
  <2>1. LogicalFile' = [LogicalFile EXCEPT ![NameOf[s]] = Overlay(f, p, bs)]
        /\ LogicalFile[NameOf[s]] = f /\ LogicalPos[s] = p
    BY DEF Is, Comes
  <2>2. Overlay(f, p, bs) = Logical!Put(f, p, bs)
    BY PutIsOverlay
  <2> DEFINE old == LogicalFile
             new == LogicalFile'
             at == LogicalPos[s]
             Laid(bytes, i) == Logical!Put(bytes, i, bs)
  <2>3. /\ new = [old EXCEPT ![NameOf[s]] = Laid(f, p)]
        /\ old[NameOf[s]] = f /\ at = p
    BY <2>1, <2>2
  <2> HIDE DEF old, new, at, Laid
  <2>4. new = [old EXCEPT ![NameOf[s]] = Laid(@, at)]
    BY <2>3
  <2> QED
    BY <2>4 DEF old, new, at, Laid
<1>2. LogicalPos' = [LogicalPos EXCEPT ![s] = @ + Len(bs)] /\ LogicalPos[s] = p
  <2>1. LogicalPos' = [LogicalPos EXCEPT ![s] = p + Len(bs)]
        /\ LogicalPos[s] = p
    BY DEF Is, Comes
  <2> HIDE DEF LogicalPos
  <2> QED
    BY <2>1
<1>3. Plain' = Plain /\ Unpushed' = [Unpushed EXCEPT ![s] = <<>>]
  BY PlainKept, UnpushedKept
<1>4. p # -1 /\ result'[1] = "write"
  OBVIOUS
<1> HIDE DEF LogicalFile, LogicalPos, Logical!Put
<1> QED
  BY <1>1, <1>2, <1>3, <1>4
     DEF Logical!Write, Logical!Closed, Logical!Dropped, Plain, Unpushed

LEMMA StepSetPos ==
  ASSUME NEW s \in Streams, NEW f, NEW p \in Nat, NEW u, Is(s, f, p, u),
         NEW call \in {"seek_set", "seek_cur", "seek_end"}, NEW arg \in Int,
         NEW q \in Nat, Comes(s, f, q, u), result' = <<call, arg>>,
         call = "seek_set" => q = arg,
         call = "seek_cur" => q = p + arg,
         call = "seek_end" => q = Len(f) + arg
  PROVE  Logical!SetPos(s)
<1>1. LogicalFile' = LogicalFile /\ LogicalFile[NameOf[s]] = f
  BY FileKept
<1>2. LogicalPos' = [LogicalPos EXCEPT ![s] = q] /\ LogicalPos[s] = p
      /\ s \in DOMAIN LogicalPos
  <2>1. LogicalPos' = [LogicalPos EXCEPT ![s] = q] /\ LogicalPos[s] = p
        /\ LogicalPos = [t \in Streams |-> LogicalPos[t]]
    BY DEF Is, Comes
  <2> HIDE DEF LogicalPos
  <2> QED
    BY <2>1
<1>3. /\ Plain' = Plain /\ Unpushed' = [Unpushed EXCEPT ![s] = <<>>]
      /\ Unpushed[s] = <<>>
  BY PlainKept, UnpushedKept
<1>4. Logical!Told(s) = p
  <2> DEFINE po == LogicalPos[s]
             un == Unpushed[s]
             pl == s \in Plain
  <2>1. po = p /\ Len(un) = 0
    BY <1>2, <1>3, EmptyType
  <2>2. Logical!Told(s) = po - IF pl THEN 0 ELSE Len(un)
    BY DEF Logical!Told, Plain, Unpushed
  <2> HIDE DEF po, un, pl
  <2> QED
    BY <2>1, <2>2
<1>5. /\ result'[1] = call /\ result'[2] = arg /\ p # -1 /\ q >= 0
  OBVIOUS
<1>6. q = CASE FALSE -> LogicalPos'[s]
            [] call = "seek_set" -> arg
            [] call = "seek_cur" /\ ~ FALSE -> Logical!Told(s) + arg
            [] call = "seek_end" -> Len(LogicalFile[NameOf[s]]) + arg
  <2> HIDE DEF LogicalFile, LogicalPos, Logical!Told
  <2> QED
    BY <1>1, <1>4
<1>7. LogicalPos'[s] = q
  <2> HIDE DEF LogicalPos
  <2> QED
    BY <1>2
<1>8. Logical!Astray(s) = FALSE
  BY <1>3 DEF Logical!Astray, Unpushed
<1> HIDE DEF LogicalFile, LogicalPos, Logical!Told, Logical!Astray
<1> QED
  BY <1>1, <1>2, <1>3, <1>5, <1>6, <1>7, <1>8
     DEF Logical!SetPos, Logical!Closed, Logical!Dropped, Plain, Unpushed

LEMMA StepGetPos ==
  ASSUME NEW s \in Streams, NEW f, NEW p \in Nat, NEW u, Is(s, f, p, u),
         Comes(s, f, p, u), result' = <<"getpos", p>>
  PROVE  Logical!GetPos(s)
<1>1. /\ LogicalFile' = LogicalFile /\ LogicalPos' = LogicalPos
      /\ LogicalPos[s] = p /\ Plain' = Plain
      /\ Unpushed' = Unpushed /\ Unpushed[s] = <<>>
  BY FileKept, PositionKept, PlainKept, UnpushedKept
<1>2. Logical!Told(s) = p
  <2> DEFINE po == LogicalPos[s]
             un == Unpushed[s]
             pl == s \in Plain
  <2>1. po = p /\ Len(un) = 0
    BY <1>1, EmptyType
  <2>2. Logical!Told(s) = po - IF pl THEN 0 ELSE Len(un)
    BY DEF Logical!Told, Plain, Unpushed
  <2> HIDE DEF po, un, pl
  <2> QED
    BY <2>1, <2>2
<1> HIDE DEF LogicalFile, LogicalPos, Logical!Told
<1> QED
  BY <1>1, <1>2 DEF Logical!GetPos, Logical!Closed, Plain, Unpushed

LEMMA StepFlush ==
  ASSUME NEW s \in Streams, NEW f, NEW p, NEW u, Is(s, f, p, u),
         Comes(s, f, p, u), result' = <<"flush", 0>>
  PROVE  Logical!Flush(s)
<1>1. /\ LogicalFile' = LogicalFile /\ LogicalPos' = LogicalPos
      /\ Plain' = Plain /\ Unpushed' = [Unpushed EXCEPT ![s] = <<>>]
  BY FileKept, PositionKept, PlainKept, UnpushedKept
<1> HIDE DEF LogicalFile, LogicalPos
<1> QED
  BY <1>1 DEF Logical!Flush, Logical!Dropped, Plain, Unpushed

LEMMA StepFail ==
  ASSUME NEW s \in Streams, NEW f, NEW p, NEW u, Is(s, f, p, u),
         Comes(s, f, p, u), result' = <<"error", 0>>
  PROVE  Logical!Fail(s)
<1>1. /\ LogicalFile' = LogicalFile /\ LogicalPos' = LogicalPos
      /\ Plain' = Plain /\ Unpushed' = Unpushed
  BY FileKept, PositionKept, PlainKept, UnpushedKept
<1> HIDE DEF LogicalFile, LogicalPos
<1> QED
  BY <1>1 DEF Logical!Fail, Plain, Unpushed

LEMMA StepClose ==
  ASSUME NEW s \in Streams, NEW f, NEW p \in Nat, NEW u, Is(s, f, p, u),
         Comes(s, f, -1, TRUE), result' = <<"close", 0>>
  PROVE  Logical!Close(s)
<1>1. LogicalFile' = LogicalFile
  BY FileKept
<1>2. LogicalPos' = [LogicalPos EXCEPT ![s] = -1] /\ LogicalPos[s] = p
  BY DEF Is, Comes
<1>3. Plain' = Plain \ {s} /\ Unpushed' = [Unpushed EXCEPT ![s] = <<>>]
  BY UnpushedKept DEF Comes
<1> HIDE DEF LogicalFile, LogicalPos
<1> QED
  BY <1>1, <1>2, <1>3
     DEF Logical!Close, Logical!Closed, Logical!Dropped, Plain, Unpushed

-----------------------------------------------------------------------------
(* What a call leaves of what is known                                     *)

(* Of the kernel, what is known depends on the bytes alone.                *)
LEMMA BytesTell ==
  ASSUME NEW b, NEW k, NEW kx, kx.bytes = k.bytes
  PROVE  (Coherent(b, kx) <=> Coherent(b, k)) /\ Known(b, kx) = Known(b, k)
BY DEF Coherent, Known

LEMMA EvictionStill ==
  ASSUME Alone, StoreInv, NEW v \in Streams, really_open[v],
         NEW e \in Evictions(v)
  PROVE  /\ Still(e, st[v], Disk(v)) /\ e.ok = TRUE
         /\ e.b.can = st[v].can /\ life[v] = "open"
<1>1. v # NoStream
  BY StreamsAssumption
<1>2. e \in Gflush(st[v], Disk(v))
  BY <1>1 DEF Evictions
<1>3. Faithful(st[v], Disk(v))
  BY DiskGood DEF StoreInv, Faithful
<1>4. Flushed(e, st[v])
  BY EvictionFits DEF StoreInv, Alone
<1>5. life[v] = "open"
  BY DEF StoreInv, StreamsInv, CfdInv, OpenOnChain, ReallyOpen
<1> DEFINE b == st[v]
           k == Disk(v)
<1>6. Faithful(b, k) /\ e \in Gflush(b, k) /\ ~ IOErrors
  BY <1>2, <1>3 DEF Alone
<1> HIDE DEF b, k
<1>7. Still(e, b, k) /\ e.ok = TRUE
  BY <1>6, GflushStill
<1> QED
  BY <1>4, <1>5, <1>7 DEF b, k, Flushed, Fits

(* c has what d has of every file but that of s.                           *)
OthersAs(s, c, d) == \A f \in Files : f # NameOf[s] => c[f] = d[f]

(* A call on s has come to the stream b, the offset p and the files c.     *)
LEMMA SeenStep ==
  ASSUME Alone, StoreInv, StreamsInv', NEW s \in Streams, NEW v, NEW e,
         NEW b, NEW k, NEW p, NEW c \in [Files -> Seq(Bytes)],
         \/ v = NoStream
         \/ /\ v \in Streams /\ v # s
            /\ Still(e, st[v], Disk(v)) /\ e.ok = TRUE
            /\ e.b.can = st[v].can /\ life[v] = "open",
         \A t \in Streams : t # s => life'[t] = life[t],
         OthersAs(s, c, ContentAfter(v, e)),
         k.bytes = c[NameOf[s]], Coherent(b, k), "a" \notin b.can,
         life'[s] # "open" => b.mode = "idle" /\ b.buffered = TRUE,
         Store(s, v, e, b, p, c)
  PROVE  /\ StoreInv'
         /\ KnownFile(s)' = (IF life'[s] = "open" THEN Known(b, k) ELSE k.bytes)
         /\ KnownPos(s)' = (IF life'[s] = "open" THEN Getpos(b) ELSE -1)
         /\ Comes(s, KnownFile(s)', KnownPos(s)', b.buffered)
<1>1. /\ st' = [t \in Streams |-> IF t = s THEN b
                                  ELSE IF t = v THEN e.b ELSE st[t]]
      /\ content' = c
      /\ last_close_status' =
           [t \in Streams |-> IF t = v THEN e.ok ELSE last_close_status[t]]
  BY DEF Store
<1>2. s # v
  BY StreamsAssumption
<1>3. content \in [Files -> Seq(Bytes)]
  BY DEF StoreInv, StreamsInv
<1>4. ASSUME NEW f \in Files, f # NameOf[s]
      PROVE  content'[f] = IF v # NoStream /\ f = NameOf[v] THEN e.k.bytes
                           ELSE content[f]
  BY <1>1, <1>3, <1>4 DEF ContentAfter, OthersAs
<1>5. st'[s] = b /\ Disk(s)'.bytes = k.bytes
  BY <1>1, FilesAssumption DEF Disk
<1>6. Coherent(st'[s], Disk(s)') /\ Known(st'[s], Disk(s)') = Known(b, k)
  BY <1>5, BytesTell
<1>7. ASSUME NEW t \in Streams, t # s
      PROVE  /\ Coherent(st'[t], Disk(t)')
             /\ Known(st'[t], Disk(t)') = Known(st[t], Disk(t))
             /\ st'[t].can = st[t].can /\ st'[t].buffered = st[t].buffered
             /\ Getpos(st'[t]) = Getpos(st[t])
             /\ last_close_status'[t] = TRUE
             /\ life[t] # "open" => st'[t].mode = "idle"
                                    /\ content'[NameOf[t]] = content[NameOf[t]]
  <2>1. /\ Coherent(st[t], Disk(t)) /\ last_close_status[t] = TRUE
        /\ life[t] # "open" => st[t].mode = "idle"
    BY DEF StoreInv
  <2>2. NameOf[t] # NameOf[s] /\ NameOf[t] \in Files
    BY <1>7, FilesAssumption DEF Alone
  <2>3. Disk(t)'.bytes = content'[NameOf[t]]
        /\ Disk(t).bytes = content[NameOf[t]]
    BY DEF Disk
  <2>4. CASE t = v
    <3>1. st'[t] = e.b /\ last_close_status'[t] = TRUE /\ life[t] = "open"
          /\ Still(e, st[t], Disk(t)) /\ e.b.can = st[t].can
      BY <1>1, <1>7, <2>4, StreamsAssumption
    <3>2. Disk(t)'.bytes = e.k.bytes
      BY <1>4, <2>2, <2>3, <2>4, StreamsAssumption
    <3>3. Coherent(e.b, Disk(t)') /\ Known(e.b, Disk(t)') = Known(e.b, e.k)
      BY <3>1, <3>2, BytesTell DEF Still, Keeps
    <3> QED
      BY <3>1, <3>3 DEF Still, Keeps
  <2>5. CASE t # v
    <3>1. st'[t] = st[t] /\ last_close_status'[t] = last_close_status[t]
      BY <1>1, <1>7, <2>5
    <3>2. content'[NameOf[t]] = content[NameOf[t]]
      BY <1>4, <2>2, <2>5 DEF Alone
    <3>3. Coherent(st[t], Disk(t)') /\ Known(st[t], Disk(t)') = Known(st[t], Disk(t))
      BY <2>1, <2>3, <3>2, BytesTell
    <3> QED
      BY <2>1, <3>1, <3>2, <3>3
  <2> QED
    BY <2>4, <2>5
<1>8. last_close_status'[s] = TRUE
  BY <1>1, <1>2 DEF StoreInv
<1>9. StoreInv'
  <2>1. ASSUME NEW t \in Streams
        PROVE  /\ Coherent(st'[t], Disk(t)') /\ "a" \notin st'[t].can
               /\ last_close_status'[t] = TRUE
               /\ life'[t] # "open"
                    => st'[t].mode = "idle" /\ st'[t].buffered = TRUE
    <3>1. CASE t = s
      BY <1>5, <1>6, <1>8, <3>1
    <3>2. CASE t # s
      <4>1. "a" \notin st[t].can
            /\ (life[t] # "open" => st[t].buffered = TRUE)
            /\ life'[t] = life[t]
        BY <3>2 DEF StoreInv
      <4> QED
        BY <1>7, <3>2, <4>1
    <3> QED
      BY <3>1, <3>2
  <2> QED
    BY <2>1 DEF StoreInv
<1>10. /\ KnownFile(s)' = (IF life'[s] = "open" THEN Known(b, k) ELSE k.bytes)
       /\ KnownPos(s)' = (IF life'[s] = "open" THEN Getpos(b) ELSE -1)
  BY <1>1, <1>5, <1>6 DEF KnownFile, KnownPos
<1>11. ASSUME NEW t \in Streams, t # s
       PROVE  /\ KnownFile(t)' = KnownFile(t) /\ KnownPos(t)' = KnownPos(t)
              /\ st'[t].buffered = st[t].buffered
  <2>1. life'[t] = life[t]
    BY <1>11
  <2> QED
    BY <1>7, <1>11, <2>1 DEF KnownFile, KnownPos
<1>12. ASSUME NEW f \in Files, \A t \in Streams : NameOf[t] # f
       PROVE  content'[f] = content[f]
  BY <1>4, <1>12
<1>13. Comes(s, KnownFile(s)', KnownPos(s)', st'[s].buffered)
  BY <1>11, <1>12, ComesKnown DEF StoreInv
<1> QED
  BY <1>5, <1>9, <1>10, <1>13

(* What a checked call on s finds: all that was known of s.                *)
LEMMA CheckedFound ==
  ASSUME Alone, StoreInv, NEW s \in Streams,
         NEW v \in Streams \cup {NoStream}, GIO_cfd_check(s, v),
         NEW e \in Evictions(v)
  PROVE  /\ Faithful(Reopened(s), DiskAfter(s, v, e))
         /\ Is(s, Known(Reopened(s), DiskAfter(s, v, e)), Getpos(Reopened(s)),
               Reopened(s).buffered)
         /\ Getpos(Reopened(s)) = Getpos(st[s])
         /\ Known(Reopened(s), DiskAfter(s, v, e)) \in Seq(Bytes)
         /\ Getpos(Reopened(s)) \in Nat /\ Reopened(s).buffered \in BOOLEAN
<1>1. /\ life[s] = "open"
      /\ v = NoStream \/ (v \in Streams /\ v # s /\ really_open[v])
  BY CheckFacts DEF StoreInv
<1>2. Good(Reopened(s), DiskAfter(s, v, e))
  BY CheckedStart DEF StoreInv, Alone
<1>3. Coherent(st[s], Disk(s)) /\ "a" \notin st[s].can /\ Sound(st[s])
  BY DEF StoreInv, StreamsInv
<1> DEFINE b == Reopened(s)
           x == st[s]
           k == DiskAfter(s, v, e)
<1>4. k.bytes = Disk(s).bytes
  <2>1. NameOf[s] \in Files /\ (v # NoStream => NameOf[s] # NameOf[v])
    BY <1>1, FilesAssumption DEF Alone
  <2>2. ContentAfter(v, e)[NameOf[s]] = content[NameOf[s]]
    BY <2>1 DEF ContentAfter, StoreInv, StreamsInv
  <2> QED
    BY <2>2 DEF DiskAfter, Disk
<1>5. /\ b.mode = x.mode /\ b.can = x.can /\ b.offset = x.offset
      /\ b.data = x.data /\ b.used = x.used /\ b.unread = x.unread
      /\ b.buffered = x.buffered
  <2>1. CASE really_open[s] \/ last_open_pos[s] = 0
    BY <2>1 DEF Reopened
  <2>2. CASE ~ (really_open[s] \/ last_open_pos[s] = 0)
    <3>1. b = [x EXCEPT !.offset = last_open_pos[s]]
      BY <2>2 DEF Reopened
    <3>2. last_open_pos[s] = x.offset
      BY <1>1, <2>2 DEF StoreInv, StreamsInv
    <3>3. DOMAIN x = {"mode", "can", "offset", "data", "used", "unread",
                      "room", "lead", "size_p", "buffered"}
      BY <1>3 DEF Sound
    <3> HIDE DEF b, x
    <3> QED
      BY <3>1, <3>2, <3>3
  <2> QED
    BY <2>1, <2>2
<1>6. x.buffered \in BOOLEAN
  BY <1>3 DEF Sound
<1>7. Is(s, KnownFile(s), KnownPos(s), x.buffered)
  BY IsKnown DEF StoreInv
<1>8. KnownFile(s) = Known(x, Disk(s)) /\ KnownPos(s) = Getpos(x)
  BY <1>1 DEF KnownFile, KnownPos
<1> HIDE DEF b, k, x
<1>9. Getpos(b) = Getpos(x)
  BY <1>5 DEF Getpos
<1>10. Coherent(b, k) /\ Known(b, k) = Known(x, Disk(s))
  BY <1>3, <1>4, <1>5 DEF Coherent, Known, x
<1>11. Faithful(b, k)
  BY <1>2, <1>3, <1>5, <1>10 DEF Faithful, b, k, x
<1>12. Known(b, k) \in Seq(Bytes) /\ Getpos(b) \in Nat
  BY <1>11, KnownType DEF Faithful
<1> QED
  BY <1>5, <1>6, <1>7, <1>8, <1>9, <1>10, <1>11, <1>12 DEF b, k, x

(* What it leaves.                                                         *)
LEMMA CheckedSeen ==
  ASSUME Alone, StoreInv, CfdInv', NEW s \in Streams,
         NEW v \in Streams \cup {NoStream}, GIO_cfd_check(s, v),
         NEW e \in Evictions(v), NEW o, Fits(o, Reopened(s)),
         Coherent(o.b, o.k), Settled(s, v, e, o)
  PROVE  StoreInv' /\ Comes(s, Known(o.b, o.k), Getpos(o.b), o.b.buffered)
<1>1. StreamsInv /\ ~ IOErrors
  BY DEF StoreInv, Alone
<1>2. StreamsInv'
  BY <1>1, CheckedStep DEF Fits
<1>3. /\ life[s] = "open" /\ really_open'[s]
      /\ v = NoStream \/ (v \in Streams /\ v # s /\ really_open[v])
      /\ \A t \in Streams : t # s => life'[t] = life[t]
  BY <1>1, CheckFacts
<1>4. \/ v = NoStream
      \/ /\ v \in Streams /\ v # s
         /\ Still(e, st[v], Disk(v)) /\ e.ok = TRUE
         /\ e.b.can = st[v].can /\ life[v] = "open"
  BY <1>3, EvictionStill
<1>5. life'[s] = "open"
  BY <1>3 DEF CfdInv, OpenOnChain, ReallyOpen
<1>6. "a" \notin o.b.can
  <2>1. "a" \notin Reopened(s).can
    BY CheckedFound DEF Faithful
  <2> QED
    BY <2>1 DEF Fits
<1> DEFINE c == [ContentAfter(v, e) EXCEPT ![NameOf[s]] = o.k.bytes]
           b == o.b
           k == o.k
           p == o.k.pos
<1>7. ContentAfter(v, e) \in [Files -> Seq(Bytes)]
  <2>1. v = NoStream \/ (v \in Streams /\ Flushed(e, st[v]))
    BY <1>1, CheckedStart
  <2> QED
    BY <1>1, <2>1, FilesAfter
<1>8. /\ c \in [Files -> Seq(Bytes)] /\ k.bytes = c[NameOf[s]]
      /\ OthersAs(s, c, ContentAfter(v, e))
  <2>1. o.k.bytes \in Seq(Bytes)
    BY DEF Fits, Good, Kernel
  <2> QED
    BY <1>7, <2>1, FilesAssumption DEF OthersAs
<1>9. Store(s, v, e, b, k.pos, c) /\ Coherent(b, k) /\ "a" \notin b.can
  BY <1>6 DEF Settled
<1>10. Store(s, v, e, b, p, c)
  BY <1>9
<1>11. /\ \A t \in Streams : t # s => life'[t] = life[t]
       /\ life'[s] # "open" => b.mode = "idle" /\ b.buffered = TRUE
  BY <1>3, <1>5
<1> HIDE DEF c, b, k, p
<1>12. /\ StoreInv'
       /\ KnownFile(s)' = (IF life'[s] = "open" THEN Known(b, k) ELSE k.bytes)
       /\ KnownPos(s)' = (IF life'[s] = "open" THEN Getpos(b) ELSE -1)
       /\ Comes(s, KnownFile(s)', KnownPos(s)', b.buffered)
  BY <1>2, <1>4, <1>8, <1>9, <1>10, <1>11, SeenStep
<1> QED
  BY <1>5, <1>12 DEF b, k

-----------------------------------------------------------------------------
(* The calls, as steps of the store                                        *)

(* What a read or a write says of what was known and is known after it.    *)
LEMMA ReadsTell ==
  ASSUME NEW s \in Streams, NEW b, NEW k,
         Is(s, Known(b, k), Getpos(b), b.buffered),
         Known(b, k) \in Seq(Bytes), Getpos(b) \in Nat,
         NEW n \in Sizes \cup Stretches \cup {1}, n \in Nat,
         NEW o, Reads(o, b, k, n),
         Comes(s, Known(o.b, o.k), Getpos(o.b), o.b.buffered),
         result' = IF o.ok THEN <<"read", o.ret>> ELSE <<"error", 0>>
  PROVE  Logical!Read(s) \/ Logical!Fail(s)
<1> DEFINE f == Known(b, k)
           p == Getpos(b)
           u == b.buffered
<1>1. Is(s, f, p, u) /\ f \in Seq(Bytes) /\ p \in Nat
  OBVIOUS
<1>2. /\ o.b.buffered = u /\ Known(o.b, o.k) = f
      /\ \/ o.ok = TRUE /\ o.ret = Cut(f, p, n)
            /\ Getpos(o.b) = p + Len(o.ret)
         \/ o.ok = FALSE /\ Getpos(o.b) = p
  BY DEF Reads, Keeps
<1> HIDE DEF f, p, u
<1>3. CASE o.ok = TRUE /\ o.ret = Cut(f, p, n) /\ Getpos(o.b) = p + Len(o.ret)
  <2>1. result' = <<"read", o.ret>> /\ Comes(s, f, p + Len(o.ret), u)
    BY <1>2, <1>3
  <2> QED
    BY <1>1, <1>3, <2>1, StepRead
<1>4. CASE o.ok = FALSE /\ Getpos(o.b) = p
  <2>1. result' = <<"error", 0>> /\ Comes(s, f, p, u)
    BY <1>2, <1>4
  <2> QED
    BY <1>1, <2>1, StepFail
<1> QED
  BY <1>2, <1>3, <1>4

LEMMA WritesTell ==
  ASSUME NEW s \in Streams, NEW b, NEW k,
         Is(s, Known(b, k), Getpos(b), b.buffered),
         Known(b, k) \in Seq(Bytes), Getpos(b) \in Nat,
         NEW bs \in Chunks \cup Fillings \cup {<<c>> : c \in Chars},
         bs \in Seq(Bytes), NEW o, Writes(o, b, k, bs),
         Comes(s, Known(o.b, o.k), Getpos(o.b), o.b.buffered),
         result' = IF o.ok THEN <<"write", o.ret>> ELSE <<"error", 0>>
  PROVE  Logical!Write(s) \/ Logical!Fail(s)
<1> DEFINE f == Known(b, k)
           p == Getpos(b)
           u == b.buffered
<1>1. Is(s, f, p, u) /\ f \in Seq(Bytes) /\ p \in Nat
  OBVIOUS
<1>2. /\ o.b.buffered = u
      /\ \/ /\ o.ok = TRUE /\ o.ret = Len(bs)
            /\ Known(o.b, o.k) = Overlay(f, p, bs)
            /\ Getpos(o.b) = p + Len(bs)
         \/ o.ok = FALSE /\ Known(o.b, o.k) = f /\ Getpos(o.b) = p
  BY DEF Writes, Takes, Still, Keeps
<1> HIDE DEF f, p, u
<1>3. CASE /\ o.ok = TRUE /\ o.ret = Len(bs)
           /\ Known(o.b, o.k) = Overlay(f, p, bs)
           /\ Getpos(o.b) = p + Len(bs)
  <2>1. /\ result' = <<"write", Len(bs)>>
        /\ Comes(s, Overlay(f, p, bs), p + Len(bs), u)
    BY <1>2, <1>3
  <2> QED
    BY <1>1, <2>1, StepWrite
<1>4. CASE o.ok = FALSE /\ Known(o.b, o.k) = f /\ Getpos(o.b) = p
  <2>1. result' = <<"error", 0>> /\ Comes(s, f, p, u)
    BY <1>2, <1>4
  <2> QED
    BY <1>1, <2>1, StepFail
<1> QED
  BY <1>2, <1>3, <1>4

(* A checked call that reads, one that writes, and one that seeks.         *)
LEMMA ReadSeen ==
  ASSUME Alone, StoreInv, CfdInv', NEW s \in Streams,
         NEW v \in Streams \cup {NoStream}, GIO_cfd_check(s, v),
         NEW e \in Evictions(v),
         NEW n \in Sizes \cup Stretches \cup {1}, n \in Nat,
         NEW o, Fits(o, Reopened(s)),
         Reads(o, Reopened(s), DiskAfter(s, v, e), n), Settled(s, v, e, o),
         result' = IF o.ok THEN <<"read", o.ret>> ELSE <<"error", 0>>
  PROVE  StoreInv' /\ (Logical!Read(s) \/ Logical!Fail(s))
<1> DEFINE b == Reopened(s)
           k == DiskAfter(s, v, e)
<1>1. /\ Is(s, Known(b, k), Getpos(b), b.buffered)
      /\ Known(b, k) \in Seq(Bytes) /\ Getpos(b) \in Nat
  BY CheckedFound
<1>2. Coherent(o.b, o.k)
  BY DEF Reads, Keeps
<1>3. StoreInv' /\ Comes(s, Known(o.b, o.k), Getpos(o.b), o.b.buffered)
  BY <1>2, CheckedSeen, Zenon
<1>4. Reads(o, b, k, n)
  OBVIOUS
<1> HIDE DEF b, k
<1> QED
  BY <1>1, <1>3, <1>4, ReadsTell

LEMMA WriteSeen ==
  ASSUME Alone, StoreInv, CfdInv', NEW s \in Streams,
         NEW v \in Streams \cup {NoStream}, GIO_cfd_check(s, v),
         NEW e \in Evictions(v),
         NEW bs \in Chunks \cup Fillings \cup {<<c>> : c \in Chars},
         bs \in Seq(Bytes), NEW o, Fits(o, Reopened(s)),
         Writes(o, Reopened(s), DiskAfter(s, v, e), bs), Settled(s, v, e, o),
         result' = IF o.ok THEN <<"write", o.ret>> ELSE <<"error", 0>>
  PROVE  StoreInv' /\ (Logical!Write(s) \/ Logical!Fail(s))
<1> DEFINE b == Reopened(s)
           k == DiskAfter(s, v, e)
<1>1. /\ Is(s, Known(b, k), Getpos(b), b.buffered)
      /\ Known(b, k) \in Seq(Bytes) /\ Getpos(b) \in Nat
  BY CheckedFound
<1>2. Coherent(o.b, o.k)
  BY DEF Writes, Takes, Still, Keeps, Coherent
<1>3. StoreInv' /\ Comes(s, Known(o.b, o.k), Getpos(o.b), o.b.buffered)
  BY <1>2, CheckedSeen, Zenon
<1>4. Writes(o, b, k, bs)
  OBVIOUS
<1> HIDE DEF b, k
<1> QED
  BY <1>1, <1>3, <1>4, WritesTell

LEMMA SeekSeen ==
  ASSUME Alone, StoreInv, CfdInv', NEW s \in Streams,
         NEW v \in Streams \cup {NoStream}, GIO_cfd_check(s, v),
         NEW e \in Evictions(v),
         NEW call \in {"seek_set", "seek_cur", "seek_end"}, NEW arg \in Int,
         NEW pos \in Int, NEW o, Fits(o, Reopened(s)),
         Seeks(o, Reopened(s), DiskAfter(s, v, e), pos), Settled(s, v, e, o),
         call = "seek_set" => pos = arg,
         call = "seek_cur" => pos = Getpos(Reopened(s)) + arg,
         call = "seek_end" =>
           pos = Len(Known(Reopened(s), DiskAfter(s, v, e))) + arg,
         result' = IF o.ok THEN <<call, arg>> ELSE <<"error", 0>>
  PROVE  StoreInv' /\ (Logical!SetPos(s) \/ Logical!Fail(s))
<1> DEFINE b == Reopened(s)
           k == DiskAfter(s, v, e)
           f == Known(b, k)
           p == Getpos(b)
           u == b.buffered
<1>1. Is(s, f, p, u) /\ f \in Seq(Bytes) /\ p \in Nat
  BY CheckedFound
<1>2. /\ Coherent(o.b, o.k) /\ o.b.buffered = u /\ Known(o.b, o.k) = f
      /\ \/ o.ok = TRUE /\ Getpos(o.b) = pos /\ pos >= 0
         \/ o.ok = FALSE /\ Getpos(o.b) = p
  BY DEF Seeks, Keeps
<1>3. StoreInv' /\ Comes(s, Known(o.b, o.k), Getpos(o.b), o.b.buffered)
  BY <1>2, CheckedSeen, Zenon
<1>4. /\ call = "seek_set" => pos = arg
      /\ call = "seek_cur" => pos = p + arg
      /\ call = "seek_end" => pos = Len(f) + arg
  OBVIOUS
<1> HIDE DEF b, k, f, p, u
<1>5. CASE o.ok = TRUE /\ Getpos(o.b) = pos /\ pos >= 0
  <2>1. result' = <<call, arg>> /\ Comes(s, f, pos, u) /\ pos \in Nat
    BY <1>2, <1>3, <1>5
  <2>2. Logical!SetPos(s)
    BY <1>1, <1>4, <2>1, StepSetPos
  <2> QED
    BY <1>3, <2>2
<1>6. CASE o.ok = FALSE /\ Getpos(o.b) = p
  <2>1. result' = <<"error", 0>> /\ Comes(s, f, p, u)
    BY <1>2, <1>3, <1>6
  <2>2. Logical!Fail(s)
    BY <1>1, <2>1, StepFail
  <2> QED
    BY <1>3, <2>2
<1> QED
  BY <1>2, <1>5, <1>6

(* gread, greada and greadb.                                               *)
LEMMA GreadSeen ==
  ASSUME Alone, StoreInv, CfdInv', NEW s \in Streams,
         NEW v \in Streams \cup {NoStream}, Gread(s, v)
  PROVE  StoreInv' /\ (Logical!Read(s) \/ Logical!Fail(s))
<1>1. GIO_cfd_check(s, v)
  BY Zenon DEF Gread, Checked
<1>2. PICK n \in Sizes, e \in Evictions(v) :
        \E o \in Greadc(Reopened(s), DiskAfter(s, v, e), n) :
          /\ Settled(s, v, e, o)
          /\ result' = IF o.ok THEN <<"read", o.ret>> ELSE <<"error", 0>>
  BY Zenon DEF Gread, Checked, DiskAfter, Settled, Return
<1> DEFINE b == Reopened(s)
           k == DiskAfter(s, v, e)
<1>3. PICK o \in Greadc(b, k, n) :
        /\ Settled(s, v, e, o)
        /\ result' = IF o.ok THEN <<"read", o.ret>> ELSE <<"error", 0>>
  BY <1>2
<1>4. Faithful(b, k) /\ Good(b, k) /\ ~ IOErrors
  BY <1>1, CheckedFound DEF Faithful, Alone
<1>5. n \in Nat
  BY CallsAssumption
<1> HIDE DEF b, k
<1>6. Fits(o, b) /\ Reads(o, b, k, n)
  BY <1>4, <1>5, GreadcFits, GreadcReads
<1> QED
  BY <1>1, <1>3, <1>5, <1>6, ReadSeen DEF b, k

LEMMA ReadPointerSeen ==
  ASSUME Alone, StoreInv, CfdInv', NEW s \in Streams,
         NEW v \in Streams \cup {NoStream}, ReadPointer(s, v)
  PROVE  StoreInv' /\ (Logical!Read(s) \/ Logical!Fail(s))
<1>1. GIO_cfd_check(s, v)
  BY Zenon DEF ReadPointer, Checked
<1>2. PICK n \in Stretches, e \in Evictions(v) :
        \E o \in Greadb(Reopened(s), DiskAfter(s, v, e), n) :
          /\ Settled(s, v, e, o)
          /\ result' = IF o.ok THEN <<"read", o.ret>> ELSE <<"error", 0>>
  BY Zenon DEF ReadPointer, Checked, DiskAfter, Settled, Return
<1> DEFINE b == Reopened(s)
           k == DiskAfter(s, v, e)
<1>3. PICK o \in Greadb(b, k, n) :
        /\ Settled(s, v, e, o)
        /\ result' = IF o.ok THEN <<"read", o.ret>> ELSE <<"error", 0>>
  BY <1>2
<1>4. Faithful(b, k) /\ Good(b, k) /\ ~ IOErrors
  BY <1>1, CheckedFound DEF Faithful, Alone
<1>5. n \in Nat
  BY CallsAssumption
<1> HIDE DEF b, k
<1>6. Fits(o, b) /\ Reads(o, b, k, n)
  BY <1>4, <1>5, GreadbFits, GreadbReads
<1> QED
  BY <1>1, <1>3, <1>5, <1>6, ReadSeen DEF b, k

(* gwrite, gwritea and gwriteb.                                            *)
LEMMA GwriteSeen ==
  ASSUME Alone, StoreInv, CfdInv', NEW s \in Streams,
         NEW v \in Streams \cup {NoStream}, Gwrite(s, v)
  PROVE  StoreInv' /\ (Logical!Write(s) \/ Logical!Fail(s))
<1>1. GIO_cfd_check(s, v)
  BY Zenon DEF Gwrite, Checked
<1>2. PICK bs \in Chunks, e \in Evictions(v) :
        \E o \in Gwritec(Reopened(s), DiskAfter(s, v, e), bs) :
          /\ Settled(s, v, e, o)
          /\ result' = IF o.ok THEN <<"write", o.ret>> ELSE <<"error", 0>>
  BY Zenon DEF Gwrite, Checked, DiskAfter, Settled, Return
<1> DEFINE b == Reopened(s)
           k == DiskAfter(s, v, e)
<1>3. PICK o \in Gwritec(b, k, bs) :
        /\ Settled(s, v, e, o)
        /\ result' = IF o.ok THEN <<"write", o.ret>> ELSE <<"error", 0>>
  BY <1>2
<1>4. Faithful(b, k) /\ Good(b, k) /\ ~ IOErrors
  BY <1>1, CheckedFound DEF Faithful, Alone
<1>5. bs \in Seq(Bytes)
  BY CallsAssumption
<1> HIDE DEF b, k
<1>6. Fits(o, b) /\ Writes(o, b, k, bs)
  BY <1>4, <1>5, GwritecFits, GwritecWrites
<1> QED
  BY <1>1, <1>3, <1>5, <1>6, WriteSeen DEF b, k

LEMMA WritePointerSeen ==
  ASSUME Alone, StoreInv, CfdInv', NEW s \in Streams,
         NEW v \in Streams \cup {NoStream}, WritePointer(s, v)
  PROVE  StoreInv' /\ (Logical!Write(s) \/ Logical!Fail(s))
<1>1. GIO_cfd_check(s, v)
  BY Zenon DEF WritePointer, Checked
<1>2. PICK bs \in Fillings, e \in Evictions(v) :
        \E o \in Gwriteb(Reopened(s), DiskAfter(s, v, e), bs) :
          /\ Settled(s, v, e, o)
          /\ result' = IF o.ok THEN <<"write", o.ret>> ELSE <<"error", 0>>
  BY Zenon DEF WritePointer, Checked, DiskAfter, Settled, Return
<1> DEFINE b == Reopened(s)
           k == DiskAfter(s, v, e)
<1>3. PICK o \in Gwriteb(b, k, bs) :
        /\ Settled(s, v, e, o)
        /\ result' = IF o.ok THEN <<"write", o.ret>> ELSE <<"error", 0>>
  BY <1>2
<1>4. Faithful(b, k) /\ Good(b, k) /\ ~ IOErrors
  BY <1>1, CheckedFound DEF Faithful, Alone
<1>5. bs \in Seq(Bytes)
  BY CallsAssumption
<1> HIDE DEF b, k
<1>6. Fits(o, b) /\ Writes(o, b, k, bs)
  BY <1>4, <1>5, GwritebFits, GwritebWrites
<1> QED
  BY <1>1, <1>3, <1>5, <1>6, WriteSeen DEF b, k

(* gsetpos and gseek.                                                      *)
LEMMA GsetposCallSeen ==
  ASSUME Alone, StoreInv, CfdInv', NEW s \in Streams,
         NEW v \in Streams \cup {NoStream}, GsetposCall(s, v)
  PROVE  StoreInv' /\ (Logical!SetPos(s) \/ Logical!Fail(s))
<1>1. GIO_cfd_check(s, v)
  BY Zenon DEF GsetposCall, Setpos, Checked
<1>2. PICK pos \in Positions, e \in Evictions(v) :
        \E o \in Gsetpos(Reopened(s), DiskAfter(s, v, e), pos) :
          /\ Settled(s, v, e, o)
          /\ result' = IF o.ok THEN <<"seek_set", pos>> ELSE <<"error", 0>>
  BY Zenon DEF GsetposCall, Setpos, Checked, DiskAfter, Settled, Return
<1> DEFINE b == Reopened(s)
           k == DiskAfter(s, v, e)
<1>3. PICK o \in Gsetpos(b, k, pos) :
        /\ Settled(s, v, e, o)
        /\ result' = IF o.ok THEN <<"seek_set", pos>> ELSE <<"error", 0>>
  BY <1>2
<1>4. Faithful(b, k) /\ Good(b, k) /\ ~ IOErrors
  BY <1>1, CheckedFound DEF Faithful, Alone
<1>5. pos \in Int
  BY CallsAssumption
<1> HIDE DEF b, k
<1>6. Fits(o, b) /\ Seeks(o, b, k, pos)
  BY <1>4, <1>5, GsetposFits, GsetposSeeks
<1> QED
  BY <1>1, <1>3, <1>5, <1>6, SeekSeen DEF b, k

LEMMA GseekCurSeen ==
  ASSUME Alone, StoreInv, CfdInv', NEW s \in Streams,
         NEW v \in Streams \cup {NoStream}, GseekCur(s, v)
  PROVE  StoreInv' /\ (Logical!SetPos(s) \/ Logical!Fail(s))
<1>1. GIO_cfd_check(s, v)
  BY Zenon DEF GseekCur, Setpos, Checked
<1>2. PICK d \in Steps :
        \E pos \in SeekCurTargets(s, d) :
          \E e \in Evictions(v) :
             \E o \in Gsetpos(Reopened(s), DiskAfter(s, v, e), pos) :
               /\ Settled(s, v, e, o)
               /\ result' = IF o.ok THEN <<"seek_cur", d>> ELSE <<"error", 0>>
  BY Zenon DEF GseekCur, Setpos, Checked, DiskAfter, Settled, Return
<1> PICK pos \in SeekCurTargets(s, d) :
       \E e \in Evictions(v) :
          \E o \in Gsetpos(Reopened(s), DiskAfter(s, v, e), pos) :
            /\ Settled(s, v, e, o)
            /\ result' = IF o.ok THEN <<"seek_cur", d>> ELSE <<"error", 0>>
  BY <1>2
<1>3. pos \in Int /\ d \in Int /\ pos = Getpos(st[s]) + d
  <2>1. st[s].unread = <<>>
    BY DEF StoreInv, StreamsInv, Sound
  <2> QED
    BY <2>1, CallsAssumption DEF SeekCurTargets
<1>4. PICK e \in Evictions(v) :
        \E o \in Gsetpos(Reopened(s), DiskAfter(s, v, e), pos) :
          /\ Settled(s, v, e, o)
          /\ result' = IF o.ok THEN <<"seek_cur", d>> ELSE <<"error", 0>>
  OBVIOUS
<1> DEFINE b == Reopened(s)
           k == DiskAfter(s, v, e)
<1>5. PICK o \in Gsetpos(b, k, pos) :
        /\ Settled(s, v, e, o)
        /\ result' = IF o.ok THEN <<"seek_cur", d>> ELSE <<"error", 0>>
  BY <1>4
<1>6. /\ Faithful(b, k) /\ Good(b, k) /\ ~ IOErrors
      /\ Getpos(b) = Getpos(st[s])
  BY <1>1, CheckedFound DEF Faithful, Alone
<1>7. pos = Getpos(b) + d
  BY <1>3, <1>6
<1> HIDE DEF b, k
<1>8. Fits(o, b) /\ Seeks(o, b, k, pos)
  BY <1>3, <1>6, GsetposFits, GsetposSeeks
<1> QED
  BY <1>1, <1>3, <1>5, <1>7, <1>8, SeekSeen DEF b, k

LEMMA SeekEndSeeks ==
  ASSUME ~ IOErrors, NEW s, really_open[s], NEW b, NEW k, Faithful(b, k),
         NEW d \in Int, NEW o \in SeekEndOp(s, b, k, d)
  PROVE  Seeks(o, b, k, Len(Known(b, k)) + d)
<1> DEFINE Begun == IF b.mode = "write" THEN Gflushw(b, k)
                    ELSE {Outcome(b, k, TRUE, 0)}
           End(kr) == IF StatSize(s, kr) < 0 THEN -1 ELSE StatSize(s, kr) + d
           Part(r) == IF r.ok THEN Gsetpos(r.b, r.k, End(r.k)) ELSE {r}
<1>1. PICK r \in Begun : o \in Part(r)
  <2>1. SeekEndOp(s, b, k, d) = UNION {Part(r) : r \in Begun}
    BY DEF SeekEndOp
  <2> HIDE DEF Part, Begun
  <2> QED
    BY <2>1
<1>2. Good(b, k) /\ "a" \notin b.can /\ Coherent(b, k)
  BY DEF Faithful
<1>3. /\ Fits(r, b) /\ r.ok = TRUE /\ Still(r, b, k)
      /\ r.k.bytes = Known(b, k)
  <2>1. CASE b.mode = "write"
    <3>1. r \in Gflush(b, k)
      BY <1>1, <2>1 DEF Gflush
    <3>2. Flushed(r, b)
      BY <1>2, <3>1, GflushFits
    <3> QED
      BY <3>1, <3>2, GflushStill DEF Flushed
  <2>2. CASE b.mode # "write"
    <3>1. r = Outcome(b, k, TRUE, 0)
      BY <1>1, <2>2
    <3>2. r.b = b /\ r.k = k /\ r.ok = TRUE
      BY <3>1 DEF Outcome
    <3>3. Fits(r, b)
      BY <1>2, <3>1, OutcomeFits DEF Good
    <3>4. Still(r, b, k)
      BY <1>2, <3>2 DEF Still, Keeps
    <3>5. r.k.bytes = Known(b, k)
      BY <2>2, <3>2 DEF Known
    <3> QED
      BY <3>2, <3>3, <3>4, <3>5
  <2> QED
    BY <2>1, <2>2
<1> DEFINE c == r.b
           kc == r.k
           pos == Len(Known(b, k)) + d
<1>4. Faithful(c, kc)
  BY <1>2, <1>3 DEF Fits, Still, Keeps, Faithful
<1>5. Len(Known(b, k)) \in Nat
  BY <1>2, KnownType, EmptyType
<1>6. o \in Gsetpos(c, kc, pos)
  <2>1. StatSize(s, kc) = Len(Known(b, k))
    BY <1>3 DEF StatSize
  <2>2. End(kc) = pos
    BY <1>5, <2>1
  <2> HIDE DEF End, pos
  <2> QED
    BY <1>1, <1>3, <2>2
<1>7. pos \in Int
  BY <1>5
<1> HIDE DEF c, kc, pos
<1>8. Seeks(o, c, kc, pos)
  BY <1>4, <1>6, <1>7, GsetposSeeks
<1>9. Keeps(r, b, k) /\ Getpos(c) = Getpos(b)
  BY <1>3 DEF Still, c
<1>10. Seeks(o, b, k, pos)
  BY <1>8, <1>9 DEF Seeks, Keeps, c, kc
<1> QED
  BY <1>10 DEF pos

LEMMA GseekEndSeen ==
  ASSUME Alone, StoreInv, CfdInv', NEW s \in Streams,
         NEW v \in Streams \cup {NoStream}, GseekEnd(s, v)
  PROVE  StoreInv' /\ (Logical!SetPos(s) \/ Logical!Fail(s))
<1>1. GIO_cfd_check(s, v) /\ really_open[s]
  <2>1. GIO_cfd_check(s, v)
    BY Zenon DEF GseekEnd, Checked
  <2>2. really_open[s] \/ "gseek" \in Unchecked
    BY Zenon DEF GseekEnd
  <2> QED
    BY <2>1, <2>2 DEF Alone
<1>2. PICK d \in Steps, e \in Evictions(v) :
        \E o \in SeekEndOp(s, Reopened(s), DiskAfter(s, v, e), d) :
          /\ Settled(s, v, e, o)
          /\ result' = IF o.ok THEN <<"seek_end", d>> ELSE <<"error", 0>>
  BY Zenon DEF GseekEnd, SeekEndOp, Checked, DiskAfter, Settled, Return
<1> DEFINE b == Reopened(s)
           k == DiskAfter(s, v, e)
<1>3. PICK o \in SeekEndOp(s, b, k, d) :
        /\ Settled(s, v, e, o)
        /\ result' = IF o.ok THEN <<"seek_end", d>> ELSE <<"error", 0>>
  BY <1>2
<1>4. Faithful(b, k) /\ Good(b, k) /\ ~ IOErrors
  BY <1>1, CheckedFound DEF Faithful, Alone
<1>5. d \in Int
  BY CallsAssumption
<1> DEFINE pos == Len(Known(b, k)) + d
<1>6. pos \in Int
  BY <1>4, <1>5, KnownType, EmptyType
<1> HIDE DEF b, k
<1>7. Fits(o, b) /\ Seeks(o, b, k, pos)
  BY <1>1, <1>4, <1>5, SeekEndFits, SeekEndSeeks
<1>8. pos = Len(Known(b, k)) + d
  OBVIOUS
<1> HIDE DEF pos
<1> QED
  BY <1>1, <1>3, <1>5, <1>6, <1>7, <1>8, SeekSeen DEF b, k

(* ggetpos and gsetvbuf.                                                   *)
LEMMA GgetposSeen ==
  ASSUME Alone, StoreInv, CfdInv', NEW s \in Streams,
         NEW v \in Streams \cup {NoStream}, GgetposCall(s, v)
  PROVE  StoreInv' /\ Logical!GetPos(s)
<1>1. GIO_cfd_check(s, v)
  BY Zenon DEF GgetposCall, Checked
<1>2. PICK e \in Evictions(v) :
        \E o \in {Outcome(Reopened(s), DiskAfter(s, v, e), TRUE,
                          Getpos(Reopened(s)))} :
          /\ Settled(s, v, e, o)
          /\ result' = IF o.ok THEN <<"getpos", o.ret>> ELSE <<"error", 0>>
  BY Zenon DEF GgetposCall, Checked, DiskAfter, Settled, Return
<1> DEFINE b == Reopened(s)
           k == DiskAfter(s, v, e)
           o == Outcome(b, k, TRUE, Getpos(b))
           f == Known(b, k)
           p == Getpos(b)
           u == b.buffered
<1>3. /\ Settled(s, v, e, o)
      /\ result' = IF o.ok THEN <<"getpos", o.ret>> ELSE <<"error", 0>>
  BY <1>2
<1>4. /\ Faithful(b, k) /\ Is(s, f, p, u) /\ p \in Nat
  BY <1>1, CheckedFound
<1>5. o.b = b /\ o.k = k /\ o.ok = TRUE /\ o.ret = p
  BY DEF Outcome
<1>6. Fits(o, b)
  BY <1>4, OutcomeFits DEF Faithful, Good
<1>7. Coherent(o.b, o.k)
  BY <1>4, <1>5 DEF Faithful
<1> HIDE DEF o
<1>8. StoreInv' /\ Comes(s, Known(o.b, o.k), Getpos(o.b), o.b.buffered)
  BY <1>1, <1>3, <1>6, <1>7, CheckedSeen, Zenon
<1>9. StoreInv' /\ Comes(s, f, p, u) /\ result' = <<"getpos", p>>
  BY <1>3, <1>5, <1>8
<1> HIDE DEF b, k, f, p, u
<1> QED
  BY <1>4, <1>9, StepGetPos

LEMMA GsetvbufSeen ==
  ASSUME Alone, StoreInv, CfdInv', NEW s \in Streams,
         NEW v \in Streams \cup {NoStream}, GsetvbufCall(s, v)
  PROVE  StoreInv' /\ (Logical!SetBuf(s) \/ Logical!Fail(s))
<1>1. GIO_cfd_check(s, v)
  BY Zenon DEF GsetvbufCall, Checked
<1>2. PICK buffered \in Bufferings, e \in Evictions(v) :
        \E o \in Gsetvbuf(Reopened(s), DiskAfter(s, v, e), buffered) :
          /\ Settled(s, v, e, o)
          /\ result' = IF o.ok THEN <<"setvbuf", o.ret>> ELSE <<"error", 0>>
  BY Zenon DEF GsetvbufCall, Checked, DiskAfter, Settled, Return
<1> DEFINE b == Reopened(s)
           k == DiskAfter(s, v, e)
           f == Known(b, k)
           p == Getpos(b)
           u == b.buffered
<1>3. PICK o \in Gsetvbuf(b, k, buffered) :
        /\ Settled(s, v, e, o)
        /\ result' = IF o.ok THEN <<"setvbuf", o.ret>> ELSE <<"error", 0>>
  BY <1>2
<1>4. Faithful(b, k) /\ Good(b, k) /\ Is(s, f, p, u) /\ p \in Nat
  BY <1>1, CheckedFound DEF Faithful
<1>5. buffered \in BOOLEAN
  BY CallsAssumption
<1> HIDE DEF b, k
<1>6. Fits(o, b)
  BY <1>4, <1>5, GsetvbufFits DEF Alone
<1>7. /\ Coherent(o.b, o.k) /\ Known(o.b, o.k) = f /\ Getpos(o.b) = p
      /\ \/ o.ok = TRUE /\ o.ret = 0 /\ o.b.buffered = buffered
         \/ o.ok = FALSE /\ o.b.buffered = u
  BY <1>4, <1>5, GsetvbufSets, ZenonT(60) DEF Still, Keeps
<1>8. StoreInv' /\ Comes(s, Known(o.b, o.k), Getpos(o.b), o.b.buffered)
  BY <1>1, <1>3, <1>6, <1>7, CheckedSeen, Zenon DEF b
<1>9. StoreInv' /\ Comes(s, f, p, o.b.buffered)
  BY <1>7, <1>8
<1> HIDE DEF f, p, u
<1>10. CASE o.ok = TRUE /\ o.ret = 0 /\ o.b.buffered = buffered
  <2>1. result' = <<"setvbuf", 0>> /\ Comes(s, f, p, buffered)
    BY <1>3, <1>9, <1>10
  <2>2. Logical!SetBuf(s)
    BY <1>4, <1>5, <2>1, StepSetBuf
  <2> QED
    BY <1>9, <2>2
<1>11. CASE o.ok = FALSE /\ o.b.buffered = u
  <2>1. result' = <<"error", 0>> /\ Comes(s, f, p, u)
    BY <1>3, <1>9, <1>11
  <2>2. Logical!Fail(s)
    BY <1>4, <2>1, StepFail
  <2> QED
    BY <1>9, <2>2
<1> QED
  BY <1>7, <1>10, <1>11

-----------------------------------------------------------------------------
(* The calls without GIO_cfd_check, and those that open and close.         *)

(* A step in which no stream but s changes.                                *)
LEMMA OwnSeen ==
  ASSUME Alone, StoreInv, StreamsInv', NEW s \in Streams,
         NEW b, NEW k, NEW p, NEW c \in [Files -> Seq(Bytes)],
         st' = [st EXCEPT ![s] = b], kpos' = [kpos EXCEPT ![s] = p],
         content' = c, last_close_status' = last_close_status,
         \A t \in Streams : t # s => life'[t] = life[t],
         OthersAs(s, c, content),
         k.bytes = c[NameOf[s]], Coherent(b, k), "a" \notin b.can,
         life'[s] # "open" => b.mode = "idle" /\ b.buffered = TRUE
  PROVE  /\ StoreInv'
         /\ KnownFile(s)' = (IF life'[s] = "open" THEN Known(b, k) ELSE k.bytes)
         /\ KnownPos(s)' = (IF life'[s] = "open" THEN Getpos(b) ELSE -1)
         /\ Comes(s, KnownFile(s)', KnownPos(s)', b.buffered)
<1> DEFINE v == NoStream
           e == CHOOSE x : TRUE
<1>1. v = NoStream /\ v \notin Streams
  BY StreamsAssumption
<1>2. /\ st = [t \in Streams |-> st[t]] /\ kpos \in [Streams -> Nat]
      /\ last_close_status \in [Streams -> BOOLEAN]
  BY DEF StoreInv, StreamsInv
<1> HIDE DEF v, e
<1>3. st' = [t \in Streams |-> IF t = s THEN b
                               ELSE IF t = v THEN e.b ELSE st[t]]
  BY <1>1, <1>2
<1>4. kpos' = [t \in Streams |-> IF t = s THEN p
                                 ELSE IF t = v THEN 0 ELSE kpos[t]]
  BY <1>1, <1>2
<1>5. last_close_status' =
        [t \in Streams |-> IF t = v THEN e.ok ELSE last_close_status[t]]
  BY <1>1, <1>2
<1>6. Store(s, v, e, b, p, c)
  BY <1>3, <1>4, <1>5 DEF Store
<1>7. OthersAs(s, c, ContentAfter(v, e))
  BY <1>1 DEF ContentAfter
<1>8. \/ v = NoStream
      \/ /\ v \in Streams /\ v # s
         /\ Still(e, st[v], Disk(v)) /\ e.ok = TRUE
         /\ e.b.can = st[v].can /\ life[v] = "open"
  BY <1>1
<1> QED
  BY <1>6, <1>7, <1>8, SeenStep

(* What is known before it, of a stream that has its descriptor.           *)
LEMMA OwnFound ==
  ASSUME Alone, StoreInv, NEW s \in Streams, really_open[s]
  PROVE  /\ Faithful(st[s], Disk(s)) /\ life[s] = "open"
         /\ Is(s, Known(st[s], Disk(s)), Getpos(st[s]), st[s].buffered)
         /\ Known(st[s], Disk(s)) \in Seq(Bytes) /\ Getpos(st[s]) \in Nat
<1>1. life[s] = "open"
  BY DEF StoreInv, StreamsInv, CfdInv, OpenOnChain, ReallyOpen
<1>2. Good(st[s], Disk(s))
  BY DiskGood DEF StoreInv
<1>3. Faithful(st[s], Disk(s))
  BY <1>2 DEF StoreInv, Faithful
<1>4. KnownFile(s) = Known(st[s], Disk(s)) /\ KnownPos(s) = Getpos(st[s])
  BY <1>1 DEF KnownFile, KnownPos
<1>5. Is(s, KnownFile(s), KnownPos(s), st[s].buffered)
  BY IsKnown DEF StoreInv
<1> QED
  BY <1>1, <1>2, <1>3, <1>4, <1>5, KnownType

(* What it leaves.                                                         *)
LEMMA OwnLeft ==
  ASSUME Alone, StoreInv, StreamsInv', NEW s \in Streams, really_open[s],
         NEW o, Fits(o, st[s]), Coherent(o.b, o.k),
         st' = [st EXCEPT ![s] = o.b], kpos' = [kpos EXCEPT ![s] = o.k.pos],
         content' = [content EXCEPT ![NameOf[s]] = o.k.bytes],
         UNCHANGED <<cfdVars, last_open_pos, last_close_status>>
  PROVE  StoreInv' /\ Comes(s, Known(o.b, o.k), Getpos(o.b), o.b.buffered)
<1> DEFINE b == o.b
           k == o.k
           p == o.k.pos
           c == [content EXCEPT ![NameOf[s]] = o.k.bytes]
<1>1. "a" \notin b.can /\ k.bytes \in Seq(Bytes)
  <2>1. "a" \notin st[s].can
    BY DEF StoreInv
  <2> QED
    BY <2>1 DEF Fits, Good, Kernel
<1>2. /\ c \in [Files -> Seq(Bytes)] /\ k.bytes = c[NameOf[s]]
      /\ OthersAs(s, c, content)
  BY <1>1, FilesAssumption DEF StoreInv, StreamsInv, OthersAs
<1>3. life' = life /\ life[s] = "open" /\ last_close_status' = last_close_status
  BY OwnFound DEF cfdVars, streamVars
<1>4. /\ life'[s] = "open" /\ \A t \in Streams : t # s => life'[t] = life[t]
      /\ life'[s] # "open" => b.mode = "idle" /\ b.buffered = TRUE
  BY <1>3
<1>5. /\ st' = [st EXCEPT ![s] = b] /\ kpos' = [kpos EXCEPT ![s] = p]
      /\ content' = c /\ Coherent(b, k)
  OBVIOUS
<1> HIDE DEF b, k, p, c
<1>6. /\ StoreInv'
      /\ KnownFile(s)' = (IF life'[s] = "open" THEN Known(b, k) ELSE k.bytes)
      /\ KnownPos(s)' = (IF life'[s] = "open" THEN Getpos(b) ELSE -1)
      /\ Comes(s, KnownFile(s)', KnownPos(s)', b.buffered)
  BY <1>1, <1>2, <1>3, <1>4, <1>5, OwnSeen, Zenon
<1> QED
  BY <1>4, <1>6 DEF b, k

LEMMA GflushSeen ==
  ASSUME Alone, StoreInv, CfdInv', NEW s \in Streams, GflushStream(s)
  PROVE  StoreInv' /\ Logical!Flush(s)
<1>1. PICK o \in Gflush(st[s], Disk(s)) :
        /\ st' = [st EXCEPT ![s] = o.b]
        /\ kpos' = [kpos EXCEPT ![s] = o.k.pos]
        /\ content' = [content EXCEPT ![NameOf[s]] = o.k.bytes]
        /\ result' = IF o.ok THEN <<"flush", 0>> ELSE <<"error", 0>>
  BY DEF GflushStream, Return
<1>2. /\ really_open[s]
      /\ UNCHANGED <<cfdVars, last_open_pos, last_close_status>>
  BY DEF GflushStream
<1>3. StreamsInv'
  BY GflushStep DEF StoreInv, Alone
<1> DEFINE b == st[s]
           k == Disk(s)
           f == Known(b, k)
           p == Getpos(b)
           u == b.buffered
<1>4. /\ Faithful(b, k) /\ Good(b, k) /\ o \in Gflush(b, k) /\ ~ IOErrors
      /\ Is(s, f, p, u)
  BY <1>1, <1>2, OwnFound DEF Faithful, Alone
<1> HIDE DEF b, k
<1>5. Fits(o, b)
  BY <1>4, GflushFits DEF Flushed
<1>6. /\ Coherent(o.b, o.k) /\ Known(o.b, o.k) = f /\ Getpos(o.b) = p
      /\ o.b.buffered = u /\ o.ok = TRUE
  BY <1>4, GflushStill, ZenonT(60) DEF Still, Keeps
<1>7. StoreInv' /\ Comes(s, Known(o.b, o.k), Getpos(o.b), o.b.buffered)
  BY <1>1, <1>2, <1>3, <1>5, <1>6, OwnLeft, Zenon DEF b
<1>8. /\ StoreInv' /\ Comes(s, f, p, u) /\ result' = <<"flush", 0>>
  BY <1>1, <1>6, <1>7
<1> HIDE DEF f, p, u
<1> QED
  BY <1>4, <1>8, StepFlush

LEMMA GetCharSeen ==
  ASSUME Alone, StoreInv, CfdInv', NEW s \in Streams, GetChar(s)
  PROVE  StoreInv' /\ (Logical!Read(s) \/ Logical!Fail(s))
<1>1. really_open[s]
  BY Zenon DEF GetChar, Alone
<1>2. UNCHANGED <<cfdVars, last_open_pos, last_close_status>>
  BY Zenon DEF GetChar, ByDescriptor
<1>3. PICK t \in ReallyOpen :
        /\ fd[t] = fd[s]
        /\ \E o \in Greadb(st[s], Disk(t), 1) :
             /\ st' = [st EXCEPT ![s] = o.b]
             /\ kpos' = [kpos EXCEPT ![t] = o.k.pos]
             /\ content' = [content EXCEPT ![NameOf[t]] = o.k.bytes]
             /\ result' = IF o.ok THEN <<"read", o.ret>> ELSE <<"error", 0>>
  BY Zenon DEF GetChar, ByDescriptor, Return
<1>4. t = s
  BY <1>1, <1>3, OwnDescriptor DEF StoreInv
<1>5. StreamsInv'
  BY GetCharStep DEF StoreInv, Alone
<1> DEFINE b == st[s]
           k == Disk(s)
<1>6. PICK o \in Greadb(b, k, 1) :
        /\ st' = [st EXCEPT ![s] = o.b]
        /\ kpos' = [kpos EXCEPT ![s] = o.k.pos]
        /\ content' = [content EXCEPT ![NameOf[s]] = o.k.bytes]
        /\ result' = IF o.ok THEN <<"read", o.ret>> ELSE <<"error", 0>>
  BY <1>3, <1>4
<1>7. /\ Faithful(b, k) /\ Good(b, k) /\ ~ IOErrors
      /\ Is(s, Known(b, k), Getpos(b), b.buffered)
      /\ Known(b, k) \in Seq(Bytes) /\ Getpos(b) \in Nat
  BY <1>1, OwnFound DEF Faithful, Alone
<1> HIDE DEF b, k
<1>8. Fits(o, b) /\ Reads(o, b, k, 1)
  BY <1>7, GreadbFits, GreadbReads
<1>9. Coherent(o.b, o.k)
  BY <1>8 DEF Reads, Keeps
<1>10. StoreInv' /\ Comes(s, Known(o.b, o.k), Getpos(o.b), o.b.buffered)
  BY <1>1, <1>2, <1>5, <1>6, <1>8, <1>9, OwnLeft, Zenon DEF b
<1>11. Logical!Read(s) \/ Logical!Fail(s)
  BY <1>6, <1>7, <1>8, <1>10, ReadsTell
<1> QED
  BY <1>10, <1>11

LEMMA PutCharSeen ==
  ASSUME Alone, StoreInv, CfdInv', NEW s \in Streams, PutChar(s)
  PROVE  StoreInv' /\ (Logical!Write(s) \/ Logical!Fail(s))
<1>1. really_open[s]
  BY Zenon DEF PutChar, Alone
<1>2. UNCHANGED <<cfdVars, last_open_pos, last_close_status>>
  BY Zenon DEF PutChar, ByDescriptor
<1>3. PICK c \in Chars :
        ByDescriptor(s, LAMBDA b, k : {o \in Gputc(b, k, c) : Getpos(o.b) \in Positions},
                     "write")
  BY Zenon DEF PutChar
<1>4. PICK t \in ReallyOpen :
        /\ fd[t] = fd[s]
        /\ \E o \in {o \in Gputc(st[s], Disk(t), c) : Getpos(o.b) \in Positions} :
             /\ st' = [st EXCEPT ![s] = o.b]
             /\ kpos' = [kpos EXCEPT ![t] = o.k.pos]
             /\ content' = [content EXCEPT ![NameOf[t]] = o.k.bytes]
             /\ result' = IF o.ok THEN <<"write", o.ret>> ELSE <<"error", 0>>
  BY <1>3, Zenon DEF ByDescriptor, Return
<1>5. t = s
  BY <1>1, <1>4, OwnDescriptor DEF StoreInv
<1>6. StreamsInv'
  BY PutCharStep DEF StoreInv, Alone
<1> DEFINE b == st[s]
           k == Disk(s)
<1>7. PICK o \in Gputc(b, k, c) :
        /\ st' = [st EXCEPT ![s] = o.b]
        /\ kpos' = [kpos EXCEPT ![s] = o.k.pos]
        /\ content' = [content EXCEPT ![NameOf[s]] = o.k.bytes]
        /\ result' = IF o.ok THEN <<"write", o.ret>> ELSE <<"error", 0>>
  BY <1>4, <1>5
<1>8. /\ Faithful(b, k) /\ Good(b, k) /\ ~ IOErrors
      /\ Is(s, Known(b, k), Getpos(b), b.buffered)
      /\ Known(b, k) \in Seq(Bytes) /\ Getpos(b) \in Nat
  BY <1>1, OwnFound DEF Faithful, Alone
<1> HIDE DEF b, k
<1>9. /\ <<c>> \in Chunks \cup Fillings \cup {<<d>> : d \in Chars}
      /\ <<c>> \in Seq(Bytes) /\ c \in Bytes
  BY CallsAssumption
<1>10. Fits(o, b) /\ Writes(o, b, k, <<c>>)
  BY <1>7, <1>8, <1>9, GputcFits, GputcWrites
<1>11. Coherent(o.b, o.k)
  BY <1>10 DEF Writes, Takes, Still, Keeps, Coherent
<1>12. StoreInv' /\ Comes(s, Known(o.b, o.k), Getpos(o.b), o.b.buffered)
  BY <1>1, <1>2, <1>6, <1>7, <1>10, <1>11, OwnLeft, Zenon DEF b
<1>13. Logical!Write(s) \/ Logical!Fail(s)
  <2> DEFINE bs == <<c>>
  <2>1. /\ bs \in Chunks \cup Fillings \cup {<<d>> : d \in Chars}
        /\ bs \in Seq(Bytes) /\ Writes(o, b, k, bs)
    BY <1>9, <1>10
  <2> HIDE DEF bs
  <2> QED
    BY <1>7, <1>8, <1>12, <2>1, WritesTell
<1> QED
  BY <1>12, <1>13

(* What is known of a GFILE that is not open.                              *)
LEMMA ClosedFound ==
  ASSUME Alone, StoreInv, NEW s \in Streams, life[s] # "open"
  PROVE  /\ Is(s, content[NameOf[s]], -1, TRUE)
         /\ Known(st[s], Disk(s)) = content[NameOf[s]]
<1>1. st[s].mode = "idle" /\ st[s].buffered = TRUE
  BY DEF StoreInv
<1>2. KnownFile(s) = content[NameOf[s]] /\ KnownPos(s) = -1
  BY DEF KnownFile, KnownPos
<1>3. Is(s, KnownFile(s), KnownPos(s), st[s].buffered)
  BY IsKnown DEF StoreInv
<1>4. Known(st[s], Disk(s)) = content[NameOf[s]]
  BY <1>1 DEF Known, Disk
<1> QED
  BY <1>1, <1>2, <1>3, <1>4

(* A stream that has just been opened knows what the kernel has.           *)
LEMMA FreshFaithful ==
  ASSUME Alone, NEW mode \in Modes, NEW bytes, NEW k
  PROVE  /\ OpenedAt(mode, bytes) = 0 /\ "a" \notin Can(mode)
         /\ \A can : LET b == Fresh(can, 0)
                     IN  /\ Coherent(b, k) /\ Known(b, k) = k.bytes
                         /\ Getpos(b) = 0 /\ b.can = can
                         /\ b.mode = "idle" /\ b.buffered = TRUE
<1>1. mode # "a" /\ mode # "a+"
  BY DEF Alone
<1>2. OpenedAt(mode, bytes) = 0 /\ "a" \notin Can(mode)
  BY <1>1 DEF OpenedAt, Can
<1>3. ASSUME NEW can
      PROVE  LET b == Fresh(can, 0)
             IN  /\ Coherent(b, k) /\ Known(b, k) = k.bytes
                 /\ Getpos(b) = 0 /\ b.can = can
                 /\ b.mode = "idle" /\ b.buffered = TRUE
  <2> DEFINE b == Fresh(can, 0)
  <2>1. /\ b.mode = "idle" /\ b.buffered = TRUE /\ b.offset = 0
        /\ b.can = can
    BY DEF Fresh
  <2> HIDE DEF b
  <2>2. Coherent(b, k) /\ Known(b, k) = k.bytes /\ Getpos(b) = 0
    BY <2>1 DEF Coherent, Known, Getpos
  <2> QED
    BY <2>1, <2>2 DEF b
<1> QED
  BY <1>2, <1>3

LEMMA GopenSeen ==
  ASSUME Alone, StoreInv, CfdInv', NEW s \in Streams,
         NEW v \in Streams \cup {NoStream}, Gopen(s, v)
  PROVE  StoreInv' /\ Logical!Open(s)
<1> DEFINE Files1(e) == ContentAfter(v, e)
           At(mode, e) == OpenedAt(mode, Files1(e)[NameOf[s]])
           Files2(mode, e) == IF mode \in {"w", "w+"}
                              THEN [Files1(e) EXCEPT ![NameOf[s]] = <<>>]
                              ELSE Files1(e)
<1>1. PICK cached \in BOOLEAN, mode \in Modes, e \in Evictions(v) :
        /\ GopenOk(s, cached, v)
        /\ Store(s, v, e, Fresh(Can(mode), At(mode, e)), At(mode, e),
                 Files2(mode, e))
        /\ result' = <<"open", 0>>
  BY Zenon DEF Gopen, Return
<1>2. StreamsInv' /\ StreamsInv
  BY GopenStep DEF StoreInv, Alone
<1>3. ~ really_open[s] /\ life[s] # "open"
  BY <1>1, <1>2, UnusedClosed DEF GopenOk
<1>4. /\ v \in Victims /\ life' = [life EXCEPT ![s] = "open"]
  BY <1>1 DEF GopenOk, GIO_open_ok
<1>5. v = NoStream \/ (v \in Streams /\ v # s /\ really_open[v])
  BY <1>2, <1>3, <1>4, OpenFacts
<1>6. \/ v = NoStream
      \/ /\ v \in Streams /\ v # s
         /\ Still(e, st[v], Disk(v)) /\ e.ok = TRUE
         /\ e.b.can = st[v].can /\ life[v] = "open"
  BY <1>5, EvictionStill
<1>7. Files1(e) \in [Files -> Seq(Bytes)]
  <2>1. v = NoStream \/ (v \in Streams /\ Flushed(e, st[v]))
    BY <1>2, <1>5, EvictionFits DEF Alone
  <2> QED
    BY <1>2, <2>1, FilesAfter
<1>8. Files1(e)[NameOf[s]] = content[NameOf[s]]
  BY <1>5, FilesAssumption DEF ContentAfter, StoreInv, StreamsInv, Alone
<1> DEFINE b == Fresh(Can(mode), 0)
           c == Files2(mode, e)
           k == [bytes |-> c[NameOf[s]], pos |-> 0]
           p == 0
<1>9. /\ c \in [Files -> Seq(Bytes)] /\ OthersAs(s, c, ContentAfter(v, e))
      /\ c[NameOf[s]] = content[NameOf[s]] \/ c[NameOf[s]] = <<>>
  <2> HIDE DEF Files1
  <2>1. /\ c \in [Files -> Seq(Bytes)] /\ OthersAs(s, c, Files1(e))
        /\ c[NameOf[s]] = content[NameOf[s]] \/ c[NameOf[s]] = <<>>
    BY <1>7, <1>8, EmptyType, FilesAssumption DEF OthersAs
  <2> QED
    BY <2>1 DEF Files1
<1>10. At(mode, e) = 0 /\ "a" \notin Can(mode)
  <2> HIDE DEF Files1
  <2> QED
    BY FreshFaithful, ZenonT(60)
<1> HIDE DEF c
<1>11. /\ Coherent(b, k) /\ Known(b, k) = k.bytes /\ Getpos(b) = 0
       /\ "a" \notin b.can /\ b.mode = "idle" /\ b.buffered = TRUE
  <2> HIDE DEF k
  <2> QED
    BY <1>10, FreshFaithful
<1>12. Store(s, v, e, b, p, c)
  BY <1>1, <1>10 DEF c
<1>13. k.bytes = c[NameOf[s]]
  OBVIOUS
<1>14. /\ life'[s] = "open" /\ \A t \in Streams : t # s => life'[t] = life[t]
       /\ life'[s] # "open" => b.mode = "idle" /\ b.buffered = TRUE
  BY <1>4 DEF StoreInv, StreamsInv, CfdInv, CfdTypeOK
<1> HIDE DEF b, k, p
<1>15. /\ StoreInv'
       /\ KnownFile(s)' = (IF life'[s] = "open" THEN Known(b, k) ELSE k.bytes)
       /\ KnownPos(s)' = (IF life'[s] = "open" THEN Getpos(b) ELSE -1)
       /\ Comes(s, KnownFile(s)', KnownPos(s)', b.buffered)
  BY <1>2, <1>6, <1>9, <1>11, <1>12, <1>13, <1>14, SeenStep
<1> DEFINE f == content[NameOf[s]]
           g == c[NameOf[s]]
<1>16. StoreInv' /\ Comes(s, g, 0, TRUE) /\ (g = f \/ g = <<>>)
  BY <1>9, <1>11, <1>13, <1>14, <1>15
<1>17. Is(s, f, -1, TRUE)
  BY <1>3, ClosedFound
<1> HIDE DEF f, g
<1> QED
  BY <1>1, <1>16, <1>17, StepOpen

LEMMA GdopenSeen ==
  ASSUME Alone, StoreInv, CfdInv', NEW s \in Streams, GdopenStream(s)
  PROVE  StoreInv' /\ Logical!Open(s)
<1>1. /\ Gdopen(s) /\ result' = <<"open", 0>>
      /\ last_close_status' = last_close_status /\ content' = content
  BY DEF GdopenStream, Return
<1>2. PICK mode \in Modes :
        LET at == OpenedAt(mode, content[NameOf[s]])
        IN  /\ \E can \in {Can(mode), Can(mode) \ {"a"}} :
                 st' = [st EXCEPT ![s] = Fresh(can, at)]
            /\ kpos' = [kpos EXCEPT ![s] = at]
  BY DEF GdopenStream
<1>3. OpenedAt(mode, content[NameOf[s]]) = 0 /\ "a" \notin Can(mode)
  BY FreshFaithful, ZenonT(60)
<1>4. PICK can \in {Can(mode), Can(mode) \ {"a"}} :
        st' = [st EXCEPT ![s] = Fresh(can, 0)]
  BY <1>2, <1>3
<1>5. StreamsInv' /\ life[s] # "open"
  BY <1>1, GdopenStep, UnusedClosed DEF StoreInv, Gdopen
<1> DEFINE b == Fresh(can, 0)
           c == content
           k == [bytes |-> c[NameOf[s]], pos |-> 0]
           p == 0
<1>6. st' = [st EXCEPT ![s] = b] /\ kpos' = [kpos EXCEPT ![s] = p]
      /\ content' = c
  BY <1>1, <1>2, <1>3, <1>4
<1>7. /\ c \in [Files -> Seq(Bytes)] /\ OthersAs(s, c, content)
  BY DEF StoreInv, StreamsInv, OthersAs
<1>8. k.bytes = c[NameOf[s]]
  OBVIOUS
<1>9. /\ Coherent(b, k) /\ Known(b, k) = k.bytes /\ Getpos(b) = 0
      /\ "a" \notin b.can /\ b.mode = "idle" /\ b.buffered = TRUE
  <2> HIDE DEF k
  <2> QED
    BY <1>3, FreshFaithful
<1>10. /\ life'[s] = "open" /\ \A t \in Streams : t # s => life'[t] = life[t]
       /\ life'[s] # "open" => b.mode = "idle" /\ b.buffered = TRUE
  BY <1>1 DEF Gdopen, StoreInv, StreamsInv, CfdInv, CfdTypeOK
<1> DEFINE f == content[NameOf[s]]
<1>11. k.bytes = f
  OBVIOUS
<1> HIDE DEF b, c, k, p
<1>12. /\ StoreInv'
       /\ KnownFile(s)' = (IF life'[s] = "open" THEN Known(b, k) ELSE k.bytes)
       /\ KnownPos(s)' = (IF life'[s] = "open" THEN Getpos(b) ELSE -1)
       /\ Comes(s, KnownFile(s)', KnownPos(s)', b.buffered)
  BY <1>1, <1>5, <1>6, <1>7, <1>8, <1>9, <1>10, OwnSeen
<1>13. StoreInv' /\ Comes(s, f, 0, TRUE)
  BY <1>9, <1>10, <1>11, <1>12
<1>14. Is(s, f, -1, TRUE)
  BY <1>5, ClosedFound
<1> HIDE DEF f
<1> QED
  BY <1>1, <1>13, <1>14, StepOpen

(* A stream that has not been opened, or not opened again.                 *)
LEMMA NotOpenedSeen ==
  ASSUME Alone, StoreInv, CfdInv', NEW s \in Streams,
         NEW v \in Streams \cup {NoStream}, ~ really_open[s],
         GIO_open_failed(s, v), life' = life, NotOpened(s, v)
  PROVE  StoreInv' /\ Logical!Fail(s)
<1>1. StreamsInv' /\ StreamsInv
  BY NotOpenedStep DEF StoreInv, Alone
<1>2. last_open_pos[s] \in Nat /\ ~ (last_open_pos[s] < 0)
  BY <1>1 DEF StreamsInv
<1>3. PICK e \in Evictions(v) :
        Store(s, v, e, st[s], kpos[s], ContentAfter(v, e))
  BY <1>2, Zenon DEF NotOpened
<1>4. result' = <<"error", 0>>
  BY Zenon DEF NotOpened, Return
<1>5. v = NoStream \/ (v \in Streams /\ v # s /\ really_open[v])
  BY <1>1, OpenFacts DEF GIO_open_failed
<1>6. \/ v = NoStream
      \/ /\ v \in Streams /\ v # s
         /\ Still(e, st[v], Disk(v)) /\ e.ok = TRUE
         /\ e.b.can = st[v].can /\ life[v] = "open"
  BY <1>5, EvictionStill
<1>7. ContentAfter(v, e) \in [Files -> Seq(Bytes)]
  <2>1. v = NoStream \/ (v \in Streams /\ Flushed(e, st[v]))
    BY <1>1, <1>5, EvictionFits DEF Alone
  <2> QED
    BY <1>1, <2>1, FilesAfter
<1>8. ContentAfter(v, e)[NameOf[s]] = content[NameOf[s]]
  BY <1>5, FilesAssumption DEF ContentAfter, StoreInv, StreamsInv, Alone
<1> DEFINE b == st[s]
           k == Disk(s)
           p == kpos[s]
           c == ContentAfter(v, e)
<1>9. k.bytes = c[NameOf[s]]
  BY <1>8 DEF Disk
<1>10. /\ Coherent(b, k) /\ "a" \notin b.can
       /\ life'[s] # "open" => b.mode = "idle" /\ b.buffered = TRUE
  BY DEF StoreInv
<1>11. /\ OthersAs(s, c, ContentAfter(v, e))
       /\ \A t \in Streams : t # s => life'[t] = life[t]
  BY DEF OthersAs
<1>12. Is(s, KnownFile(s), KnownPos(s), b.buffered)
  BY IsKnown DEF StoreInv
<1>13. /\ KnownFile(s) = (IF life'[s] = "open" THEN Known(b, k) ELSE k.bytes)
       /\ KnownPos(s) = (IF life'[s] = "open" THEN Getpos(b) ELSE -1)
  BY <1>8, <1>9 DEF KnownFile, KnownPos
<1>14. Store(s, v, e, b, p, c)
  BY <1>3
<1> HIDE DEF b, k, p, c
<1>15. /\ StoreInv'
       /\ KnownFile(s)' = (IF life'[s] = "open" THEN Known(b, k) ELSE k.bytes)
       /\ KnownPos(s)' = (IF life'[s] = "open" THEN Getpos(b) ELSE -1)
       /\ Comes(s, KnownFile(s)', KnownPos(s)', b.buffered)
  BY <1>1, <1>6, <1>7, <1>9, <1>10, <1>11, <1>14, SeenStep DEF c
<1>16. Comes(s, KnownFile(s), KnownPos(s), b.buffered)
  BY <1>13, <1>15
<1> QED
  BY <1>4, <1>12, <1>15, <1>16, StepFail

LEMMA ErrorSeen ==
  ASSUME Alone, StoreInv, CfdInv', NEW s \in Streams,
         NEW v \in Streams \cup {NoStream}, GopenError(s, v) \/ CallError(s, v)
  PROVE  StoreInv' /\ Logical!Fail(s)
<1>1. CASE GopenError(s, v)
  <2>1. /\ Unused(s) /\ GIO_open_failed(s, v) /\ life' = life
        /\ NotOpened(s, v)
    BY <1>1 DEF GopenError, GopenFailed
  <2> QED
    BY <2>1, UnusedClosed, NotOpenedSeen DEF StoreInv
<1>2. CASE CallError(s, v)
  <2>1. /\ ~ really_open[s] /\ GIO_open_failed(s, v) /\ life' = life
        /\ NotOpened(s, v)
    BY <1>2 DEF CallError, CheckFailed, GfilenoFailed
  <2> QED
    BY <2>1, NotOpenedSeen
<1> QED
  BY <1>1, <1>2

(* A GFILE that is given back, its file as the application knows it.       *)
LEMMA ResetSeen ==
  ASSUME Alone, StoreInv, StreamsInv', NEW s \in Streams, Reset(s),
         life[s] = "open", life' = [life EXCEPT ![s] = "closed"],
         content' = [content EXCEPT ![NameOf[s]] = KnownFile(s)],
         KnownFile(s) \in Seq(Bytes), result' = <<"close", 0>>
  PROVE  StoreInv' /\ Logical!Close(s)
<1> DEFINE b == Fresh({}, 0)
           c == [content EXCEPT ![NameOf[s]] = KnownFile(s)]
           k == [bytes |-> c[NameOf[s]], pos |-> 0]
           p == 0
<1>1. /\ b.mode = "idle" /\ b.buffered = TRUE /\ "a" \notin b.can
  BY DEF Fresh
<1>2. Coherent(b, k)
  <2> HIDE DEF b, k
  <2> QED
    BY <1>1 DEF Coherent
<1>3. /\ c \in [Files -> Seq(Bytes)] /\ OthersAs(s, c, content)
      /\ c[NameOf[s]] = KnownFile(s)
  <2> HIDE DEF KnownFile
  <2> QED
    BY FilesAssumption DEF StoreInv, StreamsInv, OthersAs
<1>4. /\ st' = [st EXCEPT ![s] = b] /\ kpos' = [kpos EXCEPT ![s] = p]
      /\ content' = c
  BY DEF Reset
<1>5. last_close_status' = last_close_status
  <2>1. last_close_status' = [last_close_status EXCEPT ![s] = TRUE]
        /\ last_close_status[s] = TRUE
        /\ last_close_status \in [Streams -> BOOLEAN]
    BY DEF Reset, StoreInv, StreamsInv
  <2> QED
    BY <2>1
<1>6. /\ life'[s] = "closed" /\ \A t \in Streams : t # s => life'[t] = life[t]
      /\ life'[s] # "open" => b.mode = "idle" /\ b.buffered = TRUE
  BY <1>1 DEF StoreInv, StreamsInv, CfdInv, CfdTypeOK
<1>7. k.bytes = c[NameOf[s]]
  OBVIOUS
<1> DEFINE f == KnownFile(s)
<1>8. k.bytes = f
  BY <1>3, <1>7
<1> HIDE DEF b, c, k, p
<1>9. /\ StoreInv'
      /\ KnownFile(s)' = (IF life'[s] = "open" THEN Known(b, k) ELSE k.bytes)
      /\ KnownPos(s)' = (IF life'[s] = "open" THEN Getpos(b) ELSE -1)
      /\ Comes(s, KnownFile(s)', KnownPos(s)', b.buffered)
  BY <1>1, <1>2, <1>3, <1>4, <1>5, <1>6, <1>7, OwnSeen
<1>10. StoreInv' /\ Comes(s, f, -1, TRUE)
  BY <1>1, <1>6, <1>8, <1>9
<1> DEFINE q == KnownPos(s)
           u == st[s].buffered
<1>11. Is(s, f, q, u)
  BY IsKnown DEF StoreInv
<1>12. q \in Nat
  BY GetposType DEF KnownPos, StoreInv, StreamsInv
<1> HIDE DEF f, q, u
<1> QED
  BY <1>10, <1>11, <1>12, StepClose

LEMMA GcloseSeen ==
  ASSUME Alone, StoreInv, CfdInv', NEW s \in Streams,
         GcloseStream(s) \/ GcloseClosed(s)
  PROVE  StoreInv' /\ Logical!Close(s)
<1>1. StreamsInv'
  BY GcloseStep DEF StoreInv, Alone
<1>2. CASE GcloseStream(s)
  <2>1. PICK o \in Gflush(st[s], Disk(s)) :
          /\ content' = [content EXCEPT ![NameOf[s]] = o.k.bytes]
          /\ result' = <<"close", IF o.ok THEN 0 ELSE -1>>
    BY <1>2 DEF GcloseStream, Return
  <2>2. /\ really_open[s] /\ life[s] = "open"
        /\ life' = [life EXCEPT ![s] = "closed"] /\ Reset(s)
    BY <1>2 DEF GcloseStream, GcloseReal
  <2> DEFINE b == st[s]
             k == Disk(s)
  <2>3. /\ Faithful(b, k) /\ o \in Gflush(b, k) /\ ~ IOErrors
        /\ Known(b, k) \in Seq(Bytes) /\ KnownFile(s) = Known(b, k)
    BY <2>1, <2>2, OwnFound DEF Alone, KnownFile
  <2> HIDE DEF b, k
  <2>4. o.k.bytes = Known(b, k) /\ o.ok = TRUE
    BY <2>3, GflushStill
  <2>5. /\ content' = [content EXCEPT ![NameOf[s]] = KnownFile(s)]
        /\ result' = <<"close", 0>> /\ KnownFile(s) \in Seq(Bytes)
    BY <2>1, <2>3, <2>4
  <2> QED
    BY <1>1, <2>2, <2>5, ResetSeen
<1>3. CASE GcloseClosed(s)
  <2>1. /\ ~ really_open[s] /\ life' = [life EXCEPT ![s] = "closed"]
        /\ life[s] = "open" /\ Reset(s) /\ content' = content
        /\ result' = <<"close", IF last_close_status[s] THEN 0 ELSE -1>>
    BY <1>3 DEF GcloseClosed, GcloseTmp, Return
  <2>2. result' = <<"close", 0>>
    BY <2>1 DEF StoreInv
  <2>3. content \in [Files -> Seq(Bytes)] /\ NameOf[s] \in Files
    BY FilesAssumption DEF StoreInv, StreamsInv
  <2>4. KnownFile(s) = content[NameOf[s]]
    <3>1. st[s].data = <<>>
      BY <2>1 DEF StoreInv, StreamsInv
    <3> QED
      BY <2>1, <3>1, NothingOverlaid DEF KnownFile, Known, Disk
  <2>5. /\ content' = [content EXCEPT ![NameOf[s]] = KnownFile(s)]
        /\ KnownFile(s) \in Seq(Bytes)
    BY <2>1, <2>3, <2>4
  <2> QED
    BY <1>1, <2>1, <2>2, <2>5, ResetSeen
<1> QED
  BY <1>2, <1>3

-----------------------------------------------------------------------------
(* The refinement                                                          *)

LEMMA StoreInitInv == Alone /\ Init => StoreInv /\ Logical!StoreInit
<1> SUFFICES ASSUME Alone, Init PROVE StoreInv /\ Logical!StoreInit
  OBVIOUS
<1>1. StreamsInv
  BY StreamsInitInv
<1>2. /\ st = [s \in Streams |-> Fresh({}, 0)]
      /\ last_close_status = [s \in Streams |-> TRUE]
      /\ content = [f \in Files |-> <<>>]
      /\ life = [s \in Streams |-> "free"]
      /\ result = <<"init", 0>>
  BY DEF Init, CfdInit
<1> DEFINE x == Fresh({}, 0)
<1>3. /\ x.mode = "idle" /\ x.buffered = TRUE /\ "a" \notin x.can
      /\ x.unread = <<>>
  BY DEF Fresh
<1>4. st = [s \in Streams |-> x]
  BY <1>2
<1> HIDE DEF x
<1>5. StoreInv
  BY <1>1, <1>2, <1>3, <1>4 DEF StoreInv, Coherent
<1>6. LogicalFile = [f \in Files |-> <<>>]
  BY <1>2, FirstFiles
<1>7. LogicalPos = [s \in Streams |-> -1]
  BY <1>2 DEF LogicalPos
<1>8. Unpushed = [s \in Streams |-> <<>>] /\ Plain = {}
  BY <1>3, <1>4 DEF Unpushed, Plain
<1> HIDE DEF LogicalFile, LogicalPos
<1> QED
  BY <1>2, <1>5, <1>6, <1>7, <1>8
     DEF Logical!StoreInit, Logical!Closed, Unpushed, Plain

(* Nothing is known of the descriptors and their limit.                    *)
LEMMA UnseenStep ==
  ASSUME StoreInv, CfdInv',
         UNCHANGED <<life, really_open, st, kpos, last_open_pos,
                     last_close_status, content>>
  PROVE  /\ StoreInv' /\ LogicalFile' = LogicalFile
         /\ LogicalPos' = LogicalPos /\ Unpushed' = Unpushed /\ Plain' = Plain
<1>1. StreamsInv'
  BY DEF StoreInv, StreamsInv
<1>2. StoreInv'
  BY <1>1 DEF StoreInv, Disk
<1>3. LogicalFile' = LogicalFile
  BY SameFiles
<1> QED
  BY <1>2, <1>3 DEF LogicalPos, Unpushed, Plain

LEMMA StoreNextInv ==
  Alone /\ StoreInv /\ [Next]_vars
    => StoreInv' /\ [Logical!StoreNext]_(Logical!storeVars)
<1> SUFFICES ASSUME Alone, StoreInv, [Next]_vars
             PROVE  StoreInv' /\ [Logical!StoreNext]_(Logical!storeVars)
  OBVIOUS
<1>1. CfdInv'
  BY NextIsCfdNext, CfdNextInv DEF StoreInv, StreamsInv
<1>2. ASSUME NEW s \in Streams, NEW v \in Streams \cup {NoStream},
             \/ Gopen(s, v)
             \/ GopenError(s, v)
             \/ Gread(s, v)
             \/ Gwrite(s, v)
             \/ GunreadBytes(s, v)
             \/ GsetposCall(s, v)
             \/ GseekCur(s, v)
             \/ GseekEnd(s, v)
             \/ GgetposCall(s, v)
             \/ ReadPointer(s, v)
             \/ WritePointer(s, v)
             \/ GsetvbufCall(s, v)
             \/ CallError(s, v)
      PROVE  StoreInv' /\ Logical!StoreNext
  <2>1. ~ GunreadBytes(s, v)
    BY Zenon DEF GunreadBytes, Alone
  <2>2. CASE Gopen(s, v)
    <3>1. StoreInv' /\ Logical!Open(s)
      BY <1>1, <2>2, GopenSeen
    <3> QED
      BY <3>1 DEF Logical!StoreNext
  <2>3. CASE GopenError(s, v) \/ CallError(s, v)
    <3>1. StoreInv' /\ Logical!Fail(s)
      BY <1>1, <2>3, ErrorSeen
    <3> QED
      BY <3>1 DEF Logical!StoreNext
  <2>4. CASE Gread(s, v) \/ ReadPointer(s, v)
    <3>1. StoreInv' /\ (Logical!Read(s) \/ Logical!Fail(s))
      BY <1>1, <2>4, GreadSeen, ReadPointerSeen
    <3> QED
      BY <3>1 DEF Logical!StoreNext
  <2>5. CASE Gwrite(s, v) \/ WritePointer(s, v)
    <3>1. StoreInv' /\ (Logical!Write(s) \/ Logical!Fail(s))
      BY <1>1, <2>5, GwriteSeen, WritePointerSeen
    <3> QED
      BY <3>1 DEF Logical!StoreNext
  <2>6. CASE GsetposCall(s, v) \/ GseekCur(s, v) \/ GseekEnd(s, v)
    <3>1. StoreInv' /\ (Logical!SetPos(s) \/ Logical!Fail(s))
      BY <1>1, <2>6, GsetposCallSeen, GseekCurSeen, GseekEndSeen
    <3> QED
      BY <3>1 DEF Logical!StoreNext
  <2>7. CASE GgetposCall(s, v)
    <3>1. StoreInv' /\ Logical!GetPos(s)
      BY <1>1, <2>7, GgetposSeen
    <3> QED
      BY <3>1 DEF Logical!StoreNext
  <2>8. CASE GsetvbufCall(s, v)
    <3>1. StoreInv' /\ (Logical!SetBuf(s) \/ Logical!Fail(s))
      BY <1>1, <2>8, GsetvbufSeen
    <3> QED
      BY <3>1 DEF Logical!StoreNext
  <2> QED
    BY <1>2, <2>1, <2>2, <2>3, <2>4, <2>5, <2>6, <2>7, <2>8
<1>3. ASSUME NEW s \in Streams,
             \/ GdopenStream(s)
             \/ GetChar(s)
             \/ PutChar(s)
             \/ GflushStream(s)
             \/ GcloseStream(s)
             \/ GcloseClosed(s)
      PROVE  StoreInv' /\ Logical!StoreNext
  <2>1. CASE GdopenStream(s)
    <3>1. StoreInv' /\ Logical!Open(s)
      BY <1>1, <2>1, GdopenSeen
    <3> QED
      BY <3>1 DEF Logical!StoreNext
  <2>2. CASE GetChar(s)
    <3>1. StoreInv' /\ (Logical!Read(s) \/ Logical!Fail(s))
      BY <1>1, <2>2, GetCharSeen
    <3> QED
      BY <3>1 DEF Logical!StoreNext
  <2>3. CASE PutChar(s)
    <3>1. StoreInv' /\ (Logical!Write(s) \/ Logical!Fail(s))
      BY <1>1, <2>3, PutCharSeen
    <3> QED
      BY <3>1 DEF Logical!StoreNext
  <2>4. CASE GflushStream(s)
    <3>1. StoreInv' /\ Logical!Flush(s)
      BY <1>1, <2>4, GflushSeen
    <3> QED
      BY <3>1 DEF Logical!StoreNext
  <2>5. CASE GcloseStream(s) \/ GcloseClosed(s)
    <3>1. StoreInv' /\ Logical!Close(s)
      BY <1>1, <2>5, GcloseSeen
    <3> QED
      BY <3>1 DEF Logical!StoreNext
  <2> QED
    BY <1>3, <2>1, <2>2, <2>3, <2>4, <2>5
<1>4. CASE SetLimit
  <2>1. /\ UNCHANGED <<life, really_open, st, kpos, last_open_pos,
                       last_close_status, content>>
        /\ result' = <<"limit", 0>>
    BY <1>4 DEF SetLimit, Gopenmax, streamVars, Return
  <2>2. /\ StoreInv' /\ LogicalFile' = LogicalFile
        /\ LogicalPos' = LogicalPos /\ Unpushed' = Unpushed /\ Plain' = Plain
    BY <1>1, <2>1, UnseenStep
  <2> HIDE DEF LogicalFile, LogicalPos
  <2>3. Logical!SetLimit
    BY <2>1, <2>2 DEF Logical!SetLimit, Unpushed, Plain
  <2> QED
    BY <2>2, <2>3 DEF Logical!StoreNext
<1>5. CASE UNCHANGED vars
  <2>1. /\ UNCHANGED <<life, really_open, st, kpos, last_open_pos,
                       last_close_status, content>>
        /\ result' = result
    BY <1>5 DEF vars, cfdVars, streamVars, dataVars
  <2>2. /\ StoreInv' /\ LogicalFile' = LogicalFile
        /\ LogicalPos' = LogicalPos /\ Unpushed' = Unpushed /\ Plain' = Plain
    BY <1>1, <2>1, UnseenStep
  <2> HIDE DEF LogicalFile, LogicalPos
  <2> QED
    BY <2>1, <2>2 DEF Logical!storeVars, Unpushed, Plain
<1> QED
  BY <1>2, <1>3, <1>4, <1>5 DEF Next

(* What streams have read ahead is what their files have there, through    *)
(* every turn between reading and writing, seek, flush and temporary close *)
(* of any of them: an application that keeps a file to one stream is never *)
(* given bytes that are out of date.                                       *)
THEOREM StreamsCoherent ==
  ASSUME Alone
  PROVE  Spec => []ReadAheadCoherent
<1>1. StoreInv => ReadAheadCoherent
  BY DEF StoreInv, Coherent, Disk, ReadAheadCoherent
<1> QED
  BY <1>1, StoreInitInv, StoreNextInv, PTL DEF Spec

(* Streams over buffers, descriptors that are closed behind the            *)
(* application and reopened, and a limit on their number are a store of    *)
(* files and positions: every call does to it, and returns, what the store *)
(* says, and nothing else can be seen to happen.                           *)
THEOREM StreamsImplementStore ==
  ASSUME Alone
  PROVE  Spec => ImplementsStore
<1>1. Init /\ Alone => StoreInv /\ Logical!StoreInit
  BY StoreInitInv
<1> QED
  BY <1>1, StoreNextInv, PTL DEF Spec, ImplementsStore, Logical!StoreSpec

-----------------------------------------------------------------------------
(* Files to which all streams append                                       *)

(* The invariant: what was opened to read or to append has kept O_APPEND   *)
(* or cannot write, through every temporary close.                         *)
AppendsInv ==
  /\ StreamsInv
  /\ appends \in [Streams -> BOOLEAN]
  /\ \A s \in Streams : appends[s] => Preserving(st[s])

(* All streams open on f were opened to append or to read.                 *)
Spared(f) == \A s \in Streams : NameOf[s] = f /\ life[s] = "open" => appends[s]

(* What a step must do about every file.                                   *)
OnlyAppended ==
  \A f \in Files :
    \/ \E s \in Streams : NameOf[s] = f /\ life[s] = "open" /\ ~ appends[s]
    \/ \E s \in Streams : NameOf[s] = f /\ life'[s] = "open" /\ ~ appends'[s]
    \/ /\ Len(content[f]) <= Len(content'[f])
       /\ Upto(content'[f], Len(content[f])) = content[f]

LEMMA SparedExtends ==
  ASSUME \A f \in Files : Spared(f) => Extends(content[f], content'[f])
  PROVE  OnlyAppended
BY DEF OnlyAppended, Spared, Extends

(* A temporary close.                                                      *)
LEMMA EvictionSpares ==
  ASSUME AppendsInv, ~ IOErrors, NEW v \in Streams, really_open[v], appends[v],
         NEW e \in Evictions(v)
  PROVE  Extends(content[NameOf[v]], e.k.bytes) /\ Preserving(e.b)
<1>1. v # NoStream
  BY StreamsAssumption
<1> DEFINE b == st[v]
           k == Disk(v)
<1>2. e \in Gflush(b, k) /\ Good(b, k) /\ Preserving(b)
  BY <1>1, DiskGood DEF Evictions, AppendsInv
<1>3. k.bytes = content[NameOf[v]]
  BY DEF Disk
<1> HIDE DEF b, k
<1>4. Spares(e, b, k)
  BY <1>2, GflushSpares
<1> QED
  BY <1>3, <1>4 DEF Spares

LEMMA FilesSpared ==
  ASSUME AppendsInv, ~ IOErrors, NEW v \in Streams \cup {NoStream},
         v = NoStream \/ really_open[v], NEW e \in Evictions(v),
         NEW f \in Files, Spared(f)
  PROVE  Extends(content[f], ContentAfter(v, e)[f])
<1>1. content \in [Files -> Seq(Bytes)]
  BY DEF AppendsInv, StreamsInv
<1>2. CASE v = NoStream
  BY <1>1, <1>2, ExtendsItself DEF ContentAfter
<1>3. CASE v # NoStream /\ NameOf[v] # f
  <2>1. ContentAfter(v, e)[f] = content[f]
    BY <1>1, <1>3 DEF ContentAfter
  <2> QED
    BY <1>1, <2>1, ExtendsItself
<1>4. CASE v # NoStream /\ NameOf[v] = f
  <2>1. v \in Streams /\ really_open[v]
    BY <1>4
  <2>2. life[v] = "open"
    BY <2>1 DEF AppendsInv, StreamsInv, CfdInv, OpenOnChain, ReallyOpen
  <2>3. appends[v]
    BY <1>4, <2>1, <2>2 DEF Spared
  <2>4. Extends(content[f], e.k.bytes)
    BY <1>4, <2>1, <2>3, EvictionSpares
  <2>5. ContentAfter(v, e)[f] = e.k.bytes
    BY <1>1, <1>4 DEF ContentAfter
  <2> QED
    BY <2>4, <2>5
<1> QED
  BY <1>2, <1>3, <1>4

(* The streams and the files after a call on s for which v was closed.     *)
LEMMA StoreSpares ==
  ASSUME AppendsInv, ~ IOErrors, StreamsInv', NEW s \in Streams,
         NEW v \in Streams \cup {NoStream},
         v = NoStream \/ (v # s /\ really_open[v]), NEW e \in Evictions(v),
         NEW b, NEW p, NEW c, Store(s, v, e, b, p, c),
         appends' \in [Streams -> BOOLEAN],
         \A t \in Streams : t # s => appends'[t] = appends[t],
         appends'[s] => Preserving(b),
         \A f \in Files : Spared(f) /\ f # NameOf[s] =>
           c[f] = ContentAfter(v, e)[f],
         Spared(NameOf[s]) =>
           Extends(ContentAfter(v, e)[NameOf[s]], c[NameOf[s]])
  PROVE  AppendsInv' /\ \A f \in Files : Spared(f) => Extends(content[f], content'[f])
<1>1. /\ st' = [t \in Streams |-> IF t = s THEN b
                                  ELSE IF t = v THEN e.b ELSE st[t]]
      /\ content' = c
  BY DEF Store
<1>2. ASSUME NEW t \in Streams, appends'[t]
      PROVE  Preserving(st'[t])
  <2>1. CASE t = s
    BY <1>1, <1>2, <2>1
  <2>2. CASE t # s /\ t = v
    <3>1. v \in Streams /\ really_open[v] /\ appends[v]
      BY <1>2, <2>2, StreamsAssumption
    <3>2. Preserving(e.b)
      BY <3>1, EvictionSpares
    <3> QED
      BY <1>1, <2>2, <3>2
  <2>3. CASE t # s /\ t # v
    BY <1>1, <1>2, <2>3 DEF AppendsInv
  <2> QED
    BY <2>1, <2>2, <2>3
<1>3. AppendsInv'
  BY <1>2 DEF AppendsInv
<1>4. ASSUME NEW f \in Files, Spared(f)
      PROVE  Extends(content[f], content'[f])
  <2>1. v = NoStream \/ really_open[v]
    OBVIOUS
  <2>2. Extends(content[f], ContentAfter(v, e)[f])
    BY <1>4, <2>1, FilesSpared
  <2>3. CASE f # NameOf[s]
    BY <1>1, <1>4, <2>2, <2>3
  <2>4. CASE f = NameOf[s]
    <3>1. /\ content[f] \in Seq(Bytes) /\ c[f] \in Seq(Bytes)
      BY <1>1 DEF AppendsInv, StreamsInv
    <3>2. v = NoStream \/ (v \in Streams /\ Flushed(e, st[v]))
      BY EvictionFits DEF AppendsInv
    <3>3. ContentAfter(v, e)[f] \in Seq(Bytes)
      BY <3>2, FilesAfter DEF AppendsInv
    <3>4. Extends(ContentAfter(v, e)[f], c[f])
      BY <1>4, <2>4
    <3> QED
      BY <1>1, <2>2, <3>1, <3>3, <3>4, ExtendsFurther
  <2> QED
    BY <2>3, <2>4
<1> QED
  BY <1>3, <1>4

LEMMA ReopenedPreserving ==
  ASSUME StreamsInv, NEW s \in Streams
  PROVE  Preserving(Reopened(s)) <=> Preserving(st[s])
<1> DEFINE x == st[s]
           b == Reopened(s)
<1>1. b = x \/ b = [x EXCEPT !.offset = last_open_pos[s]]
  BY DEF Reopened
<1>2. "can" \in DOMAIN x /\ "mode" \in DOMAIN x
  BY DEF StreamsInv, Sound
<1> HIDE DEF x, b
<1>3. b.can = x.can /\ b.mode = x.mode
  BY <1>1, <1>2
<1>4. Preserving(b) <=> Preserving(x)
  BY <1>3 DEF Preserving
<1> QED
  BY <1>4 DEF b, x

(* A call that begins with GIO_cfd_check.                                  *)
LEMMA CheckedSpares ==
  ASSUME AppendsInv, ~ IOErrors, StreamsInv', NEW s \in Streams,
         NEW v \in Streams \cup {NoStream}, GIO_cfd_check(s, v),
         NEW e \in Evictions(v), NEW o, Settled(s, v, e, o),
         Preserving(Reopened(s))
           => Spares(o, Reopened(s), DiskAfter(s, v, e)),
         appends' = appends
  PROVE  AppendsInv' /\ \A f \in Files : Spared(f) => Extends(content[f], content'[f])
<1>1. /\ v = NoStream \/ (v \in Streams /\ v # s /\ Flushed(e, st[v]))
      /\ v = NoStream \/ (v # s /\ really_open[v])
      /\ life[s] = "open"
  BY CheckFacts, CheckedStart DEF AppendsInv
<1> DEFINE b == o.b
           p == o.k.pos
           files == ContentAfter(v, e)
           c == [files EXCEPT ![NameOf[s]] = o.k.bytes]
<1>2. Store(s, v, e, b, p, c)
  BY DEF Settled
<1>3. files \in [Files -> Seq(Bytes)]
  BY <1>1, FilesAfter DEF AppendsInv
<1>4. appends[s] => Preserving(Reopened(s))
  BY ReopenedPreserving DEF AppendsInv
<1>5. appends[s] => Preserving(b)
  BY <1>4 DEF Spares
<1>6. Spared(NameOf[s]) => Extends(files[NameOf[s]], c[NameOf[s]])
  <2> SUFFICES ASSUME Spared(NameOf[s])
               PROVE  Extends(files[NameOf[s]], c[NameOf[s]])
    OBVIOUS
  <2>1. appends[s]
    BY <1>1 DEF Spared
  <2>2. Spares(o, Reopened(s), DiskAfter(s, v, e))
    BY <1>4, <2>1
  <2>3. Extends(files[NameOf[s]], o.k.bytes)
    BY <2>2 DEF Spares, DiskAfter
  <2>4. c[NameOf[s]] = o.k.bytes
    BY <1>3, FilesAssumption
  <2> QED
    BY <2>3, <2>4
<1>7. \A f \in Files : f # NameOf[s] => c[f] = files[f]
  BY <1>3
<1>8. appends' \in [Streams -> BOOLEAN] /\ (appends'[s] => Preserving(b))
  BY <1>5 DEF AppendsInv
<1> HIDE DEF b, p, c
<1> QED
  BY <1>1, <1>2, <1>6, <1>7, <1>8, StoreSpares

(* What a step does to the files that are only appended to.                *)
SparingStep ==
  /\ AppendsInv'
  /\ \A f \in Files : Spared(f) => Extends(content[f], content'[f])

LEMMA GreadSpares ==
  ASSUME AppendsInv, ~ IOErrors, StreamsInv', NEW s \in Streams,
         NEW v \in Streams \cup {NoStream}, Gread(s, v)
  PROVE  SparingStep
<1>1. GIO_cfd_check(s, v) /\ appends' = appends
  BY Zenon DEF Gread, Checked
<1>2. PICK n \in Sizes, e \in Evictions(v) :
        \E o \in Greadc(Reopened(s), DiskAfter(s, v, e), n) :
          Settled(s, v, e, o)
  BY Zenon DEF Gread, Checked, DiskAfter, Settled
<1> DEFINE b == Reopened(s)
           k == DiskAfter(s, v, e)
<1>3. PICK o \in Greadc(b, k, n) : Settled(s, v, e, o)
  BY <1>2
<1>4. Good(b, k)
  BY <1>1, CheckedStart DEF AppendsInv
<1>5. n \in Nat
  BY CallsAssumption
<1> HIDE DEF b, k
<1>6. Preserving(b) => Spares(o, b, k)
  BY <1>4, <1>5, GreadcSpares
<1> QED
  BY <1>1, <1>3, <1>6, CheckedSpares DEF b, k, SparingStep

LEMMA ReadPointerSpares ==
  ASSUME AppendsInv, ~ IOErrors, StreamsInv', NEW s \in Streams,
         NEW v \in Streams \cup {NoStream}, ReadPointer(s, v)
  PROVE  SparingStep
<1>1. GIO_cfd_check(s, v) /\ appends' = appends
  BY Zenon DEF ReadPointer, Checked
<1>2. PICK n \in Stretches, e \in Evictions(v) :
        \E o \in Greadb(Reopened(s), DiskAfter(s, v, e), n) :
          Settled(s, v, e, o)
  BY Zenon DEF ReadPointer, Checked, DiskAfter, Settled
<1> DEFINE b == Reopened(s)
           k == DiskAfter(s, v, e)
<1>3. PICK o \in Greadb(b, k, n) : Settled(s, v, e, o)
  BY <1>2
<1>4. Good(b, k)
  BY <1>1, CheckedStart DEF AppendsInv
<1>5. n \in Nat
  BY CallsAssumption
<1> HIDE DEF b, k
<1>6. Preserving(b) => Spares(o, b, k)
  BY <1>4, <1>5, GreadbSpares
<1> QED
  BY <1>1, <1>3, <1>6, CheckedSpares DEF b, k, SparingStep

LEMMA GwriteSpares ==
  ASSUME AppendsInv, ~ IOErrors, StreamsInv', NEW s \in Streams,
         NEW v \in Streams \cup {NoStream}, Gwrite(s, v)
  PROVE  SparingStep
<1>1. GIO_cfd_check(s, v) /\ appends' = appends
  BY Zenon DEF Gwrite, Checked
<1>2. PICK bs \in Chunks, e \in Evictions(v) :
        \E o \in Gwritec(Reopened(s), DiskAfter(s, v, e), bs) :
          Settled(s, v, e, o)
  BY Zenon DEF Gwrite, Checked, DiskAfter, Settled
<1> DEFINE b == Reopened(s)
           k == DiskAfter(s, v, e)
<1>3. PICK o \in Gwritec(b, k, bs) : Settled(s, v, e, o)
  BY <1>2
<1>4. Good(b, k)
  BY <1>1, CheckedStart DEF AppendsInv
<1>5. bs \in Seq(Bytes)
  BY CallsAssumption
<1> HIDE DEF b, k
<1>6. Preserving(b) => Spares(o, b, k)
  BY <1>4, <1>5, GwritecSpares
<1> QED
  BY <1>1, <1>3, <1>6, CheckedSpares DEF b, k, SparingStep

LEMMA WritePointerSpares ==
  ASSUME AppendsInv, ~ IOErrors, StreamsInv', NEW s \in Streams,
         NEW v \in Streams \cup {NoStream}, WritePointer(s, v)
  PROVE  SparingStep
<1>1. GIO_cfd_check(s, v) /\ appends' = appends
  BY Zenon DEF WritePointer, Checked
<1>2. PICK bs \in Fillings, e \in Evictions(v) :
        \E o \in Gwriteb(Reopened(s), DiskAfter(s, v, e), bs) :
          Settled(s, v, e, o)
  BY Zenon DEF WritePointer, Checked, DiskAfter, Settled
<1> DEFINE b == Reopened(s)
           k == DiskAfter(s, v, e)
<1>3. PICK o \in Gwriteb(b, k, bs) : Settled(s, v, e, o)
  BY <1>2
<1>4. Good(b, k)
  BY <1>1, CheckedStart DEF AppendsInv
<1>5. bs \in Seq(Bytes)
  BY CallsAssumption
<1> HIDE DEF b, k
<1>6. Preserving(b) => Spares(o, b, k)
  BY <1>4, <1>5, GwritebSpares
<1> QED
  BY <1>1, <1>3, <1>6, CheckedSpares DEF b, k, SparingStep

LEMMA GsetposCallSpares ==
  ASSUME AppendsInv, ~ IOErrors, StreamsInv', NEW s \in Streams,
         NEW v \in Streams \cup {NoStream}, GsetposCall(s, v)
  PROVE  SparingStep
<1>1. GIO_cfd_check(s, v) /\ appends' = appends
  BY Zenon DEF GsetposCall, Setpos, Checked
<1>2. PICK pos \in Positions, e \in Evictions(v) :
        \E o \in Gsetpos(Reopened(s), DiskAfter(s, v, e), pos) :
          Settled(s, v, e, o)
  BY Zenon DEF GsetposCall, Setpos, Checked, DiskAfter, Settled
<1> DEFINE b == Reopened(s)
           k == DiskAfter(s, v, e)
<1>3. PICK o \in Gsetpos(b, k, pos) : Settled(s, v, e, o)
  BY <1>2
<1>4. Good(b, k)
  BY <1>1, CheckedStart DEF AppendsInv
<1>5. pos \in Int
  BY CallsAssumption
<1> HIDE DEF b, k
<1>6. Preserving(b) => Spares(o, b, k)
  BY <1>4, <1>5, GsetposSpares
<1> QED
  BY <1>1, <1>3, <1>6, CheckedSpares DEF b, k, SparingStep

LEMMA GsetvbufCallSpares ==
  ASSUME AppendsInv, ~ IOErrors, StreamsInv', NEW s \in Streams,
         NEW v \in Streams \cup {NoStream}, GsetvbufCall(s, v)
  PROVE  SparingStep
<1>1. GIO_cfd_check(s, v) /\ appends' = appends
  BY Zenon DEF GsetvbufCall, Checked
<1>2. PICK buffered \in Bufferings, e \in Evictions(v) :
        \E o \in Gsetvbuf(Reopened(s), DiskAfter(s, v, e), buffered) :
          Settled(s, v, e, o)
  BY Zenon DEF GsetvbufCall, Checked, DiskAfter, Settled
<1> DEFINE b == Reopened(s)
           k == DiskAfter(s, v, e)
<1>3. PICK o \in Gsetvbuf(b, k, buffered) : Settled(s, v, e, o)
  BY <1>2
<1>4. Good(b, k)
  BY <1>1, CheckedStart DEF AppendsInv
<1>5. buffered \in BOOLEAN
  BY CallsAssumption
<1> HIDE DEF b, k
<1>6. Preserving(b) => Spares(o, b, k)
  BY <1>4, <1>5, GsetvbufSpares
<1> QED
  BY <1>1, <1>3, <1>6, CheckedSpares DEF b, k, SparingStep

LEMMA GseekCurSpares ==
  ASSUME AppendsInv, ~ IOErrors, StreamsInv', NEW s \in Streams,
         NEW v \in Streams \cup {NoStream}, GseekCur(s, v)
  PROVE  SparingStep
<1>1. GIO_cfd_check(s, v) /\ appends' = appends
  BY Zenon DEF GseekCur, Setpos, Checked
<1>2. PICK d \in Steps :
        \E pos \in SeekCurTargets(s, d) :
          \E e \in Evictions(v) :
             \E o \in Gsetpos(Reopened(s), DiskAfter(s, v, e), pos) :
               Settled(s, v, e, o)
  BY Zenon DEF GseekCur, Setpos, Checked, DiskAfter, Settled
<1> PICK pos \in SeekCurTargets(s, d) :
       \E e \in Evictions(v) :
          \E o \in Gsetpos(Reopened(s), DiskAfter(s, v, e), pos) :
            Settled(s, v, e, o)
  BY <1>2
<1>3. pos \in Int
  BY TargetsWhole
<1>4. PICK e \in Evictions(v) :
        \E o \in Gsetpos(Reopened(s), DiskAfter(s, v, e), pos) :
          Settled(s, v, e, o)
  OBVIOUS
<1> DEFINE b == Reopened(s)
           k == DiskAfter(s, v, e)
<1>5. PICK o \in Gsetpos(b, k, pos) : Settled(s, v, e, o)
  BY <1>4
<1>6. Good(b, k)
  BY <1>1, CheckedStart DEF AppendsInv
<1> HIDE DEF b, k
<1>7. Preserving(b) => Spares(o, b, k)
  BY <1>3, <1>6, GsetposSpares
<1> QED
  BY <1>1, <1>5, <1>7, CheckedSpares DEF b, k, SparingStep

LEMMA SeekEndSpares ==
  ASSUME ~ IOErrors, NEW s, really_open[s], NEW b, NEW k, Good(b, k),
         Preserving(b), NEW d \in Int, NEW o \in SeekEndOp(s, b, k, d)
  PROVE  Spares(o, b, k)
<1> DEFINE Begun == IF b.mode = "write" THEN Gflushw(b, k)
                    ELSE {Outcome(b, k, TRUE, 0)}
           End(kr) == IF StatSize(s, kr) < 0 THEN -1 ELSE StatSize(s, kr) + d
           Part(r) == IF r.ok THEN Gsetpos(r.b, r.k, End(r.k)) ELSE {r}
<1>1. PICK r \in Begun : o \in Part(r)
  <2>1. SeekEndOp(s, b, k, d) = UNION {Part(r) : r \in Begun}
    BY DEF SeekEndOp
  <2> HIDE DEF Part, Begun
  <2> QED
    BY <2>1
<1>2. Fits(r, b) /\ r.ok /\ Spares(r, b, k)
  <2>1. CASE b.mode = "write"
    <3>1. r \in Gflush(b, k)
      BY <1>1, <2>1 DEF Gflush
    <3> QED
      BY <3>1, GflushFits, GflushSpares DEF Flushed
  <2>2. CASE b.mode # "write"
    <3>1. r = Outcome(b, k, TRUE, 0)
      BY <1>1, <2>2
    <3>2. Fits(r, b)
      BY <3>1, OutcomeFits DEF Good
    <3>3. Spares(r, b, k)
      BY <3>1, SparesSame DEF Outcome, Good
    <3> QED
      BY <3>1, <3>2, <3>3 DEF Outcome
  <2> QED
    BY <2>1, <2>2
<1> DEFINE c == r.b
           kc == r.k
           pos == End(kc)
<1>3. Good(c, kc) /\ Preserving(c) /\ Kernel(k) /\ Kernel(kc)
  BY <1>2 DEF Fits, Spares, Good
<1>4. pos \in Int
  <2>1. Len(kc.bytes) \in Nat
    BY <1>3, EmptyType DEF Kernel
  <2>2. StatSize(s, kc) \in Int
    BY <2>1 DEF StatSize
  <2> QED
    BY <2>2
<1>5. o \in Gsetpos(c, kc, pos)
  BY <1>1, <1>2
<1> HIDE DEF c, kc, pos
<1>6. Spares(o, c, kc) /\ Kernel(o.k)
  BY <1>3, <1>4, <1>5, GsetposFits, GsetposSpares DEF Fits, Good
<1> QED
  BY <1>2, <1>3, <1>6, SparesAfter DEF c, kc

LEMMA GseekEndSpares ==
  ASSUME AppendsInv, ~ IOErrors, Unchecked = {}, StreamsInv',
         NEW s \in Streams, NEW v \in Streams \cup {NoStream}, GseekEnd(s, v)
  PROVE  SparingStep
<1>1. GIO_cfd_check(s, v) /\ really_open[s] /\ appends' = appends
  BY Zenon DEF GseekEnd, Checked
<1>2. PICK d \in Steps, e \in Evictions(v) :
        \E o \in SeekEndOp(s, Reopened(s), DiskAfter(s, v, e), d) :
          Settled(s, v, e, o)
  BY Zenon DEF GseekEnd, SeekEndOp, Checked, DiskAfter, Settled
<1> DEFINE b == Reopened(s)
           k == DiskAfter(s, v, e)
<1>3. PICK o \in SeekEndOp(s, b, k, d) : Settled(s, v, e, o)
  BY <1>2
<1>4. Good(b, k)
  BY <1>1, CheckedStart DEF AppendsInv
<1>5. d \in Int
  BY CallsAssumption
<1> HIDE DEF b, k
<1>6. Preserving(b) => Spares(o, b, k)
  BY <1>1, <1>4, <1>5, SeekEndSpares
<1> QED
  BY <1>1, <1>3, <1>6, CheckedSpares DEF b, k, SparingStep

LEMMA GgetposSpares ==
  ASSUME AppendsInv, ~ IOErrors, StreamsInv', NEW s \in Streams,
         NEW v \in Streams \cup {NoStream}, GgetposCall(s, v)
  PROVE  SparingStep
<1>1. GIO_cfd_check(s, v) /\ appends' = appends
  BY Zenon DEF GgetposCall, Checked
<1>2. PICK e \in Evictions(v) :
        \E o \in {Outcome(Reopened(s), DiskAfter(s, v, e), TRUE,
                          Getpos(Reopened(s)))} :
          Settled(s, v, e, o)
  BY Zenon DEF GgetposCall, Checked, DiskAfter, Settled
<1> DEFINE b == Reopened(s)
           k == DiskAfter(s, v, e)
           o == Outcome(b, k, TRUE, Getpos(b))
<1>3. Settled(s, v, e, o)
  BY <1>2
<1>4. Good(b, k)
  BY <1>1, CheckedStart DEF AppendsInv
<1> HIDE DEF b, k
<1>5. Preserving(b) => Spares(o, b, k)
  BY <1>4, SparesSame DEF Outcome, Good
<1> HIDE DEF o
<1> QED
  BY <1>1, <1>3, <1>5, CheckedSpares DEF b, k, SparingStep

(* What has just been opened has nothing to write; and a stream opened to  *)
(* be written anew does not append.                                        *)
LEMMA FreshPreserving ==
  ASSUME NEW can, NEW at, "w" \notin can \/ "a" \in can
  PROVE  Preserving(Fresh(can, at))
BY DEF Fresh, Preserving

LEMMA AppendsCan ==
  ASSUME NEW mode \in Modes, mode \in {"r", "a", "a+"}
  PROVE  "w" \notin Can(mode) \/ "a" \in Can(mode)
BY DEF Can

LEMMA GopenSpares ==
  ASSUME AppendsInv, ~ IOErrors, StreamsInv', NEW s \in Streams,
         NEW v \in Streams \cup {NoStream}, Gopen(s, v)
  PROVE  AppendsInv' /\ OnlyAppended
<1> DEFINE Files1(e) == ContentAfter(v, e)
           At(mode, e) == OpenedAt(mode, Files1(e)[NameOf[s]])
           Files2(mode, e) == IF mode \in {"w", "w+"}
                              THEN [Files1(e) EXCEPT ![NameOf[s]] = <<>>]
                              ELSE Files1(e)
<1>1. PICK cached \in BOOLEAN, mode \in Modes, e \in Evictions(v) :
        /\ GopenOk(s, cached, v)
        /\ Store(s, v, e, Fresh(Can(mode), At(mode, e)), At(mode, e),
                 Files2(mode, e))
        /\ appends' = [appends EXCEPT ![s] = mode \in {"r", "a", "a+"}]
  BY Zenon DEF Gopen
<1>2. ~ really_open[s]
  BY <1>1, UnusedClosed DEF GopenOk, AppendsInv
<1>3. /\ v \in Victims /\ life' = [life EXCEPT ![s] = "open"]
  BY <1>1 DEF GopenOk, GIO_open_ok
<1>4. v = NoStream \/ (v \in Streams /\ v # s /\ really_open[v])
  BY <1>2, <1>3, OpenFacts DEF AppendsInv
<1>5. Files1(e) \in [Files -> Seq(Bytes)]
  <2>1. v = NoStream \/ (v \in Streams /\ Flushed(e, st[v]))
    BY <1>4, EvictionFits DEF AppendsInv
  <2> QED
    BY <2>1, FilesAfter DEF AppendsInv
<1> DEFINE at == At(mode, e)
           b == Fresh(Can(mode), at)
           c == Files2(mode, e)
<1>6. Store(s, v, e, b, at, c)
  BY <1>1
<1>7. /\ appends' \in [Streams -> BOOLEAN]
      /\ \A t \in Streams : t # s => appends'[t] = appends[t]
      /\ appends'[s] = (mode \in {"r", "a", "a+"})
  BY <1>1 DEF AppendsInv
<1>8. appends'[s] => Preserving(b)
  BY <1>7, AppendsCan, FreshPreserving
<1>9. life'[s] = "open"
  BY <1>3 DEF AppendsInv, StreamsInv, CfdInv, CfdTypeOK
<1>10. mode \notin {"w", "w+"} => c = Files1(e)
  OBVIOUS
<1>11. \A f \in Files : f # NameOf[s] => c[f] = Files1(e)[f]
  BY <1>5
<1> HIDE DEF at, b, c, Files2, At
<1> DEFINE files == Files1(e)
<1>12. files \in [Files -> Seq(Bytes)] /\ NameOf[s] \in Files
  BY <1>5, FilesAssumption
<1>13. CASE mode \notin {"w", "w+"}
  <2>1. Extends(files[NameOf[s]], c[NameOf[s]])
    <3>1. c = files
      BY <1>10, <1>13
    <3> HIDE DEF files
    <3> QED
      BY <1>12, <3>1, ExtendsItself
  <2>2. AppendsInv' /\ \A f \in Files : Spared(f) => Extends(content[f], content'[f])
    BY <1>4, <1>6, <1>7, <1>8, <1>11, <2>1, StoreSpares
  <2> QED
    BY <2>2, SparedExtends
<1>14. CASE mode \in {"w", "w+"}
  <2>1. ~ appends'[s]
    BY <1>7, <1>14
  <2>2. /\ st' = [t \in Streams |-> IF t = s THEN b
                                    ELSE IF t = v THEN e.b ELSE st[t]]
        /\ content' = c
    BY <1>6 DEF Store
  <2>3. ASSUME NEW t \in Streams, appends'[t]
        PROVE  Preserving(st'[t])
    <3>1. CASE t = v
      <4>1. v \in Streams /\ really_open[v] /\ appends[v] /\ t # s
        BY <1>4, <1>7, <2>1, <2>3, <3>1, StreamsAssumption
      <4>2. Preserving(e.b)
        BY <4>1, EvictionSpares
      <4> QED
        BY <2>2, <3>1, <4>1, <4>2
    <3>2. CASE t # v
      <4>1. t # s
        BY <2>1, <2>3
      <4>2. st'[t] = st[t] /\ appends[t]
        BY <1>7, <2>2, <2>3, <3>2, <4>1
      <4> QED
        BY <4>2 DEF AppendsInv
    <3> QED
      BY <3>1, <3>2
  <2>4. AppendsInv'
    BY <1>7, <2>3 DEF AppendsInv
  <2>5. ASSUME NEW f \in Files, f # NameOf[s], Spared(f)
        PROVE  Extends(content[f], content'[f])
    <3>1. Extends(content[f], Files1(e)[f])
      BY <1>4, <2>5, FilesSpared
    <3> QED
      BY <1>11, <2>2, <2>5, <3>1
  <2>6. OnlyAppended
    <3> SUFFICES ASSUME NEW f \in Files
                 PROVE  \/ \E t \in Streams : NameOf[t] = f /\ life[t] = "open"
                                               /\ ~ appends[t]
                        \/ \E t \in Streams : NameOf[t] = f /\ life'[t] = "open"
                                               /\ ~ appends'[t]
                        \/ /\ Len(content[f]) <= Len(content'[f])
                           /\ Upto(content'[f], Len(content[f])) = content[f]
      BY DEF OnlyAppended
    <3>1. CASE f = NameOf[s]
      BY <1>9, <2>1, <3>1
    <3>2. CASE f # NameOf[s]
      BY <2>5, <3>2 DEF Spared, Extends
    <3> QED
      BY <3>1, <3>2
  <2> QED
    BY <2>4, <2>6
<1> QED
  BY <1>13, <1>14

LEMMA NotOpenedSpares ==
  ASSUME AppendsInv, ~ IOErrors, StreamsInv', NEW s \in Streams,
         NEW v \in Streams \cup {NoStream}, ~ really_open[s],
         GIO_open_failed(s, v), NotOpened(s, v)
  PROVE  SparingStep
<1>1. v \in Victims
  BY DEF GIO_open_failed
<1>2. ~ (last_open_pos[s] < 0)
  BY DEF AppendsInv, StreamsInv
<1>3. PICK e \in Evictions(v) :
        Store(s, v, e, st[s], kpos[s], ContentAfter(v, e))
  BY <1>2, Zenon DEF NotOpened
<1>4. v = NoStream \/ (v \in Streams /\ v # s /\ really_open[v])
  BY <1>1, OpenFacts DEF AppendsInv
<1>5. appends' = appends
  BY Zenon DEF NotOpened
<1> DEFINE b == st[s]
           p == kpos[s]
           c == ContentAfter(v, e)
<1>6. Store(s, v, e, b, p, c)
  BY <1>3
<1>7. appends' \in [Streams -> BOOLEAN] /\ (appends'[s] => Preserving(b))
  BY <1>5 DEF AppendsInv
<1>8. Extends(c[NameOf[s]], c[NameOf[s]])
  <2>1. v = NoStream \/ (v \in Streams /\ Flushed(e, st[v]))
    BY <1>4, EvictionFits DEF AppendsInv
  <2>2. c[NameOf[s]] \in Seq(Bytes)
    BY <2>1, FilesAfter, FilesAssumption DEF AppendsInv
  <2> QED
    BY <2>2, ExtendsItself
<1>9. \A f \in Files : c[f] = ContentAfter(v, e)[f]
  OBVIOUS
<1>10. Extends(ContentAfter(v, e)[NameOf[s]], c[NameOf[s]])
  BY <1>8
<1> HIDE DEF b, p, c
<1> QED
  BY <1>4, <1>5, <1>6, <1>7, <1>9, <1>10, StoreSpares DEF SparingStep

LEMMA ErrorSpares ==
  ASSUME AppendsInv, ~ IOErrors, StreamsInv', NEW s \in Streams,
         NEW v \in Streams \cup {NoStream}, GopenError(s, v) \/ CallError(s, v)
  PROVE  SparingStep
<1>1. CASE GopenError(s, v)
  <2>1. Unused(s) /\ GIO_open_failed(s, v) /\ NotOpened(s, v)
    BY <1>1 DEF GopenError, GopenFailed
  <2> QED
    BY <2>1, UnusedClosed, NotOpenedSpares DEF AppendsInv
<1>2. CASE CallError(s, v)
  <2>1. ~ really_open[s] /\ GIO_open_failed(s, v) /\ NotOpened(s, v)
    BY <1>2 DEF CallError, CheckFailed, GfilenoFailed
  <2> QED
    BY <2>1, NotOpenedSpares
<1> QED
  BY <1>1, <1>2

(* A step by which no file changes and no stream but s, which is fresh.    *)
LEMMA FreshSpares ==
  ASSUME AppendsInv, StreamsInv', NEW s \in Streams, NEW b,
         st' = [st EXCEPT ![s] = b], appends' \in [Streams -> BOOLEAN],
         \A t \in Streams : t # s => appends'[t] = appends[t],
         appends'[s] => Preserving(b),
         \A f \in Files : f # NameOf[s] => content'[f] = content[f],
         Spared(NameOf[s]) => Extends(content[NameOf[s]], content'[NameOf[s]])
  PROVE  SparingStep
<1>1. ASSUME NEW t \in Streams, appends'[t]
      PROVE  Preserving(st'[t])
  <2>1. st = [r \in Streams |-> st[r]]
    BY DEF AppendsInv, StreamsInv
  <2>2. CASE t = s
    <3>1. st'[t] = b
      BY <2>1, <2>2
    <3> QED
      BY <1>1, <2>2, <3>1
  <2>3. CASE t # s
    <3>1. st'[t] = st[t] /\ appends[t]
      BY <1>1, <2>1, <2>3
    <3> QED
      BY <3>1 DEF AppendsInv
  <2> QED
    BY <2>2, <2>3
<1>2. ASSUME NEW f \in Files, Spared(f)
      PROVE  Extends(content[f], content'[f])
  <2>1. CASE f = NameOf[s]
    BY <1>2, <2>1
  <2>2. CASE f # NameOf[s]
    BY <2>2, ExtendsItself DEF AppendsInv, StreamsInv
  <2> QED
    BY <2>1, <2>2
<1> QED
  BY <1>1, <1>2 DEF SparingStep, AppendsInv

LEMMA GdopenSpares ==
  ASSUME AppendsInv, StreamsInv', NEW s \in Streams, GdopenStream(s)
  PROVE  SparingStep
<1>1. /\ content' = content
      /\ appends' = [appends EXCEPT
                       ![s] = "w" \notin st'[s].can \/ "a" \in st'[s].can]
  BY DEF GdopenStream
<1>2. PICK can, at : st' = [st EXCEPT ![s] = Fresh(can, at)]
  BY DEF GdopenStream
<1> DEFINE b == Fresh(can, at)
<1>3. st' = [st EXCEPT ![s] = b] /\ b.can = can
  BY <1>2 DEF Fresh
<1>4. st'[s] = b
  <2>1. st = [r \in Streams |-> st[r]]
    BY DEF AppendsInv, StreamsInv
  <2> HIDE DEF b
  <2> QED
    BY <1>3, <2>1
<1>5. ("w" \notin can \/ "a" \in can) => Preserving(b)
  BY FreshPreserving
<1> HIDE DEF b
<1>6. /\ appends' \in [Streams -> BOOLEAN]
      /\ \A t \in Streams : t # s => appends'[t] = appends[t]
      /\ appends'[s] => Preserving(b)
  BY <1>1, <1>3, <1>4, <1>5 DEF AppendsInv
<1>7. Extends(content[NameOf[s]], content'[NameOf[s]])
  BY <1>1, FilesAssumption, ExtendsItself DEF AppendsInv, StreamsInv
<1> QED
  BY <1>1, <1>3, <1>6, <1>7, FreshSpares

(* The calls without GIO_cfd_check.                                        *)
LEMMA OwnSpares ==
  ASSUME AppendsInv, StreamsInv', NEW s \in Streams, really_open[s], NEW o,
         st' = [st EXCEPT ![s] = o.b],
         content' = [content EXCEPT ![NameOf[s]] = o.k.bytes],
         appends' = appends, Preserving(st[s]) => Spares(o, st[s], Disk(s))
  PROVE  SparingStep
<1>1. life[s] = "open"
  BY DEF AppendsInv, StreamsInv, CfdInv, OpenOnChain, ReallyOpen
<1> DEFINE b == o.b
<1>2. appends[s] => Spares(o, st[s], Disk(s))
  BY DEF AppendsInv
<1>3. appends'[s] => Preserving(b)
  BY <1>2 DEF Spares
<1>4. content \in [Files -> Seq(Bytes)] /\ NameOf[s] \in Files
  BY FilesAssumption DEF AppendsInv, StreamsInv
<1>5. /\ content'[NameOf[s]] = o.k.bytes
      /\ \A f \in Files : f # NameOf[s] => content'[f] = content[f]
  BY <1>4
<1>6. Spared(NameOf[s]) => Extends(content[NameOf[s]], content'[NameOf[s]])
  BY <1>1, <1>2, <1>5 DEF Spared, Spares, Disk
<1>7. st' = [st EXCEPT ![s] = b] /\ appends' \in [Streams -> BOOLEAN]
  BY DEF AppendsInv
<1> HIDE DEF b
<1> QED
  BY <1>3, <1>5, <1>6, <1>7, FreshSpares

LEMMA GflushStreamSpares ==
  ASSUME AppendsInv, ~ IOErrors, StreamsInv', NEW s \in Streams,
         GflushStream(s)
  PROVE  SparingStep
<1>1. PICK o \in Gflush(st[s], Disk(s)) :
        /\ st' = [st EXCEPT ![s] = o.b]
        /\ content' = [content EXCEPT ![NameOf[s]] = o.k.bytes]
  BY DEF GflushStream
<1>2. really_open[s] /\ appends' = appends
  BY DEF GflushStream
<1> DEFINE b == st[s]
           k == Disk(s)
<1>3. Good(b, k) /\ o \in Gflush(b, k)
  BY <1>1, <1>2, DiskGood DEF AppendsInv
<1> HIDE DEF b, k
<1>4. Preserving(b) => Spares(o, b, k)
  BY <1>3, GflushSpares
<1> QED
  BY <1>1, <1>2, <1>4, OwnSpares DEF b, k

LEMMA GetCharSpares ==
  ASSUME AppendsInv, ~ IOErrors, Unchecked = {}, StreamsInv',
         NEW s \in Streams, GetChar(s)
  PROVE  SparingStep
<1>1. really_open[s]
  BY Zenon DEF GetChar
<1>2. appends' = appends
  BY Zenon DEF GetChar, ByDescriptor
<1>3. PICK t \in ReallyOpen :
        /\ fd[t] = fd[s]
        /\ \E o \in Greadb(st[s], Disk(t), 1) :
             /\ st' = [st EXCEPT ![s] = o.b]
             /\ content' = [content EXCEPT ![NameOf[t]] = o.k.bytes]
  BY Zenon DEF GetChar, ByDescriptor
<1>4. t = s
  BY <1>1, <1>3, OwnDescriptor DEF AppendsInv
<1> DEFINE b == st[s]
           k == Disk(s)
<1>5. PICK o \in Greadb(b, k, 1) :
        /\ st' = [st EXCEPT ![s] = o.b]
        /\ content' = [content EXCEPT ![NameOf[s]] = o.k.bytes]
  BY <1>3, <1>4
<1>6. Good(b, k)
  BY <1>1, DiskGood DEF AppendsInv
<1> HIDE DEF b, k
<1>7. Preserving(b) => Spares(o, b, k)
  BY <1>6, GreadbSpares
<1> QED
  BY <1>1, <1>2, <1>5, <1>7, OwnSpares DEF b, k

LEMMA PutCharSpares ==
  ASSUME AppendsInv, ~ IOErrors, Unchecked = {}, StreamsInv',
         NEW s \in Streams, PutChar(s)
  PROVE  SparingStep
<1>1. really_open[s]
  BY Zenon DEF PutChar
<1>2. appends' = appends
  BY Zenon DEF PutChar, ByDescriptor
<1>3. PICK c \in Chars :
        ByDescriptor(s, LAMBDA b, k : {o \in Gputc(b, k, c) : Getpos(o.b) \in Positions},
                     "write")
  BY Zenon DEF PutChar
<1>4. PICK t \in ReallyOpen :
        /\ fd[t] = fd[s]
        /\ \E o \in {o \in Gputc(st[s], Disk(t), c) : Getpos(o.b) \in Positions} :
             /\ st' = [st EXCEPT ![s] = o.b]
             /\ content' = [content EXCEPT ![NameOf[t]] = o.k.bytes]
  BY <1>3, Zenon DEF ByDescriptor
<1>5. t = s
  BY <1>1, <1>4, OwnDescriptor DEF AppendsInv
<1> DEFINE b == st[s]
           k == Disk(s)
<1>6. PICK o \in Gputc(b, k, c) :
        /\ st' = [st EXCEPT ![s] = o.b]
        /\ content' = [content EXCEPT ![NameOf[s]] = o.k.bytes]
  BY <1>4, <1>5
<1>7. Good(b, k) /\ c \in Bytes
  BY <1>1, DiskGood, CallsAssumption DEF AppendsInv
<1> HIDE DEF b, k
<1>8. Preserving(b) => Spares(o, b, k)
  BY <1>7, GputcSpares
<1> QED
  BY <1>1, <1>2, <1>6, <1>8, OwnSpares DEF b, k

LEMMA GcloseSpares ==
  ASSUME AppendsInv, ~ IOErrors, StreamsInv', NEW s \in Streams,
         GcloseStream(s) \/ GcloseClosed(s)
  PROVE  SparingStep
<1> DEFINE x == Fresh({}, 0)
<1>1. /\ st' = [st EXCEPT ![s] = x]
      /\ appends' = [appends EXCEPT ![s] = FALSE]
  BY DEF GcloseStream, GcloseClosed, Reset
<1> HIDE DEF x
<1>2. /\ appends' \in [Streams -> BOOLEAN] /\ ~ appends'[s]
      /\ \A t \in Streams : t # s => appends'[t] = appends[t]
  BY <1>1 DEF AppendsInv
<1>3. content \in [Files -> Seq(Bytes)] /\ NameOf[s] \in Files
  BY FilesAssumption DEF AppendsInv, StreamsInv
<1>4. CASE GcloseStream(s)
  <2>1. PICK o \in Gflush(st[s], Disk(s)) :
          content' = [content EXCEPT ![NameOf[s]] = o.k.bytes]
    BY <1>4 DEF GcloseStream
  <2>2. really_open[s] /\ life[s] = "open"
    BY <1>4 DEF GcloseStream, GcloseReal, AppendsInv, StreamsInv, CfdInv,
                OpenOnChain, ReallyOpen
  <2>3. /\ content'[NameOf[s]] = o.k.bytes
        /\ \A f \in Files : f # NameOf[s] => content'[f] = content[f]
    BY <1>3, <2>1
  <2> DEFINE b == st[s]
             k == Disk(s)
  <2>4. Good(b, k) /\ o \in Gflush(b, k)
    BY <2>1, <2>2, DiskGood DEF AppendsInv
  <2>5. k.bytes = content[NameOf[s]]
    BY DEF Disk
  <2>6. Spared(NameOf[s]) => Preserving(b)
    BY <2>2 DEF Spared, AppendsInv
  <2> HIDE DEF b, k
  <2>7. Spared(NameOf[s]) => Extends(content[NameOf[s]], content'[NameOf[s]])
    BY <2>3, <2>4, <2>5, <2>6, GflushSpares DEF Spares
  <2> QED
    BY <1>1, <1>2, <2>3, <2>7, FreshSpares
<1>5. CASE GcloseClosed(s)
  <2>1. content' = content
    BY <1>5 DEF GcloseClosed
  <2>2. Extends(content[NameOf[s]], content'[NameOf[s]])
    BY <1>3, <2>1, ExtendsItself
  <2> QED
    BY <1>1, <1>2, <2>1, <2>2, FreshSpares
<1> QED
  BY <1>4, <1>5

LEMMA AppendsInit == Init => AppendsInv
<1> SUFFICES ASSUME Init PROVE AppendsInv
  OBVIOUS
<1>1. StreamsInv
  BY StreamsInitInv
<1>2. appends = [s \in Streams |-> FALSE]
  BY DEF Init
<1> QED
  BY <1>1, <1>2 DEF AppendsInv

LEMMA SparingEnough == SparingStep => AppendsInv' /\ OnlyAppended
BY SparedExtends DEF SparingStep

LEMMA AppendsNext ==
  ASSUME ~ IOErrors, Unchecked = {}, Pushed = {}
  PROVE  AppendsInv /\ [Next]_vars => AppendsInv' /\ (OnlyAppended \/ UNCHANGED vars)
<1> SUFFICES ASSUME AppendsInv, [Next]_vars
             PROVE  AppendsInv' /\ (OnlyAppended \/ UNCHANGED vars)
  OBVIOUS
<1>1. StreamsInv'
  BY StreamsNextInv DEF AppendsInv
<1>2. ASSUME NEW s \in Streams, NEW v \in Streams \cup {NoStream},
             \/ Gopen(s, v)
             \/ GopenError(s, v)
             \/ Gread(s, v)
             \/ Gwrite(s, v)
             \/ GunreadBytes(s, v)
             \/ GsetposCall(s, v)
             \/ GseekCur(s, v)
             \/ GseekEnd(s, v)
             \/ GgetposCall(s, v)
             \/ ReadPointer(s, v)
             \/ WritePointer(s, v)
             \/ GsetvbufCall(s, v)
             \/ CallError(s, v)
      PROVE  AppendsInv' /\ OnlyAppended
  <2>1. ~ GunreadBytes(s, v)
    BY Zenon DEF GunreadBytes
  <2>2. CASE Gopen(s, v)
    BY <1>1, <2>2, GopenSpares
  <2>3. CASE GopenError(s, v) \/ CallError(s, v)
    BY <1>1, <2>3, ErrorSpares, SparingEnough
  <2>4. CASE Gread(s, v) \/ ReadPointer(s, v)
    BY <1>1, <2>4, GreadSpares, ReadPointerSpares, SparingEnough
  <2>5. CASE Gwrite(s, v) \/ WritePointer(s, v)
    BY <1>1, <2>5, GwriteSpares, WritePointerSpares, SparingEnough
  <2>6. CASE GsetposCall(s, v) \/ GseekCur(s, v) \/ GseekEnd(s, v)
    BY <1>1, <2>6, GsetposCallSpares, GseekCurSpares, GseekEndSpares,
       SparingEnough
  <2>7. CASE GgetposCall(s, v) \/ GsetvbufCall(s, v)
    BY <1>1, <2>7, GgetposSpares, GsetvbufCallSpares, SparingEnough
  <2> QED
    BY <1>2, <2>1, <2>2, <2>3, <2>4, <2>5, <2>6, <2>7
<1>3. ASSUME NEW s \in Streams,
             \/ GdopenStream(s)
             \/ GetChar(s)
             \/ PutChar(s)
             \/ GflushStream(s)
             \/ GcloseStream(s)
             \/ GcloseClosed(s)
      PROVE  AppendsInv' /\ OnlyAppended
  <2>1. CASE GdopenStream(s)
    BY <1>1, <2>1, GdopenSpares, SparingEnough
  <2>2. CASE GetChar(s) \/ PutChar(s)
    BY <1>1, <2>2, GetCharSpares, PutCharSpares, SparingEnough
  <2>3. CASE GflushStream(s)
    BY <1>1, <2>3, GflushStreamSpares, SparingEnough
  <2>4. CASE GcloseStream(s) \/ GcloseClosed(s)
    BY <1>1, <2>4, GcloseSpares, SparingEnough
  <2> QED
    BY <1>3, <2>1, <2>2, <2>3, <2>4
<1>4. CASE SetLimit
  <2>1. UNCHANGED <<st, content, appends>>
    BY <1>4 DEF SetLimit
  <2>2. AppendsInv'
    BY <1>1, <2>1 DEF AppendsInv
  <2>3. \A f \in Files : Extends(content[f], content'[f])
    BY <2>1, ExtendsItself DEF AppendsInv, StreamsInv
  <2> QED
    BY <2>2, <2>3, SparedExtends
<1>5. CASE UNCHANGED vars
  <2>1. UNCHANGED <<st, appends>>
    BY <1>5 DEF vars, dataVars
  <2> QED
    BY <1>1, <1>5, <2>1 DEF AppendsInv
<1> QED
  BY <1>2, <1>3, <1>4, <1>5 DEF Next

(* What is in a file stays as it is while all streams open on it were      *)
(* opened to append or to read, for any number of streams on the file, any *)
(* caches and requests, and whatever stream GIO_open picks to be closed:   *)
(* GIO_tmp_close loses O_APPEND for no stream, and the position at which   *)
(* GIO_open puts a stream back decides nothing.                            *)
THEOREM StreamsAppendOnly ==
  ASSUME ~ IOErrors, Unchecked = {}, Pushed = {}
  PROVE  Spec => AppendsOnly
<1>1. AppendsInv /\ [Next]_vars => [OnlyAppended]_vars
  BY AppendsNext
<1>2. AppendsInv /\ [Next]_vars => AppendsInv'
  BY AppendsNext
<1> QED
  BY <1>1, <1>2, AppendsInit, PTL DEF Spec, AppendsOnly, OnlyAppended
=============================================================================
