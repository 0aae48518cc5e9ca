----------------------------- MODULE GioStreams -----------------------------
(***************************************************************************)
(* GFILE streams over the descriptor cache: every action is one of GioCfd  *)
(* together with what the call does to the buffers, the kernel's offsets   *)
(* and the files (GioBuffer).  A stream v that GIO_open closes to make     *)
(* room for s is flushed, its position kept in cfd.last_open_pos, and s is *)
(* put back to its own last_open_pos before the call goes on.              *)
(*                                                                         *)
(* Abstractions: the members of a GFILE that is not open are reset; gopen  *)
(* modes are those of GIO_gopen_mode, "w+" standing for "wb+" and so on; a  *)
(* file that does not exist is an empty one (that gopen may fail on it is  *)
(* OpenMayFail); gflush(NULL) is a row of calls of gflush.                 *)
(***************************************************************************)
EXTENDS GioCfd, GioBuffer

CONSTANTS
  Modes,      \* gopen modes in use
  Sizes,      \* request sizes of greadc
  Chunks,     \* buffers given to gwritec
  Stretches,  \* request sizes of greadb
  Fillings,   \* what the caller puts where a pointer from gwriteb leads
  Chars,      \* arguments of gputc; {}: ggetc is not called either
  Pushed,     \* buffers given to gunread
  Bufferings, \* modes given to gsetvbuf: FALSE for _IONBF
  Positions,  \* arguments of gsetpos; bounds where writes take a stream too
  MaxPos,     \* bounds the position at which a stream is opened again, and
              \* the files that can be written
  Steps,      \* offsets given to gseek with SEEK_CUR and SEEK_END
  Unchecked   \* calls without GIO_cfd_check that are made of temporarily
              \* closed streams too: "gseek", "ggetc", "gputc"

ASSUME CallsAssumption ==
  /\ Modes \subseteq {"r", "w", "a", "r+", "w+", "a+"}
  /\ Sizes \subseteq Nat \ {0}
  /\ Stretches \subseteq Nat \ {0}
  /\ Chunks \cup Fillings \cup Pushed \subseteq Seq(Bytes) \ {<<>>}
  /\ Chars \subseteq Bytes
  /\ Bufferings \subseteq BOOLEAN
  /\ Positions \subseteq Int
  /\ MaxPos \in Nat
  /\ Steps \subseteq Int
  /\ Unchecked \subseteq {"gseek", "ggetc", "gputc"}

VARIABLES
  st,                \* st[s]: the buffer of stream s, as in GioBuffer
  kpos,              \* kpos[s]: kernel offset of the descriptor of stream s
  last_open_pos,     \* cfd.last_open_pos
  last_close_status, \* cfd.last_close_status = 0
  content,           \* content[f]: the bytes the kernel has for file f
  appends,           \* history: s was opened in mode "r", "a" or "a+"
  result             \* history: what the last call returned

dataVars == <<st, kpos, last_open_pos, last_close_status, content, appends,
              result>>
vars == <<cfdVars, dataVars>>

StreamsTypeOK ==
  /\ CfdTypeOK
  /\ \A s \in Streams :
       /\ DOMAIN st[s] = DOMAIN Fresh({}, 0)
       /\ st[s].mode \in {"idle", "read", "write"}
       /\ st[s].used \in 0 .. Len(st[s].data)
       /\ st[s].mode # "read" => st[s].used = 0 /\ st[s].unread = <<>>
       /\ st[s].mode = "idle" => st[s].data = <<>>
  /\ kpos \in [Streams -> Nat]
  /\ last_close_status \in [Streams -> BOOLEAN]

Init ==
  /\ CfdInit
  /\ st = [s \in Streams |-> Fresh({}, 0)]
  /\ kpos = [s \in Streams |-> 0]
  /\ last_open_pos = [s \in Streams |-> 0]
  /\ last_close_status = [s \in Streams |-> TRUE]
  /\ content = [f \in Files |-> <<>>]
  /\ appends = [s \in Streams |-> FALSE]
  /\ result = <<"init", 0>>

Return(answer) == result' = answer

-----------------------------------------------------------------------------
(* GIO_tmp_close and GIO_open                                              *)

Disk(s) == [bytes |-> content[NameOf[s]], pos |-> kpos[s]]

(* Mutant of Evictions: GIO_tmp_close drops a write buffer.                *)
EvictionsUnflushed(v) ==
  IF v = NoStream THEN {Outcome(Fresh({}, 0), [bytes |-> <<>>, pos |-> 0], TRUE, 0)}
  ELSE {Outcome([st[v] EXCEPT !.data = <<>>, !.used = 0, !.unread = <<>>,
                              !.room = 0], Disk(v), TRUE, 0)}

(* What the flush in the temporary close of v may come to.                 *)
Evictions(v) ==
  IF v = NoStream THEN {Outcome(Fresh({}, 0), [bytes |-> <<>>, pos |-> 0], TRUE, 0)}
  ELSE Gflush(st[v], Disk(v))

ContentAfter(v, e) ==
  IF v = NoStream THEN content ELSE [content EXCEPT ![NameOf[v]] = e.k.bytes]

(* Mutant of Store: the status of a temporary close is not kept.           *)
StoreForgetful(s, v, e, b, p, c) ==
  /\ st' = [t \in Streams |-> IF t = s THEN b ELSE IF t = v THEN e.b ELSE st[t]]
  /\ kpos' = [t \in Streams |-> IF t = s THEN p ELSE IF t = v THEN 0 ELSE kpos[t]]
  /\ content' = c
  /\ UNCHANGED last_close_status

(* Stream and kernel after v has been closed (outcome e) and the call on s *)
(* has come to the stream b, the offset p and the files c.                 *)
Store(s, v, e, b, p, c) ==
  /\ st' = [t \in Streams |-> IF t = s THEN b ELSE IF t = v THEN e.b ELSE st[t]]
  /\ kpos' = [t \in Streams |-> IF t = s THEN p ELSE IF t = v THEN 0 ELSE kpos[t]]
  /\ content' = c
  /\ last_close_status' =
       [t \in Streams |-> IF t = v THEN e.ok ELSE last_close_status[t]]

(* Mutant of KeepPosition: the offset is saved without what has been read  *)
(* or written in the buffer since.                                         *)
KeepOffset(s, v, p) ==
  last_open_pos' = [t \in Streams |-> IF t = v THEN st[v].offset
                                      ELSE IF t = s THEN p
                                      ELSE last_open_pos[t]]

KeepPosition(s, v, p) ==
  last_open_pos' = [t \in Streams |-> IF t = v THEN Getpos(st[v])
                                      ELSE IF t = s THEN p
                                      ELSE last_open_pos[t]]

(* Mutant of Reopened: the descriptor is opened again without O_APPEND.    *)
ReopenedPlain(s) ==
  IF really_open[s] THEN st[s]
  ELSE [st[s] EXCEPT !.offset = last_open_pos[s], !.can = @ \ {"a"}]

(* GIO_open puts the new descriptor to last_open_pos, unless that is zero. *)
Reopened(s) ==
  IF really_open[s] \/ last_open_pos[s] = 0 THEN st[s]
  ELSE [st[s] EXCEPT !.offset = last_open_pos[s]]

ReopenedAt(s) == IF really_open[s] THEN kpos[s] ELSE last_open_pos[s]

(* GIO_cfd_check(s) succeeds; v is the stream closed on the way.           *)
GIO_cfd_check(s, v) ==
  \/ v = NoStream /\ CheckReal(s)
  \/ /\ CheckReopen(s, v)
     /\ last_open_pos[s] >= 0
     /\ Getpos(Reopened(s)) <= MaxPos

(* A call on s that begins with GIO_cfd_check and goes on with Op.         *)
Checked(s, v, Op(_, _), call, Value(_)) ==
  /\ GIO_cfd_check(s, v)
  /\ \E e \in Evictions(v) :
       LET files == ContentAfter(v, e)
       IN  \E o \in Op(Reopened(s),
                       [bytes |-> files[NameOf[s]], pos |-> ReopenedAt(s)]) :
             /\ Store(s, v, e, o.b, o.k.pos,
                      [files EXCEPT ![NameOf[s]] = o.k.bytes])
             /\ Return(IF o.ok THEN <<call, Value(o)>> ELSE <<"error", 0>>)
  /\ KeepPosition(s, v, last_open_pos[s])
  /\ UNCHANGED appends

(* GIO_open of s has failed: only the victim has changed, or the offset    *)
(* has, when the new descriptor could not be put there.                    *)
NotOpened(s, v) ==
  /\ \E e \in Evictions(v) :
       \/ /\ OpenRefused(v)
          /\ Store(s, v, e, st[s], kpos[s], ContentAfter(v, e))
       \/ /\ OpenLost(s, v)
          /\ last_open_pos[s] < 0
          /\ Store(s, v, e, [st[s] EXCEPT !.offset = -1], kpos[s],
                   ContentAfter(v, e))
  /\ KeepPosition(s, v, last_open_pos[s])
  /\ UNCHANGED appends
  /\ Return(<<"error", 0>>)

-----------------------------------------------------------------------------
(* The calls                                                               *)

Can(mode) ==
  CASE mode = "r" -> {"r"}
    [] mode = "w" -> {"w"}
    [] mode = "a" -> {"w", "a"}
    [] mode = "a+" -> {"r", "w", "a"}
    [] OTHER -> {"r", "w"}

(* GIO_open and gdopen seek to the end of the file for the append modes.   *)
OpenedAt(mode, bytes) == IF mode \in {"a", "a+"} THEN Len(bytes) ELSE 0

Gopen(s, v) ==
  \E cached \in BOOLEAN, mode \in Modes, e \in Evictions(v) :
    LET files == ContentAfter(v, e)
        at == OpenedAt(mode, files[NameOf[s]])
    IN  /\ GopenOk(s, cached, v)
        /\ Store(s, v, e, Fresh(Can(mode), at), at,
                 IF mode \in {"w", "w+"}
                 THEN [files EXCEPT ![NameOf[s]] = <<>>] ELSE files)
        /\ KeepPosition(s, v, 0)
        /\ appends' = [appends EXCEPT ![s] = mode \in {"r", "a", "a+"}]
        /\ Return(<<"open", 0>>)

GopenError(s, v) == GopenFailed(s, v) /\ NotOpened(s, v)

GdopenStream(s) ==
  /\ Gdopen(s)
  /\ \E mode \in Modes :
       LET at == OpenedAt(mode, content[NameOf[s]])
       IN  /\ \E can \in {Can(mode), Can(mode) \ {"a"}} :
                st' = [st EXCEPT ![s] = Fresh(can, at)]
           /\ kpos' = [kpos EXCEPT ![s] = at]
  /\ last_open_pos' = [last_open_pos EXCEPT ![s] = 0]
  /\ appends' = [appends EXCEPT ![s] = "w" \notin st'[s].can \/ "a" \in st'[s].can]
  /\ Return(<<"open", 0>>)
  /\ UNCHANGED <<last_close_status, content>>

Gread(s, v) ==
  \E n \in Sizes :
    LET Op(b, k) == Greadc(b, k, n)
        Value(o) == o.ret
    IN  Checked(s, v, Op, "read", Value)

Gwrite(s, v) ==
  /\ Len(content[NameOf[s]]) <= MaxPos
  /\ \E bs \in Chunks :
       LET Op(b, k) == {o \in Gwritec(b, k, bs) : Getpos(o.b) \in Positions}
           Value(o) == o.ret
       IN  Checked(s, v, Op, "write", Value)

GunreadBytes(s, v) ==
  \E bs \in Pushed :
    LET Op(b, k) == {o \in Gunread(b, k, bs) :
                   o.b.offset + o.b.used - Len(o.b.unread) >= -1}
        Value(o) == o.ret
    IN  Checked(s, v, Op, "unread", Value)

Setpos(s, v, pos, call, arg) ==
  LET Op(b, k) == Gsetpos(b, k, pos)
      Value(o) == arg
  IN  Checked(s, v, Op, call, Value)

GsetposCall(s, v) == \E pos \in Positions : Setpos(s, v, pos, "seek_set", pos)

(* gseek works out the new position before gsetpos has the descriptor      *)
(* opened: SEEK_CUR from the stream as it is.  Unlike ggetpos it does not  *)
(* ask whether the stream is buffered.  One that is not, and has bytes     *)
(* pushed back, has buf_u in base_u, another piece of memory than start,   *)
(* and their difference may be anything.                                   *)
SeekCurTargets(s, d) ==
  IF ~ st[s].buffered /\ st[s].unread # <<>> THEN Positions \cup {-1}
  ELSE {Getpos(st[s]) + d} \cap Positions

GseekCur(s, v) ==
  \E d \in Steps : \E pos \in SeekCurTargets(s, d) :
    Setpos(s, v, pos, "seek_cur", d)

(* SEEK_END, after the write buffer has been flushed, from the size of the *)
(* file that fp->fd is open on at the time; -1 when fstat fails.           *)
StatSize(s, k) ==
  IF really_open[s] THEN Len(k.bytes)
  ELSE IF fd[s] \in Fds /\ fdfile[fd[s]] # NoFile
  THEN Len(content[fdfile[fd[s]]])
  ELSE -1

GseekEnd(s, v) ==
  /\ really_open[s] \/ ("gseek" \in Unchecked /\ st[s].data = <<>>)
  /\ \E d \in Steps :
       LET End(k) == IF StatSize(s, k) < 0 THEN -1 ELSE StatSize(s, k) + d
           Op(b, k) ==
             UNION {IF o.ok THEN Gsetpos(o.b, o.k, End(o.k)) ELSE {o} :
                      o \in IF b.mode = "write" THEN Gflushw(b, k)
                            ELSE {Outcome(b, k, TRUE, 0)}}
           Within(b, k) == {o \in Op(b, k) : Getpos(o.b) \in Positions}
           Value(o) == d
       IN  Checked(s, v, Within, "seek_end", Value)

GgetposCall(s, v) ==
  LET Op(b, k) == {Outcome(b, k, TRUE, Getpos(b))}
      Value(o) == o.ret
  IN  Checked(s, v, Op, "getpos", Value)

(* greada and greadb; gwritea and gwriteb with the bytes the caller stores *)
(* before its next call.                                                   *)
ReadPointer(s, v) ==
  \E n \in Stretches :
    LET Op(b, k) == Greadb(b, k, n)
        Value(o) == o.ret
    IN  Checked(s, v, Op, "read", Value)

WritePointer(s, v) ==
  /\ Len(content[NameOf[s]]) <= MaxPos
  /\ \E bs \in Fillings :
       LET Op(b, k) == {o \in Gwriteb(b, k, bs) : Getpos(o.b) \in Positions}
           Value(o) == o.ret
       IN  Checked(s, v, Op, "write", Value)

GsetvbufCall(s, v) ==
  \E buffered \in Bufferings :
    LET Op(b, k) == Gsetvbuf(b, k, buffered)
        Value(o) == o.ret
    IN  Checked(s, v, Op, "setvbuf", Value)

(* Any of these calls when the descriptor cannot be opened again.          *)
CallError(s, v) ==
  /\ CheckFailed(s, v) \/ GfilenoFailed(s, v)
  /\ NotOpened(s, v)

(* ggetc and gputc do without GIO_cfd_check.  When they need the kernel,   *)
(* it is asked about fp->fd, which another stream t may hold: s itself     *)
(* when it is really open.  (That they fail if none does is left out.)     *)
ByDescriptor(s, Op(_, _), call) ==
  /\ life[s] = "open"
  /\ \E t \in ReallyOpen :
       /\ fd[t] = fd[s]
       /\ \E o \in Op(st[s], Disk(t)) :
            /\ st' = [st EXCEPT ![s] = o.b]
            /\ kpos' = [kpos EXCEPT ![t] = o.k.pos]
            /\ content' = [content EXCEPT ![NameOf[t]] = o.k.bytes]
            /\ Return(IF o.ok THEN <<call, o.ret>> ELSE <<"error", 0>>)
  /\ UNCHANGED <<cfdVars, last_open_pos, last_close_status, appends>>

GetChar(s) ==
  /\ really_open[s] \/ "ggetc" \in Unchecked
  /\ Chars # {}
  /\ LET Op(b, k) == Greadb(b, k, 1) IN ByDescriptor(s, Op, "read")

PutChar(s) ==
  /\ really_open[s] \/ ("gputc" \in Unchecked /\ "a" \notin st[s].can)
  /\ Len(content[NameOf[s]]) <= MaxPos
  /\ \E c \in Chars :
       LET Op(b, k) == {o \in Gputc(b, k, c) : Getpos(o.b) \in Positions}
       IN  ByDescriptor(s, Op, "write")

(* gflush, without GIO_cfd_check: nothing to do for a closed descriptor.   *)
GflushStream(s) ==
  /\ life[s] = "open"
  /\ really_open[s]
  /\ \E o \in Gflush(st[s], Disk(s)) :
       /\ st' = [st EXCEPT ![s] = o.b]
       /\ kpos' = [kpos EXCEPT ![s] = o.k.pos]
       /\ content' = [content EXCEPT ![NameOf[s]] = o.k.bytes]
       /\ Return(IF o.ok THEN <<"flush", 0>> ELSE <<"error", 0>>)
  /\ UNCHANGED <<cfdVars, last_open_pos, last_close_status, appends>>

Reset(s) ==
  /\ st' = [st EXCEPT ![s] = Fresh({}, 0)]
  /\ kpos' = [kpos EXCEPT ![s] = 0]
  /\ last_open_pos' = [last_open_pos EXCEPT ![s] = 0]
  /\ last_close_status' = [last_close_status EXCEPT ![s] = TRUE]
  /\ appends' = [appends EXCEPT ![s] = FALSE]

GcloseStream(s) ==
  /\ GcloseReal(s)
  /\ \E o \in Gflush(st[s], Disk(s)) :
       /\ content' = [content EXCEPT ![NameOf[s]] = o.k.bytes]
       /\ Return(<<"close", IF o.ok THEN 0 ELSE -1>>)
  /\ Reset(s)

(* gclose of a temporarily closed stream reports how that close went.      *)
GcloseClosed(s) ==
  /\ GcloseTmp(s)
  /\ Return(<<"close", IF last_close_status[s] THEN 0 ELSE -1>>)
  /\ Reset(s)
  /\ UNCHANGED content

SetLimit ==
  /\ Gopenmax
  /\ Return(<<"limit", 0>>)
  /\ UNCHANGED <<st, kpos, last_open_pos, last_close_status, content, appends>>

Next ==
  \/ \E s \in Streams, v \in Streams \cup {NoStream} :
       \/ Gopen(s, v)
       \/ GopenError(s, v)
       \/ Gread(s, v)
       \/ Gwrite(s, v)
       \/ GunreadBytes(s, v)
       \/ GsetposCall(s, v)
       \/ GseekCur(s, v)
       \/ GseekEnd(s, v)
       \/ GgetposCall(s, v)
       \/ ReadPointer(s, v)
       \/ WritePointer(s, v)
       \/ GsetvbufCall(s, v)
       \/ CallError(s, v)
  \/ \E s \in Streams :
       \/ GdopenStream(s)
       \/ GetChar(s)
       \/ PutChar(s)
       \/ GflushStream(s)
       \/ GcloseStream(s)
       \/ GcloseClosed(s)
  \/ SetLimit

Spec == Init /\ [][Next]_vars

-----------------------------------------------------------------------------
(* Properties                                                              *)

(* The offset the kernel has for a descriptor is the one gio_types.h       *)
(* computes for it: offset when writing, offset + (buf - start) + count_r  *)
(* when reading.  Flushes, seeks inside the cache, direct transfers and    *)
(* reopens in any order must keep the two in step, or the next transfer    *)
(* goes to the wrong place of the file (with O_APPEND the kernel decides). *)
KernelOffset ==
  \A s \in ReallyOpen :
    "a" \in st[s].can \/
    kpos[s] = IF st[s].mode = "read" THEN st[s].offset + Len(st[s].data)
              ELSE st[s].offset

(* Bytes read ahead are those of the file at that place, as long as the    *)
(* stream is the only one on its file.                                     *)
ReadAheadCoherent ==
  \A s \in Streams :
    life[s] = "open" /\ st[s].mode = "read"
      => st[s].data = SubSeq(content[NameOf[s]], st[s].offset + 1,
                             st[s].offset + Len(st[s].data))

(* A stream that is temporarily closed has nothing left in its buffers,    *)
(* and will be put back to where the application left it.                  *)
TmpClosedClean ==
  \A s \in Streams :
    life[s] = "open" /\ ~ really_open[s]
      => st[s].data = <<>> /\ last_open_pos[s] = st[s].offset

(* count_w is the vacant space of the write buffer, or zero when the next  *)
(* write has to look; pending bytes never exceed the buffer.               *)
RoomIsVacancy ==
  \A s \in Streams :
    st[s].mode = "write" /\ st[s].buffered
      => /\ st[s].lead + Len(st[s].data) <= st[s].size_p
         /\ st[s].room \in {0, st[s].size_p - st[s].lead - Len(st[s].data)}

(* The file as the application knows it: what the kernel has, under what   *)
(* the stream on it still has to write.                                    *)
LogicalFile ==
  [f \in Files |->
     LET writers == {s \in Streams : life[s] = "open" /\ NameOf[s] = f
                                      /\ st[s].mode = "write"}
     IN  IF writers = {} THEN content[f]
         ELSE LET s == CHOOSE s \in writers : TRUE
              IN  Overlay(content[f], st[s].offset, st[s].data)]

LogicalPos ==
  [s \in Streams |->
     IF life[s] # "open" THEN -1
     ELSE Getpos(st[s]) + (IF st[s].buffered THEN Len(st[s].unread) ELSE 0)
            + IF really_open[s] THEN 0 ELSE last_open_pos[s] - st[s].offset]

Logical == INSTANCE StreamStore WITH
  file <- LogicalFile, pos <- LogicalPos,
  pushed <- [s \in Streams |-> st[s].unread],
  plain <- {s \in Streams : ~ st[s].buffered},
  Sizes <- Sizes \cup Stretches \cup {1},
  Chunks <- Chunks \cup Fillings \cup {<<c>> : c \in Chars}

(* When gclose returns 0, the bytes that were pending in the buffer as it  *)
(* was called are in the file, at the offset of the stream, and nothing    *)
(* else of the file has changed.  They may be pending since a temporary    *)
(* close that failed in an open of another stream: the status kept then    *)
(* (last_close_status) must tell, or they are dropped in silence.  That    *)
(* the offset is the place where the application wrote them is no part of  *)
(* this: when such a stream is opened again before it is closed, GIO_open  *)
(* moves the offset and gclose does not look at the status of before.      *)
CloseTellsPending ==
  [][\A s \in Streams :
       life[s] = "open" /\ life'[s] = "closed" /\ result' = <<"close", 0>>
         => content'[NameOf[s]] =
              Overlay(content[NameOf[s]], st[s].offset, st[s].data)]_vars

(* What is in a file is never changed while all streams open on it were    *)
(* opened to append or to read.  A stream that has been temporarily closed *)
(* must still append: GIO_tmp_close clears O_APPEND in open_flags, and the *)
(* position it saves is not that of the end of the file.                   *)
AppendsOnly ==
  [][\A f \in Files :
       \/ \E s \in Streams : NameOf[s] = f /\ life[s] = "open" /\ ~ appends[s]
       \/ \E s \in Streams : NameOf[s] = f /\ life'[s] = "open" /\ ~ appends'[s]
       \/ /\ Len(content[f]) <= Len(content'[f])
          /\ Upto(content'[f], Len(content[f])) = content[f]]_vars

(* With every file kept to one stream and I/O that does not fail, buffers  *)
(* and temporary closes cannot be told from direct access to the files.    *)
ImplementsStore == Logical!StoreSpec

=============================================================================
