----------------------------- MODULE GioBuffer -----------------------------
(***************************************************************************)
(* The buffered transfer functions of libgio (greadc, gwritec, which copy, *)
(* greadb, gwriteb, which return a pointer into the buffer, ggetc, gputc,  *)
(* gunread, gsetpos, ggetpos, gflush, gsetvbuf and what they call in the   *)
(* *_buf and *_non files), as operators from a stream b and the kernel's view k of its     *)
(* file to the set of possible outcomes [b, k, ok, ret].                   *)
(*                                                                         *)
(* A stream b is a record of the GFILE members these functions use:        *)
(*   mode    "read" (GIO_STATE_READ), "write" (GIO_STATE_WRITE) or "idle"  *)
(*   can     how it may be used: GIO_STATE_OPENR "r", GIO_STATE_OPENW "w"; *)
(*           "a": its descriptor has O_APPEND                              *)
(*   offset  offset, the file offset of the byte at start                  *)
(*   data    the bytes from start on: read from the kernel, or to be       *)
(*           written (then they end at buf)                                *)
(*   used    buf - start when reading: count_r = Len(data) - used          *)
(*   unread  bytes in the unread buffer; not empty: GIO_STATE_UNREAD       *)
(*   room    count_w                                                       *)
(*   lead    start - base_p when writing                                   *)
(*   size_p  bytes allocated at base_p                                     *)
(*   buffered  FALSE: GIO_STATE_FULLBUF is not set, and the *_non functions *)
(*           do the transfers; room, lead and size_p are not used then     *)
(* k is a record: bytes, the contents of the file, and pos, the kernel's   *)
(* offset of the descriptor.                                               *)
(*                                                                         *)
(* cache_r and cache_w change with every flush (GIO_tune_read and _write); *)
(* here each use takes any value the tuner may have left (CachesR and      *)
(* CachesW; GioTune shows which).  The bytes of a call that passes through *)
(* the inline fast path and those that go through the _buf function meet   *)
(* the same operators.  The file is regular and can be sought.  The bytes  *)
(* a pointer leads to are those the caller reads there at once, or stores  *)
(* there before its next call; alignment takes no copy.                    *)
(***************************************************************************)
EXTENDS Integers, Sequences

CONSTANTS
  Bytes,      \* values of a byte
  Zero,       \* the byte read from a hole of a file
  Mod,        \* mod_r, mod_w and mod_p: blksize
  BigR,       \* big_r: smallest request that is read past the cache
  BigW,       \* big_w: smallest request that is written past the cache
  CachesR,    \* values of cache_r
  CachesW,    \* values of cache_w
  MinW,       \* min_w: fewest bytes gwriteb writes to make room
  MinBlocks,  \* blocks gwriteb allocates at least: 10 in the code
  IOErrors    \* TRUE: read() and write() may fail, write() may be short

ASSUME BufferAssumption ==
  /\ Zero \in Bytes
  /\ Mod \in Nat \ {0}
  /\ BigR \in Nat
  /\ BigW \in Nat \ {0}
  /\ CachesR \subseteq Nat /\ CachesR # {}
  /\ CachesW \subseteq Nat /\ CachesW # {}
  /\ MinW \in Nat
  /\ MinBlocks \in Nat
  /\ IOErrors \in BOOLEAN

Lesser(m, n) == IF m < n THEN m ELSE n
Greater(m, n) == IF m < n THEN n ELSE m
RoundUp(n) == Mod * ((n + Mod - 1) \div Mod)
From(bs, n) == SubSeq(bs, n + 1, Len(bs))
Upto(bs, n) == SubSeq(bs, 1, n)

BufferType ==
  [mode : {"idle", "read", "write"}, can : SUBSET {"r", "w", "a"}, offset : Int,
   data : Seq(Bytes), used : Nat, unread : Seq(Bytes), room : Int,
   lead : Nat, size_p : Nat, buffered : BOOLEAN]

(* GIO_gopen_init; gsetvbuf takes the offset from the kernel.              *)
Fresh(can, at) ==
  [mode |-> "idle", can |-> can, offset |-> at, data |-> <<>>, used |-> 0,
   unread |-> <<>>, room |-> 0, lead |-> 0, size_p |-> 0, buffered |-> TRUE]

Outcome(b, k, ok, ret) == [b |-> b, k |-> k, ok |-> ok, ret |-> ret]

-----------------------------------------------------------------------------
(* The kernel, for one descriptor on a regular file.                       *)

(* bs written into a file from offset pos on; a gap becomes a hole.        *)
Overlay(bytes, pos, bs) ==
  IF bs = <<>> THEN bytes
  ELSE [i \in 1 .. Greater(Len(bytes), pos + Len(bs)) |->
          IF i > pos /\ i <= pos + Len(bs) THEN bs[i - pos]
          ELSE IF i <= Len(bytes) THEN bytes[i] ELSE Zero]

(* write(); with O_APPEND it goes to the end of the file.                  *)
Written(b, k, bs) ==
  IF bs = <<>> THEN k
  ELSE LET at == IF "a" \in b.can THEN Len(k.bytes) ELSE k.pos
       IN  [bytes |-> Overlay(k.bytes, at, bs), pos |-> at + Len(bs)]

(* How many of n bytes a loop over write() gets out before an error.       *)
WriteCounts(n) == IF IOErrors THEN 0 .. n ELSE {n}

(* How many bytes a loop over read() gets, of n wanted.                    *)
ReadCounts(k, n) ==
  LET got == Lesser(n, Greater(0, Len(k.bytes) - k.pos))
  IN  IF IOErrors THEN 0 .. got ELSE {got}

Ahead(k, n) == SubSeq(k.bytes, k.pos + 1, k.pos + n)
Moved(k, pos) == [k EXCEPT !.pos = pos]

-----------------------------------------------------------------------------
(* GIO_getpos, and the flushes                                             *)

Getpos(b) ==
  CASE b.mode = "read" ->
         b.offset + b.used - IF b.buffered THEN Len(b.unread) ELSE 0
    [] b.mode = "write" -> b.offset + Len(b.data)
    [] b.mode = "idle" -> b.offset

(* GIO_gflushw_buf; GIO_gflushw_non calls write() once.                    *)
Gflushw(b, k) ==
  {Outcome([b EXCEPT !.offset = @ + m, !.data = From(@, m), !.lead = @ + m,
                     !.room = 0],
           Written(b, k, Upto(b.data, m)), m = Len(b.data), 0) :
     m \in WriteCounts(Len(b.data))}

(* Mutant of Gflushr: the kernel is left where it has read ahead to.       *)
GflushrNoSeek(b, k) ==
  {Outcome([b EXCEPT !.offset = @ + b.used, !.data = <<>>, !.used = 0,
                     !.unread = <<>>, !.lead = 0], k, TRUE, 0)}

(* GIO_gflushr_buf: unread bytes are dropped, and the kernel is taken back *)
(* to the first byte not consumed (GIO_gflushr_non: it is there).          *)
Gflushr(b, k) ==
  LET ahead == Len(b.data) > b.used
  IN  {Outcome([b EXCEPT !.offset = @ + b.used, !.data = <<>>, !.used = 0,
                         !.unread = <<>>, !.lead = 0],
               IF ahead THEN Moved(k, b.offset + b.used) ELSE k, TRUE, 0)}

(* gflush of a stream that has its descriptor, and the flush in GIO_close. *)
Gflush(b, k) ==
  CASE b.mode = "write" -> Gflushw(b, k)
    [] b.mode = "read" -> Gflushr(b, k)
    [] b.mode = "idle" -> {Outcome(b, k, TRUE, 0)}

(* Changing to read or write state, with the flush this takes.             *)
Turn(b, k, mode) ==
  IF b.mode = mode THEN {Outcome(b, k, TRUE, 0)}
  ELSE {IF o.ok
        THEN [o EXCEPT !.b = [@ EXCEPT !.mode = mode, !.data = <<>>,
                                       !.used = 0, !.room = 0, !.lead = 0]]
        ELSE o : o \in Gflush(b, k)}

-----------------------------------------------------------------------------
(* greadc, GIO_greadc_buf                                                  *)

(* Mutant of Refill: offset is not advanced past the bytes consumed before *)
(* the cache is filled again.                                              *)
RefillInPlace(b, k, n, got) ==
  LET e == [b EXCEPT !.data = <<>>, !.used = 0]
  IN  UNION
      {IF n >= BigR \/ cache = 0
       THEN {Outcome([e EXCEPT !.offset = @ + m], Moved(k, k.pos + m), TRUE,
                     got \o Ahead(k, m)) : m \in ReadCounts(k, n)}
       ELSE LET want == RoundUp(Greater(n, cache))
            IN  {Outcome([e EXCEPT !.data = Ahead(k, m),
                                   !.used = Lesser(n, m), !.lead = 0,
                                   !.size_p = Greater(@, want)],
                         Moved(k, k.pos + m), TRUE,
                         got \o Ahead(k, Lesser(n, m))) :
                   m \in ReadCounts(k, want)} : cache \in CachesR}

(* n bytes are still wanted when the caches are empty; got is what the     *)
(* caller already has.                                                     *)
Refill(b, k, n, got) ==
  LET e == [b EXCEPT !.offset = @ + b.used, !.data = <<>>, !.used = 0]
  IN  UNION
      {IF n >= BigR \/ cache = 0
       THEN {Outcome([e EXCEPT !.offset = @ + m], Moved(k, k.pos + m), TRUE,
                     got \o Ahead(k, m)) : m \in ReadCounts(k, n)}
       ELSE LET want == RoundUp(Greater(n, cache))
            IN  {Outcome([e EXCEPT !.data = Ahead(k, m),
                                   !.used = Lesser(n, m), !.lead = 0,
                                   !.size_p = Greater(@, want)],
                         Moved(k, k.pos + m), TRUE,
                         got \o Ahead(k, Lesser(n, m))) :
                   m \in ReadCounts(k, want)} : cache \in CachesR}

(* The n bytes that come first in the unread buffer and the cache.         *)
InCaches(b) == Len(b.unread) + Len(b.data) - b.used
Served(b, n) == Upto(b.unread \o From(b.data, b.used), n)
Consumed(b, n) ==
  LET u == Lesser(n, Len(b.unread))
  IN  [b EXCEPT !.unread = From(@, u), !.used = @ + n - u]

(* A non-buffered stream returns bytes that have been pushed back, and     *)
(* forgets the rest of them, or else what one read() gets.                 *)
ReadPlain(b, k, n) ==
  IF b.unread # <<>>
  THEN {Outcome([b EXCEPT !.unread = <<>>], k, TRUE,
                Upto(b.unread, Lesser(n, Len(b.unread))))}
  ELSE {Outcome([b EXCEPT !.offset = @ + m], Moved(k, k.pos + m), TRUE,
                Ahead(k, m)) : m \in ReadCounts(k, n)}

(* The functions that read, with a transfer Op to make of what is missing. *)
Reading(b, k, n, Op(_, _)) ==
  IF "r" \notin b.can /\ b.mode # "read" THEN {Outcome(b, k, FALSE, <<>>)}
  ELSE UNION
    {IF ~ o.ok THEN {[o EXCEPT !.ret = <<>>]}
     ELSE IF ~ b.buffered THEN ReadPlain(o.b, o.k, n)
     ELSE IF n <= InCaches(o.b)
     THEN {Outcome(Consumed(o.b, n), o.k, TRUE, Served(o.b, n))}
     ELSE Op(o.b, o.k) : o \in Turn(b, k, "read")}

Greadc(b, k, n) ==
  LET Rest(c, kc) ==
        LET have == InCaches(c)
        IN  Refill(Consumed(c, have), kc, n - have, Served(c, have))
  IN  Reading(b, k, n, Rest)

(* greada, greadb and ggetc: GIO_greadb_buf                                *)

(* Mutant of ReadBehind: the bytes left are not moved to the front of the  *)
(* buffer; those that are there already are taken for them.                *)
ReadBehindFront(b, k, n) ==
  LET left == Upto(b.data, Len(b.data) - b.used)
      need == n - InCaches(b)
      Want(cache) == IF cache = 0 THEN need
                     ELSE RoundUp(Len(left) + Greater(need, cache)) - Len(left)
  IN  UNION
      {LET size == Len(left) + Want(cache)
           After(m) ==
             LET all == left \o Ahead(k, m)
                 have == Lesser(n, Len(b.unread) + Len(all))
                 got == Upto(b.unread \o all, have)
             IN  Outcome([b EXCEPT !.offset = @ + b.used, !.data = all,
                                   !.used = have - Len(b.unread),
                                   !.unread = <<>>, !.lead = 0,
                                   !.size_p = Greater(@, RoundUp(size))],
                         Moved(k, k.pos + m), TRUE, got)
       IN  {After(m) : m \in ReadCounts(k, Want(cache))} : cache \in CachesR}

(* The caches hold fewer than n bytes: what is left of them moves to the   *)
(* front and the cache is filled behind it, to the end of a block.         *)
ReadBehind(b, k, n) ==
  LET left == From(b.data, b.used)
      need == n - InCaches(b)
      Want(cache) == IF cache = 0 THEN need
                     ELSE RoundUp(Len(left) + Greater(need, cache)) - Len(left)
  IN  UNION
      {LET size == Len(left) + Want(cache)
           After(m) ==
             LET all == left \o Ahead(k, m)
                 have == Lesser(n, Len(b.unread) + Len(all))
                 got == Upto(b.unread \o all, have)
             IN  Outcome([b EXCEPT !.offset = @ + b.used, !.data = all,
                                   !.used = have - Len(b.unread),
                                   !.unread = <<>>, !.lead = 0,
                                   !.size_p = Greater(@, RoundUp(size))],
                         Moved(k, k.pos + m), TRUE, got)
       IN  {After(m) : m \in ReadCounts(k, Want(cache))} : cache \in CachesR}

Greadb(b, k, n) ==
  LET Rest(c, kc) == ReadBehind(c, kc, n) IN Reading(b, k, n, Rest)

(* gunread                                                                 *)
Gunread(b, k, bs) ==
  {IF o.ok THEN [o EXCEPT !.b.unread = bs \o @, !.ret = Len(bs)] ELSE o :
     o \in Turn(b, k, "read")}

-----------------------------------------------------------------------------
(* gwritec, GIO_gwritec_buf                                                *)

(* Mutant of WriteEmpty: count_w is not reduced by the bytes just stored.  *)
WriteEmptyUncounted(b, k, bs, n) ==
  IF Len(bs) >= BigW
  THEN {Outcome([b EXCEPT !.offset = @ + m, !.lead = 0,
                          !.room = IF b.size_p > 0 THEN b.size_p ELSE @],
                Written(b, k, Upto(bs, m)), m = Len(bs), n + m) :
          m \in WriteCounts(Len(bs))}
  ELSE {LET size == Greater(b.size_p, RoundUp(Greater(Len(bs), cache)))
        IN  Outcome([b EXCEPT !.data = bs, !.lead = 0, !.size_p = size,
                              !.room = size],
                    k, TRUE, n + Len(bs)) : cache \in CachesW}

(* bs is written with nothing left in the cache; n bytes of the call have  *)
(* been taken before.                                                      *)
WriteEmpty(b, k, bs, n) ==
  IF Len(bs) >= BigW
  THEN {Outcome([b EXCEPT !.offset = @ + m, !.lead = 0,
                          !.room = IF b.size_p > 0 THEN b.size_p ELSE @],
                Written(b, k, Upto(bs, m)), m = Len(bs), n + m) :
          m \in WriteCounts(Len(bs))}
  ELSE {LET size == Greater(b.size_p, RoundUp(Greater(Len(bs), cache)))
        IN  Outcome([b EXCEPT !.data = bs, !.lead = 0, !.size_p = size,
                              !.room = size - Len(bs)],
                    k, TRUE, n + Len(bs)) : cache \in CachesW}

(* bs joins the bytes waiting in the cache, which are flushed when a block *)
(* is complete.                                                            *)
WriteBehind(b, k, bs) ==
  LET need == Len(b.data)
      block == (Mod - (need % Mod)) + (IF need < BigW THEN BigW - need ELSE 0)
      want == Lesser(Lesser(block, Len(bs)), b.size_p - (b.lead + need))
      all == b.data \o Upto(bs, want)
      room == b.room - want
      c == [b EXCEPT !.data = all, !.room = room]
  IN  IF want = Len(bs) /\ room # 0 THEN {Outcome(c, k, TRUE, want)}
      ELSE UNION
        {LET f == [c EXCEPT !.offset = @ + m, !.data = From(@, m),
                            !.lead = @ + m]
         IN  IF m < Len(all)
             THEN {Outcome(f, Written(b, k, Upto(all, m)), FALSE, want)}
             ELSE WriteEmpty(f, Written(b, k, all), From(bs, want), want) :
           m \in WriteCounts(Len(all))}

(* The inline test compares count_w with a size_t: negative room is huge.  *)
FastWrite(b, n) == (b.room > n \/ b.room < 0) /\ BigW > n

(* Non-buffered: what gwriteb left in the buffer is written first, by one  *)
(* write(), and forgotten if that gets a part of it out.                   *)
WriteLeft(b, k) ==
  {Outcome([b EXCEPT !.offset = @ + m, !.data = IF m = 0 THEN @ ELSE <<>>,
                     !.lead = IF m = 0 THEN @ ELSE 0],
           Written(b, k, Upto(b.data, m)), m = Len(b.data), 0) :
     m \in WriteCounts(Len(b.data))}

WritePlain(b, k, bs) ==
  UNION {IF ~ o.ok THEN {o}
         ELSE {Outcome([o.b EXCEPT !.offset = @ + m],
                       Written(o.b, o.k, Upto(bs, m)), m = Len(bs), m) :
                 m \in WriteCounts(Len(bs))} : o \in WriteLeft(b, k)}

Gwritec(b, k, bs) ==
  IF "w" \notin b.can THEN {Outcome(b, k, FALSE, 0)}
  ELSE UNION
    {IF ~ o.ok THEN {o}
     ELSE IF ~ b.buffered THEN WritePlain(o.b, o.k, bs)
     ELSE IF FastWrite(o.b, Len(bs))
     THEN {Outcome([o.b EXCEPT !.data = @ \o bs, !.room = @ - Len(bs)],
                   o.k, TRUE, Len(bs))}
     ELSE IF o.b.data # <<>> THEN WriteBehind(o.b, o.k, bs)
     ELSE WriteEmpty(o.b, o.k, bs, 0) : o \in Turn(b, k, "write")}

-----------------------------------------------------------------------------
(* gwritea, gwriteb and gputc: GIO_gwriteb_buf and GIO_gwriteb_non         *)

Stored(b, k, bs) ==
  Outcome([b EXCEPT !.data = @ \o bs, !.room = @ - Len(bs)], k, TRUE, Len(bs))

(* Room is made by writing the whole blocks there are, if they are many    *)
(* enough, and moving the rest to the front of a buffer as large as needed. *)
MakeRoom(b, k, bs) ==
  LET whole == Len(b.data) - (Len(b.data) % Mod)
      out == IF whole >= MinW THEN whole ELSE 0
  IN  UNION
      {LET f == [b EXCEPT !.offset = @ + m, !.data = From(@, m), !.lead = @ + m]
           kf == Written(b, k, Upto(b.data, m))
           least == Greater(Len(f.data) + Len(bs), MinBlocks * Mod)
           Grown(cache) ==
             LET size == Greater(f.size_p, RoundUp(Greater(least, cache)))
             IN  [f EXCEPT !.lead = 0, !.size_p = size,
                           !.room = size - Len(f.data)]
       IN  IF m < out THEN {Outcome(f, kf, FALSE, 0)}
           ELSE {Stored(Grown(cache), kf, bs) : cache \in CachesW} :
         m \in WriteCounts(out)}

GwritebBuf(b, k, bs) ==
  LET e == IF b.data = <<>> THEN [b EXCEPT !.lead = 0, !.room = b.size_p] ELSE b
  IN  IF e.room >= Len(bs) THEN {Stored(e, k, bs)} ELSE MakeRoom(e, k, bs)

(* The bytes stay in the buffer until the next call writes them.           *)
GwritebNon(b, k, bs) ==
  {IF o.ok THEN [o EXCEPT !.b.data = bs, !.b.lead = 0, !.ret = Len(bs)] ELSE o :
     o \in WriteLeft(b, k)}

FpGwriteb(b, k, bs) ==
  IF "w" \notin b.can THEN {Outcome(b, k, FALSE, 0)}
  ELSE UNION
    {IF ~ o.ok THEN {o}
     ELSE IF b.buffered THEN GwritebBuf(o.b, o.k, bs)
     ELSE GwritebNon(o.b, o.k, bs) : o \in Turn(b, k, "write")}

Gwriteb(b, k, bs) ==
  IF b.room > Len(bs) \/ b.room < 0 THEN {Stored(b, k, bs)}
  ELSE FpGwriteb(b, k, bs)

(* The test in gputc is one of signed numbers.                             *)
Gputc(b, k, c) ==
  IF b.room > 1 THEN {Stored(b, k, <<c>>)} ELSE FpGwriteb(b, k, <<c>>)

-----------------------------------------------------------------------------
(* GIO_setpos                                                              *)
SeekTo(o, pos) ==
  IF ~ o.ok THEN o
  ELSE IF pos < 0 THEN [o EXCEPT !.ok = FALSE]
  ELSE [o EXCEPT !.b.offset = pos, !.k.pos = pos]

(* Mutant of Gsetpos: the test for a position inside the cache is off by   *)
(* one at its upper end.                                                   *)
GsetposPastEnd(b, k, pos) ==
  CASE b.mode = "write" /\ Getpos(b) = pos -> {Outcome(b, k, TRUE, 0)}
    [] b.mode = "read" /\ pos \in b.offset .. b.offset + Len(b.data) + 1 ->
         {Outcome([b EXCEPT !.used = pos - b.offset, !.unread = <<>>],
                  k, TRUE, 0)}
    [] OTHER -> {SeekTo(o, pos) : o \in Gflush(b, k)}

Gsetpos(b, k, pos) ==
  CASE b.mode = "write" /\ Getpos(b) = pos -> {Outcome(b, k, TRUE, 0)}
    [] b.mode = "read" /\ pos \in b.offset .. b.offset + Len(b.data) ->
         {Outcome([b EXCEPT !.used = pos - b.offset, !.unread = <<>>],
                  k, TRUE, 0)}
    [] OTHER -> {SeekTo(o, pos) : o \in Gflush(b, k)}

-----------------------------------------------------------------------------
(* gsetvbuf, refused once the stream has been read or written.             *)
Gsetvbuf(b, k, buffered) ==
  IF b.mode = "idle"
  THEN {Outcome([b EXCEPT !.buffered = buffered, !.offset = k.pos], k, TRUE, 0)}
  ELSE {Outcome(b, k, FALSE, 0)}
=============================================================================
