------------------------------ MODULE GioTune -------------------------------
(***************************************************************************)
(* The size of a stream's cache: gsetvbuf sets cache_r and cache_w and the *)
(* limits they are tuned within, GIO_tune_read and GIO_tune_write move     *)
(* them at every flush, by how much of the cache was of use.  One stream,  *)
(* of which only byte counts are kept: what the counts count is in         *)
(* GioBuffer, whose operators take any of the cache sizes shown here.      *)
(*                                                                         *)
(* Abstractions: writes succeed; a read returns any number of bytes, as    *)
(* near the end of a file; a stream that is not buffered (GIO_*_non) does  *)
(* not come to the tuner at all.                                           *)
(***************************************************************************)
EXTENDS Integers

CONSTANTS
  Media,      \* what a stream may be open on: "disk", "tape", "tty", "fifo"
  BlkSize,    \* st_blksize
  EnvBlkSize, \* gio.blk_size, from the environment; 0: not set
  SizeArgs,   \* arguments size of gsetvbuf
  Requests,   \* request sizes
  MaxWaste,   \* bound on the waste a seek inside the read cache may add to
  MinBlocks,  \* blocks gwriteb allocates at least: 10 in the code
  IntMax      \* INT_MAX, larger than any request

ASSUME TuneAssumption ==
  /\ Media \subseteq {"disk", "tape", "tty", "fifo"}
  /\ BlkSize \in Nat \ {0}
  /\ EnvBlkSize \in Int
  /\ SizeArgs \subseteq Nat
  /\ Requests \subseteq Nat \ {0}
  /\ MaxWaste \in Nat
  /\ MinBlocks \in Nat
  /\ IntMax \in Nat

VARIABLES
  media,  \* what the descriptor is open on
  setup,  \* what gsetvbuf has set: a record as Setup returns it
  t       \* what transfers change: a record as Counts

tuneVars == <<media, setup, t>>

Dirs == {"r", "w"}

(* delta and waste as in GFILE; len bytes in the read cache, used of them  *)
(* consumed; pending bytes in the write cache and room (count_w) for more. *)
Counts ==
  [mode : {"idle"} \cup Dirs, cache : [Dirs -> Int], delta : Int,
   waste : Int, len : Int, used : Int, pending : Int, room : Int,
   size_p : Int]

Lesser(m, n) == IF m < n THEN m ELSE n
Greater(m, n) == IF m < n THEN n ELSE m
RoundUp(n, mod) == mod * ((n + mod - 1) \div mod)

(* blksize after GIO_setvbuf_stat: mod_r, mod_w and mod_p.                 *)
Blk(m) == IF m = "disk" /\ EnvBlkSize > 0 THEN EnvBlkSize ELSE BlkSize
Mod == Blk(media)

-----------------------------------------------------------------------------
(* gsetvbuf                                                                *)

(* GIO_setvbuf_mode, of the genus known to the stream.                     *)
ModeBuffer(how, genus) ==
  CASE how # "nominal" -> how
    [] how = "nominal" /\ genus = "tape" -> "none"
    [] how = "nominal" /\ genus = "tty" -> "line"
    [] OTHER -> "full"

(* min, max and big for direction d with copy semantics; cache starts as.  *)
Span(lo, hi, bg, c) == [low |-> lo, high |-> hi, big |-> bg, cache |-> c]

(* Mutant of Limits: a cache that is not to be tuned is given the limits   *)
(* of one that is.                                                         *)
LimitsTuned(d, buffering, kind, m, size) ==
  LET block == IF size = 0 THEN Blk(m) ELSE RoundUp(size, Blk(m))
      Fixed(c) == Span(c, c, IntMax, c)
  IN  IF buffering = "none" THEN Span(0, 0, 0, 0)
      ELSE IF kind = "non_cache" THEN Fixed(0)
      ELSE IF m = "tape" THEN Fixed(block)
      ELSE IF size > 0 THEN Span(0, block, block, block)
      ELSE IF d = "r" THEN Span(0, 4 * block, block, block)
      ELSE Span(0, 8 * block, 2 * block, 2 * block)

(* Mutant of Limits: size is not rounded up to blocks.                     *)
LimitsBytes(d, buffering, kind, m, size) ==
  LET block == IF size = 0 THEN Blk(m) ELSE size
      Fixed(c) == Span(c, c, IntMax, c)
  IN  IF buffering = "none" THEN Span(0, 0, 0, 0)
      ELSE IF kind = "non_cache" THEN Fixed(0)
      ELSE IF kind = "non_tuned"
      THEN Fixed(IF size > 1 THEN size ELSE Blk(m))
      ELSE IF m = "tape" THEN Fixed(block)
      ELSE IF size > 0 THEN Span(0, block, block, block)
      ELSE IF d = "r" THEN Span(0, 4 * block, block, block)
      ELSE Span(0, 8 * block, 2 * block, 2 * block)

Limits(d, buffering, kind, m, size) ==
  LET block == IF size = 0 THEN Blk(m) ELSE RoundUp(size, Blk(m))
      Fixed(c) == Span(c, c, IntMax, c)
      set == IF buffering = "none" THEN Span(0, 0, 0, 0)
             ELSE IF kind = "non_cache" THEN Fixed(0)
             ELSE IF kind = "non_tuned"
             THEN Fixed(IF size > 1 THEN size ELSE Blk(m))
             ELSE IF m = "tape" THEN Fixed(block)
             ELSE IF size > 0 THEN Span(0, block, block, block)
             ELSE IF d = "r" THEN Span(0, 4 * block, block, block)
             ELSE Span(0, 8 * block, 2 * block, 2 * block)
  IN  IF m = "disk" /\ EnvBlkSize > 0
      THEN Span(EnvBlkSize, EnvBlkSize, set.big, EnvBlkSize)
      ELSE set

(* The mode is worked out of the genus known before GIO_setvbuf_stat.      *)
Setup(how, arg, size, genus, m) ==
  LET kind == IF EnvBlkSize < 0 THEN "non_cache" ELSE arg
      buffering == ModeBuffer(how, genus)
  IN  [genus |-> m, buffered |-> buffering # "none", kind |-> kind,
       lim |-> [d \in Dirs |-> Limits(d, buffering, kind, m, size)]]

StartSizes(s) == [d \in Dirs |-> s.lim[d].cache]

(* A stream as GIO_gopen_init leaves it.                                   *)
TuneInit ==
  /\ media \in Media
  /\ setup = Setup("nominal", "tuned", 0, "unknown", media)
  /\ t = [mode |-> "idle", cache |-> StartSizes(setup), delta |-> 0,
          waste |-> 0, len |-> 0, used |-> 0, pending |-> 0, room |-> 0,
          size_p |-> 0]

Gsetvbuf ==
  /\ t.mode = "idle"
  /\ \E how \in {"nominal", "full", "line", "none"},
        kind \in {"tuned", "non_tuned", "non_cache"}, size \in SizeArgs :
       setup' = Setup(how, kind, size, setup.genus, media)
  /\ t' = [t EXCEPT !.cache = StartSizes(setup')]
  /\ UNCHANGED media

-----------------------------------------------------------------------------
(* GIO_tune_read, GIO_tune_write                                           *)

(* n bytes of the cache have been used, little of it has been wasted:      *)
(* GIO_MIN_READ and GIO_MIN_WRITE are 80.                                  *)
SmallWaste(waste, n) == 80 * waste < 100 * n

(* Mutant of Grown: a cache size that is stable does not start to grow.    *)
GrownStuck(c, d) ==
  LET step == IF c.delta >= 0 THEN 2 * c.delta ELSE (- c.delta) \div 2
      next == c.cache[d] + step * Mod
  IN  IF next > setup.lim[d].high
      THEN [c EXCEPT !.cache[d] = setup.lim[d].high, !.delta = (step - 1) \div 2]
      ELSE [c EXCEPT !.cache[d] = next, !.delta = step]

(* Bigger is better: delta doubles, is halved and turned round, or starts. *)
Grown(c, d) ==
  LET step == IF c.delta > 0 THEN 2 * c.delta
              ELSE IF c.delta < 0 THEN (- c.delta) \div 2 ELSE 1
      next == c.cache[d] + step * Mod
  IN  IF next > setup.lim[d].high
      THEN [c EXCEPT !.cache[d] = setup.lim[d].high, !.delta = (step - 1) \div 2]
      ELSE [c EXCEPT !.cache[d] = next, !.delta = step]

(* Mutant of Shrunk: the step is not taken back at the minimum.            *)
ShrunkFaster(c, d) ==
  LET step == IF c.delta < 0 THEN 2 * (- c.delta)
              ELSE IF c.delta > 0 THEN c.delta \div 2 ELSE 1
      next == c.cache[d] - step * Mod
  IN  IF next < setup.lim[d].low
      THEN [c EXCEPT !.cache[d] = setup.lim[d].low, !.delta = - step]
      ELSE [c EXCEPT !.cache[d] = next, !.delta = - step]

(* Mutant of Shrunk: the minimum is not enforced.                          *)
ShrunkBelow(c, d) ==
  LET step == IF c.delta < 0 THEN 2 * (- c.delta)
              ELSE IF c.delta > 0 THEN c.delta \div 2 ELSE 1
  IN  [c EXCEPT !.cache[d] = @ - step * Mod, !.delta = - step]

(* Smaller is smarter.                                                     *)
Shrunk(c, d) ==
  LET step == IF c.delta < 0 THEN 2 * (- c.delta)
              ELSE IF c.delta > 0 THEN c.delta \div 2 ELSE 1
      next == c.cache[d] - step * Mod
  IN  IF next < setup.lim[d].low
      THEN [c EXCEPT !.cache[d] = setup.lim[d].low,
                     !.delta = - ((step - 1) \div 2)]
      ELSE [c EXCEPT !.cache[d] = next, !.delta = - step]

Tune(c, d, n) ==
  IF SmallWaste(c.waste, n)
  THEN IF c.cache[d] < setup.lim[d].high THEN Grown(c, d) ELSE c
  ELSE IF c.waste > 0 /\ c.cache[d] > setup.lim[d].low THEN Shrunk(c, d) ELSE c

-----------------------------------------------------------------------------
(* The transfers, in bytes                                                 *)

FlushW(c) ==
  [IF c.pending > 0 THEN Tune(c, "w", c.pending) ELSE c
     EXCEPT !.pending = 0, !.room = 0, !.waste = 0]

FlushR(c) == [Tune(c, "r", c.used) EXCEPT !.len = 0, !.used = 0, !.waste = 0]

Flushed(c) ==
  CASE c.mode = "w" -> FlushW(c) [] c.mode = "r" -> FlushR(c) [] OTHER -> c

(* Turning to the other direction starts the tuning afresh, unless it is   *)
(* gunread that turns.                                                     *)
Turned(c, d) ==
  IF c.mode = d THEN c ELSE [Flushed(c) EXCEPT !.mode = d, !.delta = 0]

(* GIO_greadc_buf with n bytes still wanted and nothing left in the cache. *)
Refilled(c, n) ==
  LET e == Tune(c, "r", c.used)
      want == RoundUp(Greater(n, e.cache["r"]), Mod)
  IN  IF n >= setup.lim["r"].big \/ e.cache["r"] = 0
      THEN {[e EXCEPT !.len = 0, !.used = 0, !.waste = -1]}
      ELSE {[e EXCEPT !.len = m, !.used = Lesser(n, m), !.waste = m,
                      !.size_p = Greater(@, want)] : m \in 0 .. want}

(* Mutant of Started: count_w is not reduced by the bytes just stored.     *)
StartedUncounted(c, n) ==
  LET size == Greater(c.size_p, RoundUp(Greater(n, c.cache["w"]), Mod))
  IN  IF n < setup.lim["w"].big
      THEN [c EXCEPT !.size_p = size, !.waste = size, !.pending = n,
                     !.room = size]
      ELSE IF c.size_p > 0
      THEN [c EXCEPT !.waste = c.size_p, !.room = c.size_p, !.pending = 0]
      ELSE [c EXCEPT !.pending = 0]

(* GIO_gwritec_buf with an empty cache.                                    *)
Started(c, n) ==
  LET size == Greater(c.size_p, RoundUp(Greater(n, c.cache["w"]), Mod))
  IN  IF n < setup.lim["w"].big
      THEN [c EXCEPT !.size_p = size, !.waste = size, !.pending = n,
                     !.room = size - n]
      ELSE IF c.size_p > 0
      THEN [c EXCEPT !.waste = c.size_p, !.room = c.size_p, !.pending = 0]
      ELSE [c EXCEPT !.pending = 0]

(* and with bytes pending.                                                 *)
Joined(c, n) ==
  LET bigw == setup.lim["w"].big
      block == (Mod - (c.pending % Mod))
                 + (IF c.pending < bigw THEN bigw - c.pending ELSE 0)
      want == Lesser(Lesser(block, n), c.size_p - c.pending)
      j == [c EXCEPT !.pending = @ + want, !.room = @ - want]
  IN  IF want = n /\ j.room # 0 THEN j
      ELSE Started([Tune(j, "w", j.pending) EXCEPT !.pending = 0], n - want)

Read(n) ==
  /\ setup.buffered
  /\ LET c == Turned(t, "r")
         left == c.len - c.used
     IN  IF n <= left THEN t' = [c EXCEPT !.used = @ + n]
         ELSE t' \in Refilled([c EXCEPT !.used = c.len], n - left)
  /\ UNCHANGED <<media, setup>>

Write(n) ==
  /\ setup.buffered
  /\ LET c == Turned(t, "w")
     IN  t' = IF c.room > n /\ setup.lim["w"].big > n
              THEN [c EXCEPT !.pending = @ + n, !.room = @ - n]
              ELSE IF c.pending > 0 THEN Joined(c, n)
              ELSE Started(c, n)
  /\ UNCHANGED <<media, setup>>

(* GIO_greadb_buf keeps what is left in the cache and reads on behind it;  *)
(* no request is too big for it.                                           *)
Lengthened(c, n) ==
  LET left == c.len - c.used
      e == Tune(c, "r", c.len)
      ahead == RoundUp(left + Greater(n - left, e.cache["r"]), Mod)
      want == IF e.cache["r"] = 0 THEN n ELSE ahead
  IN  {[e EXCEPT !.len = m, !.used = Lesser(n, m), !.waste = m,
                 !.size_p = IF @ < want THEN RoundUp(want, Mod) ELSE @] :
         m \in left .. want}

(* greada, greadb and ggetc                                                *)
ReadPointer(n) ==
  /\ setup.buffered
  /\ LET c == Turned(t, "r")
     IN  IF n <= c.len - c.used THEN t' = [c EXCEPT !.used = @ + n]
         ELSE t' \in Lengthened(c, n)
  /\ UNCHANGED <<media, setup>>

(* GIO_gwriteb_buf when there is no room: whole blocks are written if they *)
(* are as many as the cache should have, and the rest moves to the front.  *)
Extended(c, n) ==
  LET whole == c.pending - (c.pending % Mod)
      e == IF whole > 0 /\ whole >= setup.lim["w"].low
           THEN [Tune([c EXCEPT !.waste = -1], "w", whole)
                   EXCEPT !.pending = @ - whole]
           ELSE c
      least == Greater(Greater(e.pending + n, e.cache["w"]), MinBlocks * Mod)
      size == IF e.size_p < least THEN RoundUp(least, Mod) ELSE e.size_p
  IN  [e EXCEPT !.size_p = size, !.waste = size, !.pending = @ + n,
                !.room = size - (e.pending + n)]

(* gwritea, gwriteb and gputc; bytes handed out count as written.          *)
WritePointer(n) ==
  /\ setup.buffered
  /\ LET c == Turned(t, "w")
         e == IF c.pending = 0
              THEN [c EXCEPT !.room = c.size_p, !.waste = c.size_p] ELSE c
     IN  t' = IF c.room > n THEN [c EXCEPT !.pending = @ + n, !.room = @ - n]
              ELSE IF e.room >= n
              THEN [e EXCEPT !.pending = @ + n, !.room = @ - n]
              ELSE Extended(e, n)
  /\ UNCHANGED <<media, setup>>

Unread ==
  /\ setup.buffered
  /\ t.mode # "r"
  /\ t' = [Flushed(t) EXCEPT !.mode = "r"]
  /\ UNCHANGED <<media, setup>>

(* gsetpos to another position: inside the read cache, *)
SeekInside ==
  /\ setup.buffered
  /\ t.mode = "r"
  /\ \E p \in 0 .. t.len :
       /\ t.waste + p - t.used \in - MaxWaste .. MaxWaste
       /\ t' = [t EXCEPT !.waste = @ + p - t.used, !.used = p]
  /\ UNCHANGED <<media, setup>>

(* or elsewhere; gflush does the same to the counts.                       *)
FlushCall ==
  /\ setup.buffered
  /\ t' = Flushed(t)
  /\ UNCHANGED <<media, setup>>

TuneNext ==
  \/ Gsetvbuf
  \/ \E n \in Requests :
       Read(n) \/ Write(n) \/ ReadPointer(n) \/ WritePointer(n)
  \/ Unread
  \/ SeekInside
  \/ FlushCall

TuneSpec == TuneInit /\ [][TuneNext]_tuneVars

-----------------------------------------------------------------------------
(* Properties                                                              *)

TuneTypeOK ==
  /\ t \in Counts
  /\ 0 <= t.used /\ t.used <= t.len
  /\ 0 <= t.pending /\ t.pending + t.room <= t.size_p

(* However reads, writes, seeks and the changes between them follow each   *)
(* other, and although both directions share delta, the tuner keeps each   *)
(* cache size within the limits that gsetvbuf has set for it.              *)
CacheWithinLimits ==
  \A d \in Dirs :
    setup.lim[d].low <= t.cache[d] /\ t.cache[d] <= setup.lim[d].high

(* The step by which a cache grows doubles at every flush, but never takes *)
(* it past the widest span of sizes there is: delta * mod does not run     *)
(* away in the int it is computed in.                                      *)
DeltaWithinSpan ==
  LET span(d) == setup.lim[d].high - setup.lim[d].low
  IN  Mod * (IF t.delta < 0 THEN - t.delta ELSE t.delta)
        <= Greater(span("r"), span("w"))

(* Tuned sizes are whole blocks, so that a cache that is filled from a     *)
(* block boundary is filled up to one.                                     *)
WholeBlocks ==
  setup.kind = "tuned" => \A d \in Dirs : t.cache[d] % Mod = 0

(* A cache that was set up not to be tuned keeps its size.                 *)
NotTunedKept ==
  [][setup' = setup /\ setup.kind # "tuned" => t'.cache = t.cache]_tuneVars

(* A read that the cache serves, at least in part.                         *)
ReadOn == \E n \in Requests : (Read(n) \/ ReadPointer(n)) /\ t'.len > 0

(* A program that from some time on only reads, one request after the      *)
(* other, has the largest read cache in the end, whatever delta the writes *)
(* and seeks before have left: it never comes to rest at zero.             *)
SequentialGrows ==
  (<>[][ReadOn]_tuneVars /\ []<><<ReadOn>>_tuneVars)
    => <>[](t.cache["r"] = setup.lim["r"].high)

=============================================================================
