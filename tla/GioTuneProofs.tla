---------------------------- MODULE GioTuneProofs ----------------------------
(***************************************************************************)
(* What holds of the tuner for every block size, every request and every   *)
(* setting of the environment.  That a step keeps the inductive invariant  *)
(* TuneInv comes down to what Grown and Shrunk do to a cache size that is  *)
(* within the limits Limits returns.                                       *)
(***************************************************************************)
EXTENDS GioTune, TLAPS

Size(delta) == IF delta < 0 THEN - delta ELSE delta

(* The widest span of sizes a cache may be tuned over.                     *)
Width == Greater(setup.lim["r"].high - setup.lim["r"].low,
                 setup.lim["w"].high - setup.lim["w"].low)

(* Limits in order, the starting size between them.                        *)
Ordered(l) ==
  /\ l \in [low : Int, high : Int, big : Int, cache : Int]
  /\ l.low <= l.cache /\ l.cache <= l.high

(* A number of whole blocks.                                               *)
Whole(n, m) == \E q \in Int : n = Blk(m) * q

(* The fields of Counts that the tuner moves; it is called with the others *)
(* only to compare them.                                                   *)
HasSizes(c) ==
  /\ {"mode", "cache", "delta"} \subseteq DOMAIN c
  /\ c.cache \in [Dirs -> Int]
  /\ c.delta \in Int

(* Counts that the tuner may be called with and may leave.                 *)
Tuned(c) ==
  /\ HasSizes(c)
  /\ \A d \in Dirs :
       setup.lim[d].low <= c.cache[d] /\ c.cache[d] <= setup.lim[d].high
  /\ Mod * Size(c.delta) <= Width
  /\ setup.kind = "tuned" => \A d \in Dirs : Whole(c.cache[d], media)

(* The inductive invariant.  delta starts afresh where gsetvbuf may still  *)
(* be called: with a step from other limits it would not hold.             *)
TuneInv ==
  /\ media \in {"disk", "tape", "tty", "fifo"}
  /\ \A d \in Dirs : Ordered(setup.lim[d])
  /\ setup.kind = "tuned"
       => \A d \in Dirs :
            Whole(setup.lim[d].low, media) /\ Whole(setup.lim[d].high, media)
  /\ Tuned(t)
  /\ t.mode = "idle" => t.delta = 0

-----------------------------------------------------------------------------
(* Arithmetic                                                              *)

(* Half of a count is a count.                                             *)
LEMMA HalfNat ==
  ASSUME NEW n \in Nat
  PROVE  n \div 2 \in Nat /\ n \div 2 <= n
OBVIOUS

(* A number of whole blocks is a count.                                    *)
LEMMA DivNat ==
  ASSUME NEW n \in Nat, NEW m \in Nat \ {0}
  PROVE  n \div m \in Nat
OBVIOUS

(* So is a number of blocks in bytes.                                      *)
LEMMA TimesNat ==
  ASSUME NEW m \in Nat, NEW n \in Nat
  PROVE  m * n \in Nat /\ m * n = n * m
OBVIOUS

(* Fewer blocks are fewer bytes.                                           *)
LEMMA TimesLeq ==
  ASSUME NEW k \in Nat, NEW m \in Nat, NEW n \in Nat, m <= n
  PROVE  k * m <= k * n
OBVIOUS

(* Rounding up to whole blocks, as GIO_greadc_buf, GIO_gwritec_buf and     *)
(* gsetvbuf do, gives a count of bytes.                                    *)
LEMMA RoundUpNat ==
  ASSUME NEW n \in Nat, NEW m \in Nat \ {0}
  PROVE  RoundUp(n, m) \in Nat
<1>1. n + m - 1 \in Nat
  OBVIOUS
<1>2. (n + m - 1) \div m \in Nat
  BY <1>1, DivNat
<1> QED
  BY <1>2, TimesNat DEF RoundUp

(* The block size is never zero.                                           *)
LEMMA BlkPositive ==
  ASSUME NEW m \in {"disk", "tape", "tty", "fifo"}
  PROVE  Blk(m) \in Nat \ {0}
BY TuneAssumption DEF Blk

-----------------------------------------------------------------------------
(* gsetvbuf                                                                *)

(* gsetvbuf leaves min <= cache <= max, whatever its arguments.            *)
LEMMA LimitsOrdered ==
  ASSUME NEW d \in Dirs, NEW buffering, NEW kind,
         NEW m \in {"disk", "tape", "tty", "fifo"}, NEW size \in Nat
  PROVE  Ordered(Limits(d, buffering, kind, m, size))
<1> DEFINE block == IF size = 0 THEN Blk(m) ELSE RoundUp(size, Blk(m))
<1>1. Blk(m) \in Nat \ {0}
  BY BlkPositive
<1>2. block \in Nat
  BY <1>1, RoundUpNat
<1>3. IntMax \in Nat /\ EnvBlkSize \in Int
  BY TuneAssumption
<1> HIDE DEF block
<1>4. ASSUME NEW s,
             \/ s = Span(0, 0, 0, 0)
             \/ \E c \in Nat : s = Span(c, c, IntMax, c)
             \/ s = Span(0, block, block, block)
             \/ s = Span(0, 4 * block, block, block)
             \/ s = Span(0, 8 * block, 2 * block, 2 * block)
      PROVE  Ordered(s) /\ s.big \in Int
  BY <1>2, <1>3, <1>4 DEF Ordered, Span
<1> DEFINE set ==
      IF buffering = "none" THEN Span(0, 0, 0, 0)
      ELSE IF kind = "non_cache" THEN Span(0, 0, IntMax, 0)
      ELSE IF kind = "non_tuned"
      THEN Span(IF size > 1 THEN size ELSE Blk(m),
                IF size > 1 THEN size ELSE Blk(m), IntMax,
                IF size > 1 THEN size ELSE Blk(m))
      ELSE IF m = "tape" THEN Span(block, block, IntMax, block)
      ELSE IF size > 0 THEN Span(0, block, block, block)
      ELSE IF d = "r" THEN Span(0, 4 * block, block, block)
      ELSE Span(0, 8 * block, 2 * block, 2 * block)
<1>5. Ordered(set) /\ set.big \in Int
  <2>1. (IF size > 1 THEN size ELSE Blk(m)) \in Nat
    BY <1>1
  <2> QED
    BY <1>2, <1>4, <2>1
<1>6. Limits(d, buffering, kind, m, size)
        = IF m = "disk" /\ EnvBlkSize > 0
          THEN Span(EnvBlkSize, EnvBlkSize, set.big, EnvBlkSize)
          ELSE set
  BY DEF Limits, block
<1> HIDE DEF set
<1>7. Ordered(Span(EnvBlkSize, EnvBlkSize, set.big, EnvBlkSize))
  BY <1>3, <1>5 DEF Ordered, Span
<1> QED
  BY <1>5, <1>6, <1>7

(* Limits to be tuned between, and the size to start with, are blocks.     *)
LEMMA LimitsWhole ==
  ASSUME NEW d \in Dirs, NEW buffering, NEW m \in {"disk", "tape", "tty", "fifo"},
         NEW size \in Nat
  PROVE  LET l == Limits(d, buffering, "tuned", m, size)
         IN  Whole(l.low, m) /\ Whole(l.high, m) /\ Whole(l.cache, m)
<1> DEFINE block == IF size = 0 THEN Blk(m) ELSE RoundUp(size, Blk(m))
           set == IF buffering = "none" THEN Span(0, 0, 0, 0)
                  ELSE IF m = "tape" THEN Span(block, block, IntMax, block)
                  ELSE IF size > 0 THEN Span(0, block, block, block)
                  ELSE IF d = "r" THEN Span(0, 4 * block, block, block)
                  ELSE Span(0, 8 * block, 2 * block, 2 * block)
           Blocks(l) == Whole(l.low, m) /\ Whole(l.high, m) /\ Whole(l.cache, m)
<1>1. Blk(m) \in Nat \ {0}
  BY BlkPositive
<1>2. ASSUME NEW q \in Int
      PROVE  Whole(Blk(m) * q, m)
  BY DEF Whole
<1>3. PICK q \in Int : block = Blk(m) * q
  <2>1. size + Blk(m) - 1 \in Int
    BY <1>1
  <2>2. (size + Blk(m) - 1) \div Blk(m) \in Int
    BY <1>1, <2>1
  <2>3. block = Blk(m) * 1
          \/ block = Blk(m) * ((size + Blk(m) - 1) \div Blk(m))
    BY <1>1 DEF RoundUp
  <2> QED
    BY <2>2, <2>3
<1> HIDE DEF block
<1>4. /\ 0 = Blk(m) * 0 /\ 2 * block = Blk(m) * (2 * q)
      /\ 4 * block = Blk(m) * (4 * q) /\ 8 * block = Blk(m) * (8 * q)
  BY <1>1, <1>3
<1>5. /\ Whole(0, m) /\ Whole(block, m) /\ Whole(2 * block, m)
      /\ Whole(4 * block, m) /\ Whole(8 * block, m)
  BY <1>2, <1>3, <1>4
<1>6. Limits(d, buffering, "tuned", m, size)
        = IF m = "disk" /\ EnvBlkSize > 0
          THEN Span(EnvBlkSize, EnvBlkSize, set.big, EnvBlkSize)
          ELSE set
  BY DEF Limits, block
<1>7. Blocks(set)
  BY <1>5 DEF Span
<1>8. m = "disk" /\ EnvBlkSize > 0 => Whole(EnvBlkSize, m)
  <2> SUFFICES ASSUME m = "disk" /\ EnvBlkSize > 0
               PROVE  EnvBlkSize = Blk(m) * 1
    BY <1>2
  <2> QED
    BY TuneAssumption DEF Blk
<1> HIDE DEF set
<1> QED
  BY <1>6, <1>7, <1>8 DEF Span
-----------------------------------------------------------------------------
(* The tuner                                                               *)

(* A step of the tuner is a number of blocks.                              *)
LEMMA WholeStep ==
  ASSUME TuneInv, NEW n, Whole(n, media), NEW step \in Int
  PROVE  Whole(n + step * Mod, media) /\ Whole(n - step * Mod, media)
<1>1. Mod \in Nat \ {0} /\ Mod = Blk(media)
  BY BlkPositive DEF TuneInv, Mod
<1>2. PICK q \in Int : n = Blk(media) * q
  BY DEF Whole
<1> DEFINE b == Blk(media)
<1> HIDE DEF b
<1>3. b \in Nat /\ b = Mod
  BY <1>1 DEF b
<1>4. /\ b * q + step * b = b * (q + step)
      /\ b * q - step * b = b * (q - step)
  BY <1>3
<1>5. q + step \in Int /\ q - step \in Int
  OBVIOUS
<1> QED
  BY <1>2, <1>3, <1>4, <1>5 DEF Whole, b

(* What Grown and Shrunk change.                                           *)
Sized(c, d, n, e) == [c EXCEPT !.cache[d] = n, !.delta = e]

(* A size within its limits and a step within the span may be recorded.    *)
LEMMA Resized ==
  ASSUME TuneInv, NEW c, Tuned(c), NEW d \in Dirs,
         NEW n \in Int, NEW e \in Int,
         setup.lim[d].low <= n, n <= setup.lim[d].high,
         Mod * Size(e) <= Width, setup.kind = "tuned" => Whole(n, media)
  PROVE  Tuned(Sized(c, d, n, e)) /\ Sized(c, d, n, e).mode = c.mode
<1> DEFINE x == Sized(c, d, n, e)
<1>1. HasSizes(c)
  BY DEF Tuned
<1>2. /\ DOMAIN x = DOMAIN c
      /\ x.mode = c.mode
      /\ x.delta = e
      /\ x.cache = [c.cache EXCEPT ![d] = n]
  BY <1>1 DEF HasSizes, Sized
<1>3. c.cache \in [Dirs -> Int]
  BY <1>1 DEF HasSizes
<1> HIDE DEF x
<1>4. HasSizes(x)
  BY <1>1, <1>2 DEF HasSizes
<1>5. \A b \in Dirs : x.cache[b] = IF b = d THEN n ELSE c.cache[b]
  BY <1>2, <1>3
<1>6. Tuned(x)
  BY <1>2, <1>4, <1>5 DEF Tuned
<1> QED
  BY <1>2, <1>6 DEF x

(* Growing goes no further than the maximum, and takes its step back when  *)
(* it stops there.                                                         *)
LEMMA GrownTuned ==
  ASSUME TuneInv, NEW c, Tuned(c), NEW d \in Dirs
  PROVE  Tuned(Grown(c, d)) /\ Grown(c, d).mode = c.mode
<1> DEFINE step == IF c.delta > 0 THEN 2 * c.delta
                   ELSE IF c.delta < 0 THEN (- c.delta) \div 2 ELSE 1
           next == c.cache[d] + step * Mod
           lim == setup.lim[d]
<1>1. Mod \in Nat \ {0}
  BY BlkPositive DEF TuneInv, Mod
<1>2. c.delta \in Int /\ c.cache \in [Dirs -> Int] /\ HasSizes(c)
  BY DEF Tuned, HasSizes
<1>3. step \in Nat
  BY <1>2, HalfNat
<1>4. step * Mod \in Nat /\ step * Mod = Mod * step
  BY <1>1, <1>3, TimesNat
<1>5. Ordered(lim) /\ lim.high - lim.low <= Width /\ Width \in Int
  BY DEF TuneInv, Ordered, Dirs, Width, Greater
<1>6. lim.low <= c.cache[d] /\ c.cache[d] <= lim.high
  BY DEF Tuned
<1>7. CASE next > lim.high
  <2> DEFINE half == (step - 1) \div 2
  <2>1. Grown(c, d) = Sized(c, d, lim.high, half)
    BY <1>7 DEF Grown, Sized
  <2>2. half \in Int /\ Size(half) \in Nat /\ Size(half) <= Size(c.delta)
    <3>1. CASE step = 0
      BY <1>2, <3>1 DEF Size
    <3>2. CASE step # 0
      BY <1>2, <1>3, <3>2 DEF Size
    <3> QED
      BY <3>1, <3>2
  <2>3. Mod * Size(half) <= Mod * Size(c.delta)
    <3>1. Size(c.delta) \in Nat
      BY <1>2 DEF Size
    <3> QED
      BY <1>1, <2>2, <3>1, TimesLeq
  <2> QED
    <3>1. lim.high \in Int /\ lim.low <= lim.high
      BY <1>5 DEF Ordered
    <3>2. Mod * Size(half) <= Width
      <4>1. Mod * Size(c.delta) <= Width /\ Size(c.delta) \in Nat
        BY <1>2 DEF Tuned, Size
      <4>2. Mod * Size(half) \in Nat /\ Mod * Size(c.delta) \in Nat
        BY <1>1, <2>2, <4>1, TimesNat
      <4> HIDE DEF half
      <4> QED
        BY <1>5, <2>3, <4>1, <4>2
    <3>3. setup.kind = "tuned" => Whole(lim.high, media)
      BY DEF TuneInv
    <3> HIDE DEF half, step, next
    <3> QED
      BY <2>1, <2>2, <3>1, <3>2, <3>3, Resized
<1>8. CASE ~ (next > lim.high)
  <2>1. Grown(c, d) = Sized(c, d, next, step)
    BY <1>8 DEF Grown, Sized
  <2>2. lim.low <= next /\ next <= lim.high /\ next \in Int
    BY <1>2, <1>4, <1>5, <1>6, <1>8 DEF Ordered
  <2>3. Mod * Size(step) <= Width
    BY <1>2, <1>3, <1>4, <1>5, <1>6, <2>2 DEF Size, Ordered
  <2>4. step \in Int
    BY <1>3
  <2>5. setup.kind = "tuned" => Whole(next, media)
    BY <2>4, WholeStep DEF Tuned
  <2> HIDE DEF step, next
  <2> QED
    BY <2>1, <2>2, <2>3, <2>4, <2>5, Resized
<1> QED
  BY <1>7, <1>8

(* Shrinking goes no further than the minimum, likewise.                   *)
LEMMA ShrunkTuned ==
  ASSUME TuneInv, NEW c, Tuned(c), NEW d \in Dirs
  PROVE  Tuned(Shrunk(c, d)) /\ Shrunk(c, d).mode = c.mode
<1> DEFINE step == IF c.delta < 0 THEN 2 * (- c.delta)
                   ELSE IF c.delta > 0 THEN c.delta \div 2 ELSE 1
           next == c.cache[d] - step * Mod
           lim == setup.lim[d]
<1>1. Mod \in Nat \ {0}
  BY BlkPositive DEF TuneInv, Mod
<1>2. c.delta \in Int /\ c.cache \in [Dirs -> Int] /\ HasSizes(c)
  BY DEF Tuned, HasSizes
<1>3. step \in Nat
  BY <1>2, HalfNat
<1>4. step * Mod \in Nat /\ step * Mod = Mod * step
  BY <1>1, <1>3, TimesNat
<1>5. Ordered(lim) /\ lim.high - lim.low <= Width /\ Width \in Int
  BY DEF TuneInv, Ordered, Dirs, Width, Greater
<1>6. lim.low <= c.cache[d] /\ c.cache[d] <= lim.high
  BY DEF Tuned
<1>7. CASE next < lim.low
  <2> DEFINE half == - ((step - 1) \div 2)
  <2>1. Shrunk(c, d) = Sized(c, d, lim.low, half)
    BY <1>7 DEF Shrunk, Sized
  <2>2. half \in Int /\ Size(half) \in Nat /\ Size(half) <= Size(c.delta)
    <3>1. CASE step = 0
      BY <1>2, <3>1 DEF Size
    <3>2. CASE step # 0
      BY <1>2, <1>3, <3>2 DEF Size
    <3> QED
      BY <3>1, <3>2
  <2>3. Mod * Size(half) <= Width
    <3>1. Mod * Size(c.delta) <= Width /\ Size(c.delta) \in Nat
      BY <1>2 DEF Tuned, Size
    <3>2. Mod * Size(half) <= Mod * Size(c.delta)
      BY <1>1, <2>2, <3>1, TimesLeq
    <3>3. Mod * Size(half) \in Nat /\ Mod * Size(c.delta) \in Nat
      BY <1>1, <2>2, <3>1, TimesNat
    <3> HIDE DEF half
    <3> QED
      BY <1>5, <3>1, <3>2, <3>3
  <2>4. lim.low \in Int /\ lim.low <= lim.high
    BY <1>5 DEF Ordered
  <2>5. setup.kind = "tuned" => Whole(lim.low, media)
    BY DEF TuneInv
  <2> HIDE DEF half
  <2> QED
    BY <2>1, <2>2, <2>3, <2>4, <2>5, Resized
<1>8. CASE ~ (next < lim.low)
  <2>1. Shrunk(c, d) = Sized(c, d, next, - step)
    BY <1>8 DEF Shrunk, Sized
  <2>2. lim.low <= next /\ next <= lim.high /\ next \in Int
    BY <1>2, <1>4, <1>5, <1>6, <1>8 DEF Ordered
  <2>3. Mod * Size(- step) <= Width
    BY <1>2, <1>3, <1>4, <1>5, <1>6, <2>2 DEF Size, Ordered
  <2>4. - step \in Int
    BY <1>3
  <2>5. setup.kind = "tuned" => Whole(next, media)
    BY <1>3, WholeStep DEF Tuned
  <2> HIDE DEF step, next
  <2> QED
    BY <2>1, <2>2, <2>3, <2>4, <2>5, Resized
<1> QED
  BY <1>7, <1>8

(* So GIO_tune_read and GIO_tune_write keep the limits.                    *)
LEMMA TuneTuned ==
  ASSUME TuneInv, NEW c, Tuned(c), NEW d \in Dirs, NEW n
  PROVE  Tuned(Tune(c, d, n)) /\ Tune(c, d, n).mode = c.mode
BY GrownTuned, ShrunkTuned DEF Tune
-----------------------------------------------------------------------------
(* The transfers                                                           *)

(* What is recorded of a transfer does not move the sizes.                 *)
Same(x, c) ==
  /\ DOMAIN x = DOMAIN c
  /\ x.mode = c.mode /\ x.cache = c.cache /\ x.delta = c.delta

LEMMA SameTuned ==
  ASSUME NEW c, Tuned(c), NEW x, Same(x, c)
  PROVE  Tuned(x)
BY DEF Tuned, HasSizes, Same

(* Flushing keeps the limits.                                              *)
LEMMA FlushedTuned ==
  ASSUME TuneInv, NEW c, Tuned(c)
  PROVE  Tuned(Flushed(c))
<1>1. Tuned(FlushW(c))
  <2> DEFINE e == IF c.pending > 0 THEN Tune(c, "w", c.pending) ELSE c
  <2>1. Tuned(e)
    BY TuneTuned DEF Dirs
  <2> HIDE DEF e
  <2>2. Same([e EXCEPT !.pending = 0, !.room = 0, !.waste = 0], e)
    BY <2>1 DEF Tuned, HasSizes, Same
  <2>3. FlushW(c) = [e EXCEPT !.pending = 0, !.room = 0, !.waste = 0]
    BY DEF e, FlushW
  <2> QED
    BY <2>1, <2>2, <2>3, SameTuned
<1>2. Tuned(FlushR(c))
  <2> DEFINE e == Tune(c, "r", c.used)
  <2>1. Tuned(e)
    BY TuneTuned DEF Dirs
  <2> HIDE DEF e
  <2>2. Same([e EXCEPT !.len = 0, !.used = 0, !.waste = 0], e)
    BY <2>1 DEF Tuned, HasSizes, Same
  <2>3. FlushR(c) = [e EXCEPT !.len = 0, !.used = 0, !.waste = 0]
    BY DEF e, FlushR
  <2> QED
    BY <2>1, <2>2, <2>3, SameTuned
<1> QED
  BY <1>1, <1>2 DEF Flushed

(* Flushing does not change direction.                                     *)
LEMMA FlushedMode ==
  ASSUME TuneInv, NEW c, Tuned(c)
  PROVE  Flushed(c).mode = c.mode
<1>1. FlushW(c).mode = c.mode
  <2> DEFINE e == IF c.pending > 0 THEN Tune(c, "w", c.pending) ELSE c
  <2>1. Tuned(e) /\ e.mode = c.mode
    BY TuneTuned DEF Dirs
  <2> HIDE DEF e
  <2>2. FlushW(c) = [e EXCEPT !.pending = 0, !.room = 0, !.waste = 0]
    BY DEF e, FlushW
  <2> QED
    BY <2>1, <2>2 DEF Tuned, HasSizes
<1>2. FlushR(c).mode = c.mode
  <2> DEFINE e == Tune(c, "r", c.used)
  <2>1. Tuned(e) /\ e.mode = c.mode
    BY TuneTuned DEF Dirs
  <2> HIDE DEF e
  <2>2. FlushR(c) = [e EXCEPT !.len = 0, !.used = 0, !.waste = 0]
    BY DEF e, FlushR
  <2> QED
    BY <2>1, <2>2 DEF Tuned, HasSizes
<1> QED
  BY <1>1, <1>2 DEF Flushed

(* So does turning to the other direction, which starts delta afresh.      *)
LEMMA TurnedTuned ==
  ASSUME TuneInv, NEW c, Tuned(c), NEW d \in Dirs
  PROVE  Tuned(Turned(c, d)) /\ Turned(c, d).mode = d
<1>1. CASE c.mode = d
  BY <1>1 DEF Turned
<1>2. CASE c.mode # d
  <2> DEFINE e == Flushed(c)
             x == [e EXCEPT !.mode = d, !.delta = 0]
  <2>1. Tuned(e)
    BY FlushedTuned
  <2>2. Turned(c, d) = x
    BY <1>2 DEF Turned
  <2> HIDE DEF e
  <2>3. /\ DOMAIN x = DOMAIN e
        /\ x.cache = e.cache /\ x.delta = 0 /\ x.mode = d
    BY <2>1 DEF Tuned, HasSizes
  <2>4. Mod * Size(0) <= Width
    <3>1. Mod \in Nat \ {0}
      BY BlkPositive DEF TuneInv, Mod
    <3> QED
      BY <3>1 DEF Size, TuneInv, Ordered, Dirs, Width, Greater
  <2> HIDE DEF x
  <2>5. Tuned(x)
    BY <2>1, <2>3, <2>4 DEF Tuned, HasSizes
  <2> QED
    BY <2>2, <2>3, <2>5
<1> QED
  BY <1>1, <1>2

(* GIO_greadc_buf with nothing left to read in the cache.                  *)
LEMMA RefilledTuned ==
  ASSUME TuneInv, NEW c, Tuned(c), NEW n, NEW x \in Refilled(c, n)
  PROVE  Tuned(x) /\ x.mode = c.mode
<1> DEFINE e == Tune(c, "r", c.used)
           want == RoundUp(Greater(n, e.cache["r"]), Mod)
<1>1. Tuned(e) /\ e.mode = c.mode
  BY TuneTuned DEF Dirs
<1>2. \/ x = [e EXCEPT !.len = 0, !.used = 0, !.waste = -1]
      \/ \E m \in 0 .. want :
           x = [e EXCEPT !.len = m, !.used = Lesser(n, m), !.waste = m,
                         !.size_p = Greater(@, want)]
  BY DEF Refilled
<1> HIDE DEF e, want
<1>3. Same(x, e)
  BY <1>1, <1>2 DEF Tuned, HasSizes, Same
<1> QED
  BY <1>1, <1>3, SameTuned DEF Same

(* GIO_gwritec_buf with an empty cache.                                    *)
LEMMA StartedTuned ==
  ASSUME NEW c, Tuned(c), NEW n
  PROVE  Tuned(Started(c, n)) /\ Started(c, n).mode = c.mode
<1> DEFINE size == Greater(c.size_p, RoundUp(Greater(n, c.cache["w"]), Mod))
<1> HIDE DEF size
<1>1. \/ Started(c, n) = [c EXCEPT !.size_p = size, !.waste = size,
                                  !.pending = n, !.room = size - n]
      \/ Started(c, n) = [c EXCEPT !.waste = c.size_p, !.room = c.size_p,
                                  !.pending = 0]
      \/ Started(c, n) = [c EXCEPT !.pending = 0]
  BY DEF Started, size
<1>2. Same(Started(c, n), c)
  BY <1>1 DEF Tuned, HasSizes, Same
<1> QED
  BY <1>2, SameTuned DEF Same

(* GIO_gwritec_buf with bytes pending.                                     *)
LEMMA JoinedTuned ==
  ASSUME TuneInv, NEW c, Tuned(c), NEW n
  PROVE  Tuned(Joined(c, n)) /\ Joined(c, n).mode = c.mode
<1> DEFINE bigw == setup.lim["w"].big
           block == (Mod - (c.pending % Mod))
                      + (IF c.pending < bigw THEN bigw - c.pending ELSE 0)
           want == Lesser(Lesser(block, n), c.size_p - c.pending)
<1> HIDE DEF want
<1> DEFINE j == [c EXCEPT !.pending = @ + want, !.room = @ - want]
           u == Tune(j, "w", j.pending)
           e == [u EXCEPT !.pending = 0]
<1>1. Joined(c, n) = IF want = n /\ j.room # 0 THEN j ELSE Started(e, n - want)
  BY DEF Joined, want
<1>2. Same(j, c)
  BY DEF Tuned, HasSizes, Same
<1> HIDE DEF j
<1>3. Tuned(j) /\ j.mode = c.mode
  BY <1>2, SameTuned DEF Same
<1>4. Tuned(u) /\ u.mode = c.mode
  BY <1>3, TuneTuned DEF Dirs
<1> HIDE DEF u
<1>5. Same(e, u)
  BY <1>4 DEF Tuned, HasSizes, Same
<1> HIDE DEF e
<1>6. Tuned(e) /\ e.mode = c.mode
  BY <1>4, <1>5, SameTuned DEF Same
<1> QED
  BY <1>1, <1>3, <1>6, StartedTuned

(* GIO_greadb_buf, reading on behind what is left in the cache.            *)
LEMMA LengthenedTuned ==
  ASSUME TuneInv, NEW c, Tuned(c), NEW n, NEW x \in Lengthened(c, n)
  PROVE  Tuned(x) /\ x.mode = c.mode
<1> DEFINE e == Tune(c, "r", c.len)
<1>1. Tuned(e) /\ e.mode = c.mode
  BY TuneTuned DEF Dirs
<1>2. \E m, size :
        x = [e EXCEPT !.len = m, !.used = Lesser(n, m), !.waste = m,
                      !.size_p = size]
  BY DEF Lengthened
<1> HIDE DEF e
<1>3. Same(x, e)
  BY <1>1, <1>2 DEF Tuned, HasSizes, Same
<1> QED
  BY <1>1, <1>3, SameTuned DEF Same

(* GIO_gwriteb_buf without room for the bytes wanted.                      *)
LEMMA ExtendedTuned ==
  ASSUME TuneInv, NEW c, Tuned(c), NEW n
  PROVE  Tuned(Extended(c, n)) /\ Extended(c, n).mode = c.mode
<1> DEFINE whole == c.pending - (c.pending % Mod)
           w == [c EXCEPT !.waste = -1]
           u == Tune(w, "w", whole)
           e == IF whole > 0 /\ whole >= setup.lim["w"].low
                THEN [u EXCEPT !.pending = @ - whole] ELSE c
<1>1. PICK size, pending, room :
        Extended(c, n) = [e EXCEPT !.size_p = size, !.waste = size,
                                   !.pending = pending, !.room = room]
  BY DEF Extended
<1> HIDE DEF whole
<1>2. Tuned(w) /\ w.mode = c.mode
  <2>1. Same(w, c)
    BY DEF Tuned, HasSizes, Same
  <2> HIDE DEF w
  <2> QED
    BY <2>1, SameTuned DEF Same
<1> HIDE DEF w
<1>3. Tuned(u) /\ u.mode = c.mode
  BY <1>2, TuneTuned DEF Dirs
<1> HIDE DEF u
<1>4. Tuned(e) /\ e.mode = c.mode
  <2>1. Same([u EXCEPT !.pending = @ - whole], u)
    BY <1>3 DEF Tuned, HasSizes, Same
  <2> QED
    BY <1>3, <2>1, SameTuned DEF Same
<1> HIDE DEF e
<1>5. Same(Extended(c, n), e)
  BY <1>1, <1>4 DEF Tuned, HasSizes, Same
<1> QED
  BY <1>4, <1>5, SameTuned DEF Same

-----------------------------------------------------------------------------
(* The invariant                                                           *)

(* A stream starts with the sizes of nominal buffering and delta zero.     *)
LEMMA TuneInitInv == TuneInit => TuneInv
<1> SUFFICES ASSUME TuneInit PROVE TuneInv
  OBVIOUS
<1>1. media \in {"disk", "tape", "tty", "fifo"}
  BY TuneAssumption DEF TuneInit
<1>2. \A d \in Dirs : Ordered(setup.lim[d])
  BY <1>1, LimitsOrdered DEF TuneInit, Setup
<1>3. /\ DOMAIN t = {"mode", "cache", "delta", "waste", "len", "used",
                     "pending", "room", "size_p"}
      /\ t.cache = StartSizes(setup) /\ t.delta = 0
  BY DEF TuneInit
<1>4. HasSizes(t)
  BY <1>2, <1>3 DEF HasSizes, StartSizes, Ordered
<1>5. Mod * Size(0) <= Width
  <2>1. Mod \in Nat \ {0}
    BY <1>1, BlkPositive DEF Mod
  <2> QED
    BY <1>2, <2>1 DEF Size, Ordered, Dirs, Width, Greater
<1>6. setup.kind = "tuned"
        => \A d \in Dirs :
             /\ Whole(setup.lim[d].low, media) /\ Whole(setup.lim[d].high, media)
             /\ Whole(setup.lim[d].cache, media)
  BY <1>1, LimitsWhole DEF TuneInit, Setup
<1>7. Tuned(t)
  BY <1>2, <1>3, <1>4, <1>5, <1>6 DEF Tuned, StartSizes, Ordered
<1> QED
  BY <1>1, <1>2, <1>3, <1>6, <1>7 DEF TuneInv

(* gsetvbuf, which is refused once the stream has been used.               *)
LEMMA GsetvbufInv == TuneInv /\ Gsetvbuf => TuneInv'
<1> SUFFICES ASSUME TuneInv, Gsetvbuf PROVE TuneInv'
  OBVIOUS
<1>1. media' \in {"disk", "tape", "tty", "fifo"}
  BY DEF Gsetvbuf, TuneInv
<1>2. \A d \in Dirs : Ordered(setup'.lim[d])
  BY TuneAssumption, LimitsOrdered DEF Gsetvbuf, Setup, TuneInv
<1>3. /\ DOMAIN t' = DOMAIN t /\ t'.mode = t.mode
      /\ t'.cache = StartSizes(setup') /\ t'.delta = 0
  BY DEF Gsetvbuf, TuneInv, Tuned, HasSizes
<1>4. HasSizes(t')
  BY <1>2, <1>3 DEF HasSizes, StartSizes, Ordered, TuneInv, Tuned
<1>5. Mod' * Size(0) <= Width'
  <2>1. Mod' \in Nat \ {0}
    BY <1>1, BlkPositive DEF Mod, Gsetvbuf
  <2> QED
    BY <1>2, <2>1 DEF Size, Ordered, Dirs, Width, Greater
<1>6. setup'.kind = "tuned"
        => \A d \in Dirs :
             /\ Whole(setup'.lim[d].low, media')
             /\ Whole(setup'.lim[d].high, media')
             /\ Whole(setup'.lim[d].cache, media')
  BY <1>1, TuneAssumption, LimitsWhole DEF Gsetvbuf, Setup, TuneInv
<1>7. Tuned(t)'
  BY <1>2, <1>3, <1>4, <1>5, <1>6 DEF Tuned, StartSizes, Ordered
<1> QED
  BY <1>1, <1>2, <1>3, <1>6, <1>7 DEF TuneInv

(* A transfer leaves Tuned counts and a direction, and the limits alone.   *)
LEMMA TransferInv ==
  ASSUME TuneInv, UNCHANGED <<media, setup>>,
         NEW x, t' = x, Tuned(x), x.mode = "idle" => x.delta = 0
  PROVE  TuneInv'
BY DEF TuneInv, Tuned, HasSizes, Ordered, Mod, Blk, Width

(* greadc, with what is in the cache or by refilling it.                   *)
LEMMA ReadInv ==
  ASSUME TuneInv, NEW n, Read(n)
  PROVE  TuneInv'
<1> DEFINE c == Turned(t, "r")
           left == c.len - c.used
<1>1. Tuned(c) /\ c.mode = "r"
  BY TurnedTuned DEF TuneInv, Dirs
<1>2. UNCHANGED <<media, setup>>
  BY DEF Read
<1>3. \/ t' = [c EXCEPT !.used = @ + n]
      \/ t' \in Refilled([c EXCEPT !.used = c.len], n - left)
  BY DEF Read
<1> HIDE DEF c
<1>4. CASE t' = [c EXCEPT !.used = @ + n]
  <2>1. Same(t', c)
    BY <1>1, <1>4 DEF Tuned, HasSizes, Same
  <2> QED
    BY <1>1, <1>2, <2>1, SameTuned, TransferInv DEF Same
<1>5. CASE t' \in Refilled([c EXCEPT !.used = c.len], n - left)
  <2> DEFINE e == [c EXCEPT !.used = c.len]
  <2>1. Same(e, c)
    BY <1>1 DEF Tuned, HasSizes, Same
  <2>2. t' \in Refilled(e, n - left)
    BY <1>5
  <2> HIDE DEF e, left
  <2>3. Tuned(e) /\ e.mode = "r"
    BY <1>1, <2>1, SameTuned DEF Same
  <2>4. PICK x \in Refilled(e, n - left) : t' = x
    BY <2>2
  <2>5. Tuned(x) /\ x.mode = "r"
    BY <2>3, RefilledTuned
  <2> QED
    BY <1>2, <2>4, <2>5, TransferInv
<1> QED
  BY <1>3, <1>4, <1>5

(* gwritec, into the room there is, past what is pending or afresh.        *)
LEMMA WriteInv ==
  ASSUME TuneInv, NEW n, Write(n)
  PROVE  TuneInv'
<1> DEFINE c == Turned(t, "w")
           x == [c EXCEPT !.pending = @ + n, !.room = @ - n]
<1>1. Tuned(c) /\ c.mode = "w"
  BY TurnedTuned DEF TuneInv, Dirs
<1>2. UNCHANGED <<media, setup>>
  BY DEF Write
<1>3. t' = x \/ t' = Joined(c, n) \/ t' = Started(c, n)
  BY DEF Write
<1> HIDE DEF c
<1>4. Tuned(x) /\ x.mode = "w"
  <2>1. Same(x, c)
    BY <1>1 DEF Tuned, HasSizes, Same
  <2> HIDE DEF x
  <2> QED
    BY <1>1, <2>1, SameTuned DEF Same
<1>5. Tuned(Joined(c, n)) /\ Joined(c, n).mode = "w"
  BY <1>1, JoinedTuned
<1>6. Tuned(Started(c, n)) /\ Started(c, n).mode = "w"
  BY <1>1, StartedTuned
<1> HIDE DEF x
<1> QED
  BY <1>2, <1>3, <1>4, <1>5, <1>6, TransferInv

(* greadb, with what is in the cache or by reading on behind it.           *)
LEMMA ReadPointerInv ==
  ASSUME TuneInv, NEW n, ReadPointer(n)
  PROVE  TuneInv'
<1> DEFINE c == Turned(t, "r")
<1>1. Tuned(c) /\ c.mode = "r"
  BY TurnedTuned DEF TuneInv, Dirs
<1>2. UNCHANGED <<media, setup>>
  BY DEF ReadPointer
<1>3. t' = [c EXCEPT !.used = @ + n] \/ t' \in Lengthened(c, n)
  BY DEF ReadPointer
<1> HIDE DEF c
<1>4. CASE t' = [c EXCEPT !.used = @ + n]
  <2>1. Same(t', c)
    BY <1>1, <1>4 DEF Tuned, HasSizes, Same
  <2> QED
    BY <1>1, <1>2, <2>1, SameTuned, TransferInv DEF Same
<1>5. CASE t' \in Lengthened(c, n)
  <2>1. PICK x \in Lengthened(c, n) : t' = x
    BY <1>5
  <2>2. Tuned(x) /\ x.mode = "r"
    BY <1>1, LengthenedTuned
  <2> QED
    BY <1>2, <2>1, <2>2, TransferInv
<1> QED
  BY <1>3, <1>4, <1>5

(* gwriteb, into the room there is or after more has been made.            *)
LEMMA WritePointerInv ==
  ASSUME TuneInv, NEW n, WritePointer(n)
  PROVE  TuneInv'
<1> DEFINE c == Turned(t, "w")
           e == IF c.pending = 0
                THEN [c EXCEPT !.room = c.size_p, !.waste = c.size_p] ELSE c
           Taken(y) == [y EXCEPT !.pending = @ + n, !.room = @ - n]
<1>1. Tuned(c) /\ c.mode = "w"
  BY TurnedTuned DEF TuneInv, Dirs
<1>2. UNCHANGED <<media, setup>>
  BY DEF WritePointer
<1>3. t' = Taken(c) \/ t' = Taken(e) \/ t' = Extended(e, n)
  BY DEF WritePointer
<1> HIDE DEF c
<1>4. Tuned(e) /\ e.mode = "w"
  <2>1. Same(e, c)
    BY <1>1 DEF Tuned, HasSizes, Same
  <2> HIDE DEF e
  <2> QED
    BY <1>1, <2>1, SameTuned DEF Same
<1> HIDE DEF e
<1>5. ASSUME NEW y, Tuned(y), y.mode = "w"
      PROVE  Tuned(Taken(y)) /\ Taken(y).mode = "w"
  <2>1. Same(Taken(y), y)
    BY <1>5 DEF Tuned, HasSizes, Same
  <2> HIDE DEF Taken
  <2> QED
    BY <1>5, <2>1, SameTuned DEF Same
<1>6. Tuned(Extended(e, n)) /\ Extended(e, n).mode = "w"
  BY <1>4, ExtendedTuned
<1> HIDE DEF Taken
<1> QED
  BY <1>1, <1>2, <1>3, <1>4, <1>5, <1>6, TransferInv

(* gunread's turn, seeks inside the read cache and flushes.                *)
LEMMA OtherInv ==
  ASSUME TuneInv, Unread \/ SeekInside \/ FlushCall
  PROVE  TuneInv'
<1> DEFINE e == Flushed(t)
<1>0. Tuned(t)
  BY DEF TuneInv
<1>1. Tuned(e)
  BY <1>0, FlushedTuned
<1>2. UNCHANGED <<media, setup>>
  BY DEF Unread, SeekInside, FlushCall
<1>3. CASE Unread
  <2> DEFINE x == [e EXCEPT !.mode = "r"]
  <2>1. t' = x
    BY <1>3 DEF Unread
  <2> HIDE DEF e
  <2>2. /\ DOMAIN x = DOMAIN e
        /\ x.cache = e.cache /\ x.delta = e.delta /\ x.mode = "r"
    BY <1>1 DEF Tuned, HasSizes
  <2> HIDE DEF x
  <2>3. Tuned(x)
    BY <1>1, <2>2 DEF Tuned, HasSizes
  <2> QED
    BY <1>2, <2>1, <2>2, <2>3, TransferInv
<1>4. CASE SeekInside
  <2>1. Same(t', t) /\ t.mode = "r"
    BY <1>0, <1>4 DEF SeekInside, Tuned, HasSizes, Same
  <2> QED
    BY <1>0, <1>2, <2>1, SameTuned, TransferInv DEF Same
<1>5. CASE FlushCall
  <2>1. t' = e
    BY <1>5 DEF FlushCall
  <2>2. e.mode = "idle" => e.delta = 0
    <3>1. CASE t.mode = "idle"
      BY <3>1 DEF Flushed, TuneInv
    <3>2. CASE t.mode # "idle"
      BY <1>0, <3>2, FlushedMode
    <3> QED
      BY <3>1, <3>2
  <2> HIDE DEF e
  <2> QED
    BY <1>1, <1>2, <2>1, <2>2, TransferInv
<1> QED
  BY <1>3, <1>4, <1>5

(* The limits and the step bound, at every step.                           *)
LEMMA TuneInvariant == TuneSpec => []TuneInv
<1>1. TuneInv /\ [TuneNext]_tuneVars => TuneInv'
  <2> SUFFICES ASSUME TuneInv, [TuneNext]_tuneVars PROVE TuneInv'
    OBVIOUS
  <2>1. CASE Gsetvbuf
    BY <2>1, GsetvbufInv
  <2>2. CASE \E n \in Requests :
               Read(n) \/ Write(n) \/ ReadPointer(n) \/ WritePointer(n)
    BY <2>2, ReadInv, WriteInv, ReadPointerInv, WritePointerInv
  <2>3. CASE Unread \/ SeekInside \/ FlushCall
    BY <2>3, OtherInv
  <2>4. CASE UNCHANGED tuneVars
    BY <2>4, TransferInv DEF tuneVars, TuneInv
  <2> QED
    BY <2>1, <2>2, <2>3, <2>4 DEF TuneNext
<1> QED
  BY <1>1, TuneInitInv, PTL DEF TuneSpec

(* Whatever the block size, the requests and the settings, and however     *)
(* reading, writing and seeking alternate over the one delta they share,   *)
(* GIO_tune_read and GIO_tune_write keep each cache size within the limits *)
(* gsetvbuf has set for it.                                                *)
THEOREM TuneWithinLimits == TuneSpec => []CacheWithinLimits
<1>1. TuneInv => CacheWithinLimits
  BY DEF TuneInv, Tuned, CacheWithinLimits
<1> QED
  BY <1>1, TuneInvariant, PTL

(* The step, doubled at every flush while it pays, never exceeds the span  *)
(* of sizes: delta * mod stays within the range of the limits.             *)
THEOREM TuneDeltaBounded == TuneSpec => []DeltaWithinSpan
<1>1. TuneInv => DeltaWithinSpan
  BY DEF TuneInv, Tuned, DeltaWithinSpan, Size, Width
<1> QED
  BY <1>1, TuneInvariant, PTL

(* As long as the program leaves tuning on, every size the tuner comes to  *)
(* is a number of whole blocks: a cache that is filled from a block        *)
(* boundary on ends at one.                                                *)
THEOREM TuneWholeBlocks == TuneSpec => []WholeBlocks
<1>1. TuneInv => WholeBlocks
  <2> SUFFICES ASSUME TuneInv, setup.kind = "tuned", NEW d \in Dirs
               PROVE  t.cache[d] % Mod = 0
    BY DEF WholeBlocks
  <2>1. PICK q \in Int : t.cache[d] = Mod * q
    BY DEF TuneInv, Tuned, Whole, Mod
  <2>2. Mod \in Nat \ {0}
    BY BlkPositive DEF TuneInv, Mod
  <2> DEFINE b == Mod
  <2> HIDE DEF b
  <2>3. (b * q) % b = 0
    BY <2>2 DEF b
  <2> QED
    BY <2>1, <2>3 DEF b
<1> QED
  BY <1>1, TuneInvariant, PTL

-----------------------------------------------------------------------------
(* Caches that are not tuned                                               *)

(* Limits that leave the tuner nothing to do.                              *)
Pinned == setup.kind # "tuned" => \A d \in Dirs : setup.lim[d].low = setup.lim[d].high

(* Those gsetvbuf sets when the cache is not to be tuned.                  *)
LEMMA LimitsPinned ==
  ASSUME NEW d \in Dirs, NEW buffering, NEW kind, kind # "tuned",
         kind \in {"tuned", "non_tuned", "non_cache"}, NEW m, NEW size
  PROVE  Limits(d, buffering, kind, m, size).low
           = Limits(d, buffering, kind, m, size).high
<1> DEFINE c == IF size > 1 THEN size ELSE Blk(m)
           set == IF buffering = "none" THEN Span(0, 0, 0, 0)
                  ELSE IF kind = "non_cache" THEN Span(0, 0, IntMax, 0)
                  ELSE Span(c, c, IntMax, c)
<1>1. Limits(d, buffering, kind, m, size)
        = IF m = "disk" /\ EnvBlkSize > 0
          THEN Span(EnvBlkSize, EnvBlkSize, set.big, EnvBlkSize)
          ELSE set
  BY DEF Limits
<1> HIDE DEF c
<1>2. set.low = set.high
  BY DEF Span
<1> HIDE DEF set
<1> QED
  BY <1>1, <1>2 DEF Span

(* Only gsetvbuf sets limits.                                              *)
LEMMA PinnedStep ==
  ASSUME Pinned, [TuneNext]_tuneVars
  PROVE  Pinned'
<1>1. CASE Gsetvbuf
  <2>1. PICK how \in {"nominal", "full", "line", "none"},
             kind \in {"tuned", "non_tuned", "non_cache"}, size \in SizeArgs :
          setup' = Setup(how, kind, size, setup.genus, media)
    BY <1>1, Zenon DEF Gsetvbuf
  <2>2. /\ setup'.kind \in {"tuned", "non_tuned", "non_cache"}
        /\ setup'.lim =
             [d \in Dirs |-> Limits(d, ModeBuffer(how, setup.genus),
                                    setup'.kind, media, size)]
    BY <2>1 DEF Setup
  <2> QED
    BY <2>2, LimitsPinned DEF Pinned
<1>2. CASE UNCHANGED setup
  BY <1>2 DEF Pinned
<1> QED
  BY <1>1, <1>2 DEF TuneNext, Read, Write, ReadPointer, WritePointer, Unread,
     SeekInside, FlushCall, tuneVars

(* A cache that was set up not to be tuned (_IONON_TUNED or _IONON_CACHE   *)
(* given to gsetvbuf, GIO_BLKSIZE below zero) keeps its size whatever the  *)
(* transfers do: its limits are equal, and the size stays between them.    *)
THEOREM TuneNotTuned == TuneSpec => NotTunedKept
<1>1. TuneInit => Pinned
  <2> SUFFICES ASSUME TuneInit PROVE Pinned
    OBVIOUS
  <2>1. /\ setup.kind \in {"tuned", "non_cache"}
        /\ setup.lim =
             [d \in Dirs |-> Limits(d, ModeBuffer("nominal", "unknown"),
                                    setup.kind, media, 0)]
    BY DEF TuneInit, Setup
  <2> QED
    BY <2>1, LimitsPinned DEF Pinned
<1>2. ASSUME TuneInv, TuneInv', Pinned, setup' = setup, setup.kind # "tuned"
      PROVE  t'.cache = t.cache
  <2>0. \A d \in Dirs :
          /\ setup.lim[d].low = setup.lim[d].high /\ setup.lim[d].low \in Int
          /\ setup.lim[d].low <= t.cache[d] /\ t.cache[d] <= setup.lim[d].high
          /\ setup'.lim[d].low <= t'.cache[d]
          /\ t'.cache[d] <= setup'.lim[d].high
          /\ t.cache[d] \in Int /\ t'.cache[d] \in Int
    <3>1. \A d \in Dirs :
            /\ setup.lim[d].low = setup.lim[d].high /\ setup.lim[d].low \in Int
      BY <1>2 DEF TuneInv, Pinned, Ordered
    <3>2. \A d \in Dirs :
            /\ setup.lim[d].low <= t.cache[d] /\ t.cache[d] <= setup.lim[d].high
            /\ t.cache[d] \in Int
      BY <1>2 DEF TuneInv, Tuned, HasSizes
    <3>3. \A d \in Dirs :
            /\ setup'.lim[d].low <= t'.cache[d]
            /\ t'.cache[d] <= setup'.lim[d].high
            /\ t'.cache[d] \in Int
      BY <1>2 DEF TuneInv, Tuned, HasSizes
    <3> QED
      BY <3>1, <3>2, <3>3
  <2>1. \A d \in Dirs :
          /\ t.cache[d] = setup.lim[d].low
          /\ t'.cache[d] = setup.lim[d].low
    BY <1>2, <2>0
  <2>2. t.cache \in [Dirs -> Int] /\ t'.cache \in [Dirs -> Int]
    BY <1>2 DEF TuneInv, Tuned, HasSizes
  <2> QED
    BY <2>1, <2>2
<1>3. TuneInv /\ TuneInv' /\ Pinned /\ [TuneNext]_tuneVars
        => [setup' = setup /\ setup.kind # "tuned"
              => t'.cache = t.cache]_tuneVars
  BY <1>2
<1> QED
  BY <1>1, <1>3, PinnedStep, TuneInvariant, PTL DEF TuneSpec, NotTunedKept

-----------------------------------------------------------------------------
(* The buffers never overflow                                              *)

(* Membership in Counts, field by field.                                   *)
IsRecord(c) == c = [field \in DOMAIN c |-> c[field]]
HasCounts(c) ==
  /\ DOMAIN c = {"mode", "cache", "delta", "waste", "len", "used", "pending",
                 "room", "size_p"}
  /\ c.mode \in {"idle"} \cup Dirs
  /\ c.cache \in [Dirs -> Int]
  /\ c.delta \in Int /\ c.waste \in Int /\ c.len \in Int /\ c.used \in Int
  /\ c.pending \in Int /\ c.room \in Int /\ c.size_p \in Int

LEMMA CountsMember ==
  ASSUME NEW c, IsRecord(c), HasCounts(c)
  PROVE  c \in Counts
BY DEF Counts, IsRecord, HasCounts

(* All the room a write buffer has is counted, or none is: then the next   *)
(* write looks for it.  A stream that is read has no write buffer.         *)
Filling(c) ==
  /\ IsRecord(c)
  /\ HasCounts(c)
  /\ 0 <= c.used /\ c.used <= c.len
  /\ 0 <= c.pending /\ 0 <= c.room /\ 0 <= c.size_p
  /\ c.pending + c.room = c.size_p \/ (c.pending = 0 /\ c.room = 0)
  /\ c.mode # "w" => c.pending = 0 /\ c.room = 0

(* The tuner sees what is in the buffers and does not touch it.            *)
Alike(x, c) ==
  /\ IsRecord(x)
  /\ HasCounts(x)
  /\ x.mode = c.mode /\ x.waste = c.waste /\ x.len = c.len /\ x.used = c.used
  /\ x.pending = c.pending /\ x.room = c.room /\ x.size_p = c.size_p

LEMMA TuneAlike ==
  ASSUME TuneInv, NEW c, IsRecord(c), HasCounts(c), Tuned(c), NEW d \in Dirs,
         NEW n
  PROVE  Alike(Tune(c, d, n), c) /\ Tuned(Tune(c, d, n))
<1>1. ASSUME NEW m, NEW e, HasSizes(Sized(c, d, m, e))
      PROVE  Alike(Sized(c, d, m, e), c)
  <2> DEFINE x == Sized(c, d, m, e)
  <2>1. /\ x = [c EXCEPT !.cache = [@ EXCEPT ![d] = m], !.delta = e]
        /\ x.cache \in [Dirs -> Int] /\ x.delta \in Int
    BY <1>1 DEF Sized, HasSizes
  <2> HIDE DEF x
  <2>2. IsRecord(x)
    BY <2>1 DEF IsRecord
  <2> QED
    BY <2>1, <2>2 DEF Alike, HasCounts, x
<1>2. \E m, e : Grown(c, d) = Sized(c, d, m, e)
  BY DEF Grown, Sized
<1>3. \E m, e : Shrunk(c, d) = Sized(c, d, m, e)
  BY DEF Shrunk, Sized
<1>4. Alike(Grown(c, d), c)
  BY <1>1, <1>2, GrownTuned DEF Tuned
<1>5. Alike(Shrunk(c, d), c)
  BY <1>1, <1>3, ShrunkTuned DEF Tuned
<1>6. Alike(c, c)
  BY DEF Alike
<1> QED
  BY <1>4, <1>5, <1>6, TuneTuned DEF Tune

(* A flush leaves nothing in the buffers and no room counted.              *)
LEMMA FlushedFilling ==
  ASSUME TuneInv, NEW c, Tuned(c), Filling(c)
  PROVE  /\ Filling(Flushed(c))
         /\ Flushed(c).pending = 0 /\ Flushed(c).room = 0
         /\ Flushed(c).mode = c.mode
<1>1. IsRecord(c) /\ HasCounts(c)
  BY DEF Filling
<1>2. CASE c.mode = "w"
  <2> DEFINE e == IF c.pending > 0 THEN Tune(c, "w", c.pending) ELSE c
             x == [e EXCEPT !.pending = 0, !.room = 0, !.waste = 0]
  <2>1. Alike(e, c)
    BY <1>1, TuneAlike DEF Dirs, Alike
  <2>2. Flushed(c) = x
    BY <1>2 DEF Flushed, FlushW
  <2> HIDE DEF e
  <2>3. IsRecord(x)
    BY DEF IsRecord
  <2>4. Filling(x) /\ x.pending = 0 /\ x.room = 0 /\ x.mode = c.mode
    BY <2>1, <2>3 DEF Alike, Filling, HasCounts
  <2> QED
    BY <2>2, <2>4
<1>3. CASE c.mode = "r"
  <2> DEFINE e == Tune(c, "r", c.used)
             x == [e EXCEPT !.len = 0, !.used = 0, !.waste = 0]
  <2>1. Alike(e, c)
    BY <1>1, TuneAlike DEF Dirs
  <2>2. Flushed(c) = x
    BY <1>3 DEF Flushed, FlushR
  <2> HIDE DEF e
  <2>3. IsRecord(x)
    BY DEF IsRecord
  <2>4. Filling(x) /\ x.pending = 0 /\ x.room = 0 /\ x.mode = c.mode
    BY <1>3, <2>1, <2>3 DEF Alike, Filling, HasCounts
  <2> QED
    BY <2>2, <2>4
<1>4. CASE c.mode = "idle"
  BY <1>4 DEF Flushed, Filling
<1> QED
  BY <1>1, <1>2, <1>3, <1>4 DEF HasCounts, Dirs

(* So does turning, which finds the write buffer empty.                    *)
LEMMA TurnedFilling ==
  ASSUME TuneInv, NEW c, Tuned(c), Filling(c), NEW d \in Dirs
  PROVE  /\ Filling(Turned(c, d)) /\ Tuned(Turned(c, d))
         /\ Turned(c, d).mode = d
<1>1. Tuned(Turned(c, d)) /\ Turned(c, d).mode = d
  BY TurnedTuned
<1>2. CASE c.mode = d
  BY <1>1, <1>2 DEF Turned
<1>3. CASE c.mode # d
  <2> DEFINE e == Flushed(c)
             x == [e EXCEPT !.mode = d, !.delta = 0]
  <2>1. Filling(e) /\ e.pending = 0 /\ e.room = 0
    BY FlushedFilling
  <2>2. Turned(c, d) = x
    BY <1>3 DEF Turned
  <2> HIDE DEF e
  <2>3. IsRecord(x)
    BY DEF IsRecord
  <2>4. Filling(x)
    BY <2>1, <2>3 DEF Filling, HasCounts
  <2> QED
    BY <1>1, <2>2, <2>4
<1> QED
  BY <1>2, <1>3

(* A buffer of whole blocks holds what was asked of it.                    *)
LEMMA RoundUpHolds ==
  ASSUME NEW n \in Nat, NEW m \in Nat \ {0}
  PROVE  RoundUp(n, m) \in Nat /\ n <= RoundUp(n, m)
<1> DEFINE a == n + m - 1
<1>1. a = m * (a \div m) + (a % m) /\ a % m \in 0 .. m - 1 /\ a \div m \in Int
  OBVIOUS
<1>2. m * (a \div m) \in Int
  BY <1>1
<1> QED
  BY <1>1, <1>2, RoundUpNat DEF RoundUp

(* The read cache never holds more than it has used, plus what is left.    *)
LEMMA RefilledFilling ==
  ASSUME TuneInv, NEW c, Tuned(c), Filling(c), c.mode = "r", NEW n \in Nat,
         NEW x \in Refilled([c EXCEPT !.used = c.len], n)
  PROVE  Filling(x)
<1> DEFINE b == [c EXCEPT !.used = c.len]
           e == Tune(b, "r", b.used)
           want == RoundUp(Greater(n, e.cache["r"]), Mod)
<1>1. Same(b, c) /\ IsRecord(b) /\ HasCounts(b)
  BY DEF Filling, IsRecord, HasCounts, Same
<1>2. /\ b.mode = "r" /\ b.pending = 0 /\ b.room = 0
      /\ b.size_p = c.size_p
  BY DEF Filling, HasCounts
<1>3. x \in Refilled(b, n)
  OBVIOUS
<1> HIDE DEF b
<1>4. Alike(e, b)
  BY <1>1, SameTuned, TuneAlike DEF Dirs
<1>5. want \in Nat
  <2>1. Greater(n, e.cache["r"]) \in Nat
    BY <1>4 DEF Alike, HasCounts, Greater, Dirs
  <2> QED
    BY <2>1, RoundUpHolds, BlkPositive DEF TuneInv, Mod
<1>6. \/ x = [e EXCEPT !.len = 0, !.used = 0, !.waste = -1]
      \/ \E m \in 0 .. want :
           x = [e EXCEPT !.len = m, !.used = Lesser(n, m), !.waste = m,
                         !.size_p = Greater(@, want)]
  BY <1>3 DEF Refilled
<1> HIDE DEF e, want
<1>7. IsRecord(x)
  BY <1>6 DEF IsRecord
<1>8. /\ e.mode = "r" /\ e.pending = 0 /\ e.room = 0 /\ HasCounts(e)
      /\ 0 <= e.size_p
  BY <1>2, <1>4 DEF Filling, Alike
<1>9. CASE x = [e EXCEPT !.len = 0, !.used = 0, !.waste = -1]
  BY <1>7, <1>8, <1>9 DEF Filling, HasCounts
<1>10. ASSUME NEW m \in 0 .. want,
              x = [e EXCEPT !.len = m, !.used = Lesser(n, m), !.waste = m,
                            !.size_p = Greater(@, want)]
       PROVE  Filling(x)
  BY <1>5, <1>7, <1>8, <1>10 DEF Filling, HasCounts, Lesser, Greater
<1> QED
  BY <1>6, <1>9, <1>10

LEMMA LengthenedFilling ==
  ASSUME TuneInv, NEW c, Tuned(c), Filling(c), c.mode = "r", NEW n \in Nat,
         NEW x \in Lengthened(c, n)
  PROVE  Filling(x)
<1> DEFINE left == c.len - c.used
           e == Tune(c, "r", c.len)
           ahead == RoundUp(left + Greater(n - left, e.cache["r"]), Mod)
           want == IF e.cache["r"] = 0 THEN n ELSE ahead
<1>1. IsRecord(c) /\ HasCounts(c) /\ left \in Nat
  BY DEF Filling, HasCounts
<1>2. Alike(e, c)
  BY <1>1, TuneAlike DEF Dirs
<1>3. Mod \in Nat \ {0}
  BY BlkPositive DEF TuneInv, Mod
<1>4. want \in Nat /\ RoundUp(want, Mod) \in Nat
  <2>1. left + Greater(n - left, e.cache["r"]) \in Nat
    BY <1>1, <1>2 DEF Alike, HasCounts, Greater, Dirs
  <2> QED
    BY <1>3, <2>1, RoundUpHolds
<1>5. \E m \in left .. want :
        x = [e EXCEPT !.len = m, !.used = Lesser(n, m), !.waste = m,
                      !.size_p = IF @ < want THEN RoundUp(want, Mod) ELSE @]
  BY DEF Lengthened
<1> DEFINE up == RoundUp(want, Mod)
<1> HIDE DEF e, left, want, up
<1>6. PICK m \in left .. want :
        x = [e EXCEPT !.len = m, !.used = Lesser(n, m), !.waste = m,
                      !.size_p = IF @ < want THEN up ELSE @]
  BY <1>5 DEF up
<1>7. IsRecord(x)
  BY <1>6 DEF IsRecord
<1>8. up \in Nat
  BY <1>4 DEF up
<1> QED
  BY <1>1, <1>2, <1>4, <1>6, <1>7, <1>8
  DEF Filling, HasCounts, Alike, Lesser

(* A write that starts a buffer finds room for itself in it.               *)
LEMMA StartedFilling ==
  ASSUME TuneInv, NEW c, IsRecord(c), HasCounts(c), c.mode = "w",
         0 <= c.used, c.used <= c.len, 0 <= c.room, c.room <= c.size_p,
         NEW n \in Nat
  PROVE  Filling(Started(c, n))
<1> DEFINE up == RoundUp(Greater(n, c.cache["w"]), Mod)
           size == Greater(c.size_p, up)
           x == Started(c, n)
<1>1. up \in Nat /\ n <= up
  <2>1. Greater(n, c.cache["w"]) \in Nat /\ n <= Greater(n, c.cache["w"])
    BY DEF HasCounts, Greater, Dirs
  <2> DEFINE g == Greater(n, c.cache["w"])
  <2> HIDE DEF g
  <2>2. RoundUp(g, Mod) \in Nat /\ g <= RoundUp(g, Mod)
    BY <2>1, RoundUpHolds, BlkPositive DEF TuneInv, Mod, g
  <2> QED
    BY <2>1, <2>2 DEF g
<1> HIDE DEF up
<1>2. size \in Nat /\ n <= size
  BY <1>1 DEF HasCounts, Greater
<1>3. \/ x = [c EXCEPT !.size_p = size, !.waste = size, !.pending = n,
                       !.room = size - n]
      \/ x = [c EXCEPT !.waste = c.size_p, !.room = c.size_p, !.pending = 0]
      \/ c.size_p <= 0 /\ x = [c EXCEPT !.pending = 0]
  BY DEF Started, up, HasCounts
<1> HIDE DEF size, x
<1>4. IsRecord(x)
  BY <1>3 DEF IsRecord
<1>5. Filling(x)
  <2>1. CASE x = [c EXCEPT !.size_p = size, !.waste = size, !.pending = n,
                           !.room = size - n]
    BY <1>2, <1>4, <2>1 DEF Filling, HasCounts
  <2>2. CASE x = [c EXCEPT !.waste = c.size_p, !.room = c.size_p, !.pending = 0]
    BY <1>4, <2>2 DEF Filling, HasCounts
  <2>3. CASE c.size_p <= 0 /\ x = [c EXCEPT !.pending = 0]
    BY <1>4, <2>3 DEF Filling, HasCounts
  <2> QED
    BY <1>3, <2>1, <2>2, <2>3
<1> QED
  BY <1>5 DEF x

(* One that joins what is pending takes no more than there is room for.    *)
LEMMA JoinedFilling ==
  ASSUME TuneInv, NEW c, Tuned(c), Filling(c), c.mode = "w", c.pending > 0,
         NEW n \in Nat
  PROVE  Filling(Joined(c, n))
<1> DEFINE bigw == setup.lim["w"].big
           block == (Mod - (c.pending % Mod))
                      + (IF c.pending < bigw THEN bigw - c.pending ELSE 0)
           want == Lesser(Lesser(block, n), c.size_p - c.pending)
           j == [c EXCEPT !.pending = @ + want, !.room = @ - want]
           u == Tune(j, "w", j.pending)
           e == [u EXCEPT !.pending = 0]
<1>1. /\ c.pending \in Nat /\ c.room \in Nat
      /\ c.pending + c.room = c.size_p
  BY DEF Filling, HasCounts
<1>2. want \in Nat /\ want <= n /\ want <= c.room
  <2>1. Mod \in Nat \ {0}
    BY BlkPositive DEF TuneInv, Mod
  <2>2. bigw \in Int
    BY DEF TuneInv, Ordered, Dirs
  <2>3. c.pending % Mod \in 0 .. Mod - 1
    BY <1>1, <2>1
  <2>4. block \in Nat
    BY <1>1, <2>1, <2>2, <2>3
  <2> HIDE DEF block
  <2> QED
    BY <1>1, <2>4 DEF Lesser, Filling, HasCounts
<1>3. Joined(c, n) = IF want = n /\ j.room # 0 THEN j ELSE Started(e, n - want)
  BY DEF Joined
<1> HIDE DEF want
<1>4. IsRecord(j) /\ Same(j, c)
  BY DEF IsRecord, Filling, HasCounts, Same
<1>5. Filling(j) /\ j.mode = "w"
  BY <1>1, <1>2, <1>4 DEF Filling, HasCounts
<1> HIDE DEF j
<1>6. Alike(u, j)
  BY <1>4, <1>5, SameTuned, TuneAlike DEF Filling, Dirs
<1> HIDE DEF u
<1>7. IsRecord(e)
  BY DEF IsRecord
<1>8. /\ HasCounts(e) /\ e.mode = "w" /\ 0 <= e.used /\ e.used <= e.len
      /\ 0 <= e.room /\ e.room <= e.size_p
  BY <1>5, <1>6 DEF Filling, Alike, HasCounts
<1> HIDE DEF e
<1>9. n - want \in Nat
  BY <1>2
<1> QED
  BY <1>3, <1>5, <1>7, <1>8, <1>9, StartedFilling

(* gwriteb makes room for what is left of the buffer and for its bytes.    *)
LEMMA ExtendedFilling ==
  ASSUME TuneInv, NEW c, Tuned(c), Filling(c), c.mode = "w", NEW n \in Nat
  PROVE  Filling(Extended(c, n))
<1> DEFINE whole == c.pending - (c.pending % Mod)
           w == [c EXCEPT !.waste = -1]
           u == Tune(w, "w", whole)
           e == IF whole > 0 /\ whole >= setup.lim["w"].low
                THEN [u EXCEPT !.pending = @ - whole] ELSE c
           least == Greater(Greater(e.pending + n, e.cache["w"]),
                            MinBlocks * Mod)
           up == RoundUp(least, Mod)
           size == IF e.size_p < least THEN up ELSE e.size_p
           x == [e EXCEPT !.size_p = size, !.waste = size, !.pending = @ + n,
                          !.room = size - (e.pending + n)]
<1>1. Extended(c, n) = x
  BY DEF Extended
<1>2. Mod \in Nat \ {0}
  BY BlkPositive DEF TuneInv, Mod
<1>3. whole \in Nat /\ whole <= c.pending
  <2>1. c.pending \in Nat
    BY DEF Filling, HasCounts
  <2>2. c.pending % Mod \in 0 .. c.pending
    BY <1>2, <2>1
  <2> QED
    BY <2>1, <2>2
<1> HIDE DEF whole
<1>4. IsRecord(w) /\ Same(w, c)
  BY DEF IsRecord, Filling, HasCounts, Same
<1>5. HasCounts(w)
  BY DEF Filling, HasCounts
<1>6. Alike(u, w)
  BY <1>4, <1>5, SameTuned, TuneAlike DEF Dirs
<1>7. /\ HasCounts(u) /\ u.mode = "w" /\ 0 <= u.used /\ u.used <= u.len
      /\ u.pending = c.pending
  BY <1>6 DEF Alike, Filling, HasCounts
<1> HIDE DEF u
<1>8. /\ HasCounts(e) /\ e.mode = "w" /\ 0 <= e.used /\ e.used <= e.len
      /\ 0 <= e.pending
  BY <1>3, <1>7 DEF Filling, HasCounts
<1> HIDE DEF e
<1>9. least \in Nat /\ e.pending + n <= least
  <2>1. MinBlocks * Mod \in Nat
    BY <1>2, TuneAssumption, TimesNat
  <2> QED
    BY <1>8, <2>1 DEF HasCounts, Greater, Dirs
<1> HIDE DEF least
<1>10. up \in Nat /\ least <= up
  BY <1>2, <1>9, RoundUpHolds
<1> HIDE DEF up
<1>11. size \in Nat /\ e.pending + n <= size
  BY <1>8, <1>9, <1>10 DEF HasCounts
<1> HIDE DEF size
<1>12. IsRecord(x)
  BY DEF IsRecord
<1>13. Filling(x)
  BY <1>8, <1>11, <1>12 DEF Filling, HasCounts
<1> QED
  BY <1>1, <1>13

-----------------------------------------------------------------------------
(* Bytes taken from a cache or stored in it.                               *)
LEMMA TakenFilling ==
  ASSUME NEW c, Filling(c), NEW n \in Nat
  PROVE  /\ c.mode = "r" /\ n <= c.len - c.used
              => Filling([c EXCEPT !.used = @ + n])
         /\ c.mode = "w" /\ n <= c.room /\ 0 < c.room
              => Filling([c EXCEPT !.pending = @ + n, !.room = @ - n])
<1> DEFINE x == [c EXCEPT !.used = @ + n]
           y == [c EXCEPT !.pending = @ + n, !.room = @ - n]
<1>1. IsRecord(x) /\ IsRecord(y)
  BY DEF IsRecord
<1>2. ASSUME c.mode = "r", n <= c.len - c.used PROVE Filling(x)
  BY <1>1, <1>2 DEF Filling, HasCounts
<1>3. ASSUME c.mode = "w", n <= c.room, 0 < c.room PROVE Filling(y)
  BY <1>1, <1>3 DEF Filling, HasCounts
<1> QED
  BY <1>2, <1>3

LEMMA StepFilling ==
  ASSUME TuneInv, Filling(t), [TuneNext]_tuneVars
  PROVE  Filling(t)'
<1>1. Tuned(t)
  BY DEF TuneInv
<1>2. CASE Gsetvbuf
  <2>1. TuneInv'
    BY <1>2, GsetvbufInv
  <2>2. t' = [t EXCEPT !.cache = StartSizes(setup')]
    BY <1>2 DEF Gsetvbuf
  <2>3. IsRecord(t') /\ DOMAIN t' = DOMAIN t
    BY <2>2 DEF IsRecord
  <2> QED
    BY <2>1, <2>2, <2>3 DEF Filling, HasCounts, TuneInv, Tuned, HasSizes
<1>3. ASSUME NEW n \in Requests, Read(n)
      PROVE  Filling(t')
  <2> DEFINE c == Turned(t, "r")
             left == c.len - c.used
  <2>1. Filling(c) /\ Tuned(c) /\ c.mode = "r" /\ n \in Nat
    BY <1>1, TurnedFilling, TuneAssumption DEF Dirs
  <2>2. \/ n <= left /\ t' = [c EXCEPT !.used = @ + n]
        \/ ~ (n <= left) /\ t' \in Refilled([c EXCEPT !.used = c.len], n - left)
    BY <1>3 DEF Read
  <2> HIDE DEF c
  <2>3. left \in Nat
    BY <2>1 DEF Filling, HasCounts
  <2>4. ~ (n <= left) => n - left \in Nat
    BY <2>1, <2>3
  <2> QED
    BY <2>1, <2>2, <2>4, TakenFilling, RefilledFilling
<1>4. ASSUME NEW n \in Requests, ReadPointer(n)
      PROVE  Filling(t')
  <2> DEFINE c == Turned(t, "r")
  <2>1. Filling(c) /\ Tuned(c) /\ c.mode = "r" /\ n \in Nat
    BY <1>1, TurnedFilling, TuneAssumption DEF Dirs
  <2>2. \/ n <= c.len - c.used /\ t' = [c EXCEPT !.used = @ + n]
        \/ t' \in Lengthened(c, n)
    BY <1>4 DEF ReadPointer
  <2> HIDE DEF c
  <2> QED
    BY <2>1, <2>2, TakenFilling, LengthenedFilling
<1>5. ASSUME NEW n \in Requests, Write(n)
      PROVE  Filling(t')
  <2> DEFINE c == Turned(t, "w")
  <2>1. Filling(c) /\ Tuned(c) /\ c.mode = "w" /\ n \in Nat
    BY <1>1, TurnedFilling, TuneAssumption DEF Dirs
  <2>2. \/ c.room > n /\ t' = [c EXCEPT !.pending = @ + n, !.room = @ - n]
        \/ c.pending > 0 /\ t' = Joined(c, n)
        \/ t' = Started(c, n)
    BY <1>5 DEF Write
  <2> HIDE DEF c
  <2>3. c.room > n => n <= c.room /\ 0 < c.room
    BY <2>1 DEF Filling, HasCounts
  <2>4. /\ IsRecord(c) /\ HasCounts(c) /\ 0 <= c.used /\ c.used <= c.len
        /\ 0 <= c.room /\ c.room <= c.size_p
    BY <2>1 DEF Filling, HasCounts
  <2>5. c.room > n => Filling([c EXCEPT !.pending = @ + n, !.room = @ - n])
    BY <2>1, <2>3, TakenFilling
  <2>6. c.pending > 0 => Filling(Joined(c, n))
    BY <2>1, JoinedFilling
  <2>7. Filling(Started(c, n))
    BY <2>1, <2>4, StartedFilling
  <2> QED
    BY <2>2, <2>5, <2>6, <2>7
<1>6. ASSUME NEW n \in Requests, WritePointer(n)
      PROVE  Filling(t')
  <2> DEFINE c == Turned(t, "w")
             e == IF c.pending = 0
                  THEN [c EXCEPT !.room = c.size_p, !.waste = c.size_p] ELSE c
  <2>1. Filling(c) /\ Tuned(c) /\ c.mode = "w" /\ n \in Nat /\ n > 0
    BY <1>1, TurnedFilling, TuneAssumption DEF Dirs
  <2>2. \/ c.room > n /\ t' = [c EXCEPT !.pending = @ + n, !.room = @ - n]
        \/ e.room >= n /\ t' = [e EXCEPT !.pending = @ + n, !.room = @ - n]
        \/ t' = Extended(e, n)
    BY <1>6 DEF WritePointer
  <2> HIDE DEF c
  <2>3. IsRecord(e)
    BY <2>1 DEF IsRecord, Filling
  <2>4. Filling(e) /\ e.mode = "w" /\ Same(e, c)
    BY <2>1, <2>3 DEF Filling, HasCounts, Same
  <2> HIDE DEF e
  <2>5. /\ c.room > n => n <= c.room /\ 0 < c.room
        /\ e.room >= n => n <= e.room /\ 0 < e.room
    BY <2>1, <2>4 DEF Filling, HasCounts
  <2>6. c.room > n => Filling([c EXCEPT !.pending = @ + n, !.room = @ - n])
    BY <2>1, <2>5, TakenFilling
  <2>7. e.room >= n => Filling([e EXCEPT !.pending = @ + n, !.room = @ - n])
    BY <2>1, <2>4, <2>5, TakenFilling
  <2>8. Filling(Extended(e, n))
    BY <2>1, <2>4, SameTuned, ExtendedFilling
  <2> QED
    BY <2>2, <2>6, <2>7, <2>8
<1>7. CASE Unread
  <2> DEFINE e == Flushed(t)
  <2>1. Filling(e) /\ e.pending = 0 /\ e.room = 0
    BY <1>1, FlushedFilling
  <2>2. t' = [e EXCEPT !.mode = "r"]
    BY <1>7 DEF Unread
  <2> HIDE DEF e
  <2>3. IsRecord(t')
    BY <2>2 DEF IsRecord
  <2> QED
    BY <2>1, <2>2, <2>3 DEF Filling, HasCounts, Dirs
<1>8. CASE SeekInside
  <2>1. PICK p \in 0 .. t.len :
          t' = [t EXCEPT !.waste = @ + p - t.used, !.used = p]
    BY <1>8 DEF SeekInside
  <2>2. IsRecord(t')
    BY <2>1 DEF IsRecord
  <2> QED
    BY <2>1, <2>2 DEF Filling, HasCounts
<1>9. CASE FlushCall
  BY <1>1, <1>9, FlushedFilling DEF FlushCall
<1>10. CASE UNCHANGED tuneVars
  BY <1>10 DEF tuneVars
<1> QED
  BY <1>2, <1>3, <1>4, <1>5, <1>6, <1>7, <1>8, <1>9, <1>10 DEF TuneNext

(* The write buffer never holds more than was allocated for it, and the    *)
(* room gwritec and gwriteb reckon with is really there, whatever sizes    *)
(* the tuner comes to; nor is more read from the cache than is in it.      *)
THEOREM TuneBuffersFit == TuneSpec => []TuneTypeOK
<1>1. TuneInit => Filling(t)
  <2> SUFFICES ASSUME TuneInit PROVE Filling(t)
    OBVIOUS
  <2>1. t = [mode |-> "idle", cache |-> StartSizes(setup), delta |-> 0,
             waste |-> 0, len |-> 0, used |-> 0, pending |-> 0, room |-> 0,
             size_p |-> 0]
    BY DEF TuneInit
  <2>2. StartSizes(setup) \in [Dirs -> Int]
    BY <2>1, TuneInitInv DEF TuneInv, Tuned, HasSizes
  <2> QED
    BY <2>1, <2>2 DEF Filling, HasCounts, IsRecord
<1>2. Filling(t) => TuneTypeOK
  BY CountsMember DEF Filling, HasCounts, TuneTypeOK
<1> QED
  BY <1>1, <1>2, StepFilling, TuneInvariant, PTL DEF TuneSpec
=============================================================================
