-------------------------- MODULE GioBufferProofs --------------------------
(***************************************************************************)
(* What a transfer does to a stream and its descriptor, for any contents,  *)
(* sizes and requests, when read() and write() do not fail and nothing is  *)
(* pushed back: a stream whose buffers are Good for its descriptor is left *)
(* Good by every function of GioBuffer.  For a descriptor that nobody else *)
(* writes to, what each function makes of the file and the position as the *)
(* application knows them: nothing, or what the call asks for.             *)
(***************************************************************************)
EXTENDS GioBuffer, TLAPS

(* The vacant space of the write buffer.                                   *)
Vacancy(b) == b.size_p - b.lead - Len(b.data)

(* count_w is this vacancy; it may be zero when nothing is pending.        *)
RoomKnown(b) ==
  /\ 0 <= Vacancy(b)
  /\ b.room = Vacancy(b) \/ (b.room = 0 /\ b.data = <<>>)

Sound(b) ==
  /\ DOMAIN b = {"mode", "can", "offset", "data", "used", "unread", "room",
                 "lead", "size_p", "buffered"}
  /\ b.mode \in {"idle", "read", "write"}
  /\ b.offset \in Nat
  /\ b.data \in Seq(Bytes)
  /\ b.used \in Nat /\ b.used <= Len(b.data)
  /\ b.unread = <<>>
  /\ b.room \in Int /\ b.lead \in Nat /\ b.size_p \in Nat
  /\ b.buffered \in BOOLEAN
  /\ b.mode # "read" => b.used = 0
  /\ b.mode = "idle" => b.data = <<>>
  /\ IF b.mode = "write" /\ b.buffered THEN RoomKnown(b) ELSE b.room = 0

Kernel(k) ==
  /\ DOMAIN k = {"bytes", "pos"}
  /\ k.bytes \in Seq(Bytes)
  /\ k.pos \in Nat

(* The descriptor is where gio_types.h says it is: past what has been read *)
(* ahead, or before what is to be written.                                 *)
InPlace(b, pos) ==
  "a" \in b.can \/ pos = b.offset + IF b.mode = "read" THEN Len(b.data) ELSE 0

Good(b, k) == Sound(b) /\ Kernel(k) /\ InPlace(b, k.pos)

(* An outcome of a function given b that is Good again.                    *)
Fits(o, b) ==
  /\ DOMAIN o = {"b", "k", "ok", "ret"}
  /\ Good(o.b, o.k)
  /\ o.b.can = b.can

LEMMA OutcomeFits ==
  ASSUME NEW b, NEW x, NEW k, NEW ok, NEW ret,
         Sound(x), Kernel(k), InPlace(x, k.pos), x.can = b.can
  PROVE  Fits(Outcome(x, k, ok, ret), b)
<1> DEFINE o == Outcome(x, k, ok, ret)
<1>1. DOMAIN o = {"b", "k", "ok", "ret"} /\ o.b = x /\ o.k = k
  BY DEF Outcome
<1> HIDE DEF o
<1> QED
  BY <1>1 DEF Fits, Good, o

-----------------------------------------------------------------------------
(* Bytes                                                                   *)

LEMMA FromType ==
  ASSUME NEW bs \in Seq(Bytes), NEW n \in 0 .. Len(bs)
  PROVE  From(bs, n) \in Seq(Bytes) /\ Len(From(bs, n)) = Len(bs) - n
BY DEF From

LEMMA UptoType ==
  ASSUME NEW bs \in Seq(Bytes), NEW n \in 0 .. Len(bs)
  PROVE  Upto(bs, n) \in Seq(Bytes) /\ Len(Upto(bs, n)) = n
BY DEF Upto

LEMMA JoinedType ==
  ASSUME NEW bs \in Seq(Bytes), NEW cs \in Seq(Bytes)
  PROVE  bs \o cs \in Seq(Bytes) /\ Len(bs \o cs) = Len(bs) + Len(cs)
OBVIOUS

LEMMA EmptyType ==
  /\ <<>> \in Seq(Bytes) /\ Len(<<>>) = 0
  /\ \A bs \in Seq(Bytes) : Len(bs) \in Nat /\ (bs = <<>> <=> Len(bs) = 0)
OBVIOUS

(* All of a sequence, and nothing of it.                                   *)
LEMMA AllType ==
  ASSUME NEW bs \in Seq(Bytes)
  PROVE  From(bs, Len(bs)) = <<>> /\ Upto(bs, Len(bs)) = bs
BY DEF From, Upto

LEMMA FunctionType ==
  ASSUME NEW n \in Nat, NEW f \in [1 .. n -> Bytes]
  PROVE  f \in Seq(Bytes)
OBVIOUS

LEMMA OverlayType ==
  ASSUME NEW bs \in Seq(Bytes), NEW pos \in Nat, NEW cs \in Seq(Bytes)
  PROVE  Overlay(bs, pos, cs) \in Seq(Bytes)
<1> DEFINE n == Greater(Len(bs), pos + Len(cs))
           f == [i \in 1 .. n |->
                   IF i > pos /\ i <= pos + Len(cs) THEN cs[i - pos]
                   ELSE IF i <= Len(bs) THEN bs[i] ELSE Zero]
<1>1. n \in Nat /\ Len(bs) \in Nat /\ Len(cs) \in Nat
  BY DEF Greater
<1>2. \A i \in 1 .. n : f[i] \in Bytes
  BY <1>1, BufferAssumption
<1>3. f \in [1 .. n -> Bytes]
  BY <1>2
<1>4. f \in Seq(Bytes)
  <2> HIDE DEF f, n
  <2> QED
    BY <1>1, <1>3, FunctionType
<1>5. Overlay(bs, pos, cs) = IF cs = <<>> THEN bs ELSE f
  BY DEF Overlay
<1> HIDE DEF f
<1> QED
  BY <1>4, <1>5

(* write() moves the descriptor past what it has written, unless it was    *)
(* opened to append.                                                       *)
LEMMA WrittenKernel ==
  ASSUME NEW b, NEW k, Kernel(k), NEW bs \in Seq(Bytes)
  PROVE  /\ Kernel(Written(b, k, bs))
         /\ "a" \notin b.can => Written(b, k, bs).pos = k.pos + Len(bs)
<1> DEFINE at == IF "a" \in b.can THEN Len(k.bytes) ELSE k.pos
<1>1. CASE bs = <<>>
  BY <1>1 DEF Written, Kernel
<1>2. CASE bs # <<>>
  <2>1. Written(b, k, bs) = [bytes |-> Overlay(k.bytes, at, bs),
                             pos |-> at + Len(bs)]
    BY <1>2 DEF Written
  <2>2. at \in Nat /\ ("a" \notin b.can => at = k.pos)
    BY DEF Kernel
  <2> HIDE DEF at
  <2>3. Overlay(k.bytes, at, bs) \in Seq(Bytes)
    BY <2>2, OverlayType DEF Kernel
  <2> DEFINE w == Written(b, k, bs)
  <2>4. /\ DOMAIN w = {"bytes", "pos"} /\ w.bytes = Overlay(k.bytes, at, bs)
        /\ w.pos = at + Len(bs)
    BY <2>1
  <2>5. at + Len(bs) \in Nat
    BY <2>2, EmptyType
  <2> HIDE DEF w
  <2> QED
    BY <2>2, <2>3, <2>4, <2>5 DEF Kernel, w
<1> QED
  BY <1>1, <1>2

(* read() never gets more than there is behind the descriptor.             *)
LEMMA AheadType ==
  ASSUME NEW k, Kernel(k), NEW n \in Nat, NEW m \in ReadCounts(k, n)
  PROVE  /\ m \in Nat /\ m <= n
         /\ Ahead(k, m) \in Seq(Bytes) /\ Len(Ahead(k, m)) = m
         /\ Kernel(Moved(k, k.pos + m)) /\ Moved(k, k.pos + m).pos = k.pos + m
<1>1. m \in Nat /\ m <= n /\ (k.pos + m <= Len(k.bytes) \/ m = 0)
  BY DEF ReadCounts, Lesser, Greater, Kernel
<1>2. Ahead(k, m) \in Seq(Bytes) /\ Len(Ahead(k, m)) = m
  BY <1>1 DEF Ahead, Kernel
<1>3. Kernel(Moved(k, k.pos + m)) /\ Moved(k, k.pos + m).pos = k.pos + m
  BY <1>1 DEF Kernel, Moved
<1> QED
  BY <1>1, <1>2, <1>3

-----------------------------------------------------------------------------
(* The flushes                                                             *)

(* A flush leaves nothing in the buffers and the stream where it was.      *)
Flushed(o, b) ==
  /\ Fits(o, b)
  /\ o.ok
  /\ o.b.data = <<>> /\ o.b.used = 0
  /\ o.b.offset = Getpos(b)
  /\ o.b.mode = b.mode /\ o.b.buffered = b.buffered

LEMMA GflushwFits ==
  ASSUME ~ IOErrors, NEW b, NEW k, Good(b, k), b.mode = "write",
         NEW o \in Gflushw(b, k)
  PROVE  Flushed(o, b)
<1> DEFINE m == Len(b.data)
           x == [b EXCEPT !.offset = @ + m, !.data = From(@, m),
                          !.lead = @ + m, !.room = 0]
           kx == Written(b, k, Upto(b.data, m))
<1>1. Sound(b) /\ Kernel(k) /\ InPlace(b, k.pos) /\ m \in Nat
  BY DEF Good, Sound
<1>2. o = Outcome(x, kx, TRUE, 0)
  BY DEF Gflushw, WriteCounts, Outcome
<1>3. /\ From(b.data, m) = <<>>
      /\ Upto(b.data, m) \in Seq(Bytes) /\ Len(Upto(b.data, m)) = m
  BY <1>1, AllType DEF Sound
<1>4. Kernel(kx) /\ ("a" \notin b.can => kx.pos = k.pos + m)
  <2> DEFINE bs == Upto(b.data, m)
  <2>1. bs \in Seq(Bytes) /\ Len(bs) = m
    BY <1>3
  <2> HIDE DEF bs, m
  <2>2. /\ Kernel(Written(b, k, bs))
        /\ "a" \notin b.can => Written(b, k, bs).pos = k.pos + Len(bs)
    BY <1>1, <2>1, WrittenKernel
  <2> QED
    BY <2>1, <2>2 DEF bs
<1> HIDE DEF kx
<1>5. /\ DOMAIN x = DOMAIN b /\ x.can = b.can /\ x.mode = "write"
      /\ x.offset = b.offset + m /\ x.data = <<>> /\ x.lead = b.lead + m
      /\ x.room = 0 /\ x.size_p = b.size_p /\ x.used = b.used
      /\ x.unread = b.unread /\ x.buffered = b.buffered
  BY <1>1, <1>3 DEF Sound
<1> HIDE DEF x
<1>6. Sound(x)
  BY <1>1, <1>5, EmptyType DEF Sound, RoomKnown, Vacancy
<1>7. InPlace(x, kx.pos)
  BY <1>1, <1>4, <1>5 DEF InPlace, Sound
<1>8. Getpos(b) = b.offset + m
  BY DEF Getpos
<1>9. x.used = 0
  BY <1>1, <1>5 DEF Sound
<1> QED
  <2>1. Fits(o, b)
    BY <1>2, <1>4, <1>5, <1>6, <1>7, OutcomeFits
  <2>2. o.b = x /\ o.ok
    BY <1>2 DEF Outcome
  <2> QED
    BY <1>5, <1>8, <1>9, <2>1, <2>2 DEF Flushed

LEMMA GflushrFits ==
  ASSUME NEW b, NEW k, Good(b, k), b.mode = "read", NEW o \in Gflushr(b, k)
  PROVE  Flushed(o, b)
<1> DEFINE x == [b EXCEPT !.offset = @ + b.used, !.data = <<>>, !.used = 0,
                          !.unread = <<>>, !.lead = 0]
           kx == IF Len(b.data) > b.used THEN Moved(k, b.offset + b.used) ELSE k
<1>1. Sound(b) /\ Kernel(k) /\ InPlace(b, k.pos)
  BY DEF Good
<1>2. o = Outcome(x, kx, TRUE, 0)
  BY DEF Gflushr
<1>3. b.used = Len(b.data) \/ Len(b.data) > b.used
  BY <1>1 DEF Sound
<1>4. Kernel(kx) /\ ("a" \notin b.can => kx.pos = b.offset + b.used)
  BY <1>1, <1>3 DEF Kernel, Moved, InPlace, Sound
<1> HIDE DEF kx
<1>5. /\ DOMAIN x = DOMAIN b /\ x.can = b.can /\ x.mode = "read"
      /\ x.offset = b.offset + b.used /\ x.data = <<>> /\ x.lead = 0
      /\ x.room = b.room /\ x.size_p = b.size_p /\ x.used = 0
      /\ x.unread = <<>> /\ x.buffered = b.buffered
  BY <1>1 DEF Sound
<1> HIDE DEF x
<1>6. Sound(x)
  BY <1>1, <1>5, EmptyType DEF Sound
<1>7. InPlace(x, kx.pos)
  BY <1>1, <1>4, <1>5, EmptyType DEF InPlace, Sound
<1>8. Getpos(b) = b.offset + b.used
  BY <1>1, EmptyType DEF Getpos, Sound
<1> QED
  <2>1. Fits(o, b)
    BY <1>2, <1>4, <1>5, <1>6, <1>7, OutcomeFits
  <2>2. o.b = x /\ o.ok
    BY <1>2 DEF Outcome
  <2> QED
    BY <1>5, <1>8, <2>1, <2>2 DEF Flushed

LEMMA GflushFits ==
  ASSUME ~ IOErrors, NEW b, NEW k, Good(b, k), NEW o \in Gflush(b, k)
  PROVE  Flushed(o, b)
<1>1. CASE b.mode = "write"
  BY <1>1, GflushwFits DEF Gflush
<1>2. CASE b.mode = "read"
  BY <1>2, GflushrFits DEF Gflush
<1>3. CASE b.mode = "idle"
  <2>1. o = Outcome(b, k, TRUE, 0)
    BY <1>3 DEF Gflush
  <2>2. b.data = <<>> /\ b.used = 0 /\ Getpos(b) = b.offset
    BY <1>3 DEF Good, Sound, Getpos
  <2> QED
    <3>1. Fits(o, b)
      BY <2>1, OutcomeFits DEF Good
    <3>2. o.b = b /\ o.ok
      BY <2>1 DEF Outcome
    <3> QED
      BY <2>2, <3>1, <3>2 DEF Flushed
<1> QED
  BY <1>1, <1>2, <1>3 DEF Good, Sound

(* Turned to reading or writing, a stream has its buffers for that.        *)
LEMMA TurnFits ==
  ASSUME ~ IOErrors, NEW b, NEW k, Good(b, k), NEW mode \in {"read", "write"},
         NEW o \in Turn(b, k, mode)
  PROVE  Fits(o, b) /\ o.ok /\ o.b.mode = mode /\ o.b.buffered = b.buffered
<1>1. CASE b.mode = mode
  <2>1. o = Outcome(b, k, TRUE, 0)
    BY <1>1 DEF Turn
  <2>2. Fits(o, b)
    BY <2>1, OutcomeFits DEF Good
  <2>3. o.b = b /\ o.ok
    BY <2>1 DEF Outcome
  <2> QED
    BY <1>1, <2>2, <2>3
<1>2. CASE b.mode # mode
  <2>1. PICK f \in Gflush(b, k) :
          o = IF f.ok
              THEN [f EXCEPT !.b = [@ EXCEPT !.mode = mode, !.data = <<>>,
                                             !.used = 0, !.room = 0, !.lead = 0]]
              ELSE f
    BY <1>2 DEF Turn
  <2>2. Flushed(f, b)
    BY GflushFits
  <2> DEFINE x == [f.b EXCEPT !.mode = mode, !.data = <<>>, !.used = 0,
                              !.room = 0, !.lead = 0]
  <2>3. o = [f EXCEPT !.b = x]
    BY <2>1, <2>2 DEF Flushed
  <2>4. /\ DOMAIN o = {"b", "k", "ok", "ret"}
        /\ o.b = x /\ o.k = f.k /\ o.ok
    BY <2>2, <2>3 DEF Flushed, Fits
  <2>5. Sound(f.b) /\ Kernel(f.k) /\ InPlace(f.b, f.k.pos) /\ f.b.data = <<>>
    BY <2>2 DEF Flushed, Fits, Good
  <2>6. /\ DOMAIN x = DOMAIN f.b /\ x.can = f.b.can /\ x.mode = mode
        /\ x.offset = f.b.offset /\ x.data = <<>> /\ x.lead = 0
        /\ x.room = 0 /\ x.size_p = f.b.size_p /\ x.used = 0
        /\ x.unread = f.b.unread /\ x.buffered = f.b.buffered
    BY <2>5 DEF Sound
  <2> HIDE DEF x
  <2>7. Sound(x)
    BY <2>5, <2>6, EmptyType DEF Sound, RoomKnown, Vacancy
  <2>8. InPlace(x, f.k.pos)
    BY <2>5, <2>6, EmptyType DEF InPlace, Sound
  <2> QED
    BY <2>2, <2>4, <2>5, <2>6, <2>7, <2>8 DEF Fits, Good, Flushed
<1> QED
  BY <1>1, <1>2

-----------------------------------------------------------------------------
(* Reading                                                                 *)

(* Rounding up to whole blocks gives a size.                               *)
LEMMA RoundUpSize ==
  ASSUME NEW n \in Nat
  PROVE  RoundUp(n) \in Nat /\ n <= RoundUp(n)
<1> DEFINE a == n + Mod - 1
<1>1. Mod \in Nat \ {0} /\ a \in Nat
  BY BufferAssumption
<1>2. a = Mod * (a \div Mod) + (a % Mod) /\ a % Mod \in 0 .. Mod - 1
      /\ a \div Mod \in Nat
  BY <1>1
<1>3. Mod * (a \div Mod) \in Nat
  BY <1>1, <1>2
<1> QED
  BY <1>1, <1>2, <1>3 DEF RoundUp

LEMMA ReadPlainFits ==
  ASSUME NEW b, NEW k, Good(b, k), b.mode = "read", NEW n \in Nat,
         NEW o \in ReadPlain(b, k, n)
  PROVE  Fits(o, b)
<1>1. Sound(b) /\ Kernel(k) /\ InPlace(b, k.pos) /\ b.unread = <<>>
  BY DEF Good, Sound
<1>2. PICK m \in ReadCounts(k, n) :
        o = Outcome([b EXCEPT !.offset = @ + m], Moved(k, k.pos + m), TRUE,
                    Ahead(k, m))
  BY <1>1 DEF ReadPlain
<1>3. /\ m \in Nat /\ Kernel(Moved(k, k.pos + m))
      /\ Moved(k, k.pos + m).pos = k.pos + m
  BY <1>1, AheadType
<1> DEFINE x == [b EXCEPT !.offset = @ + m]
           kx == Moved(k, k.pos + m)
<1>4. Sound(x) /\ x.can = b.can /\ InPlace(x, kx.pos)
  <2>1. /\ DOMAIN x = DOMAIN b /\ x.can = b.can /\ x.mode = "read"
        /\ x.offset = b.offset + m /\ x.data = b.data /\ x.lead = b.lead
        /\ x.room = b.room /\ x.size_p = b.size_p /\ x.used = b.used
        /\ x.unread = b.unread /\ x.buffered = b.buffered
    BY <1>1 DEF Sound
  <2> HIDE DEF x
  <2> QED
    BY <1>1, <1>3, <2>1, EmptyType DEF Sound, InPlace, Kernel
<1> HIDE DEF x, kx
<1> QED
  BY <1>2, <1>3, <1>4, OutcomeFits DEF x, kx

(* What the caches hold is taken from them.                                *)
LEMMA ConsumedGood ==
  ASSUME NEW b, NEW k, Good(b, k), b.mode = "read", NEW n \in Nat,
         n <= InCaches(b)
  PROVE  LET x == Consumed(b, n)
         IN  /\ Good(x, k) /\ x.can = b.can /\ x.mode = "read"
             /\ x.used = b.used + n /\ x.offset = b.offset /\ x.data = b.data
<1> DEFINE x == Consumed(b, n)
<1>1. Sound(b) /\ Kernel(k) /\ InPlace(b, k.pos) /\ b.unread = <<>>
  BY DEF Good, Sound
<1>2. Len(b.unread) = 0 /\ From(b.unread, 0) = <<>>
  BY <1>1, EmptyType, AllType
<1>3. x = [b EXCEPT !.unread = <<>>, !.used = @ + n]
  <2>1. Lesser(n, Len(b.unread)) = 0
    BY <1>2 DEF Lesser
  <2>2. b.used + n - 0 = b.used + n
    BY <1>1 DEF Sound
  <2> QED
    BY <1>2, <2>1, <2>2 DEF Consumed
<1>4. /\ DOMAIN x = DOMAIN b /\ x.can = b.can /\ x.mode = "read"
      /\ x.offset = b.offset /\ x.data = b.data /\ x.lead = b.lead
      /\ x.room = b.room /\ x.size_p = b.size_p /\ x.used = b.used + n
      /\ x.unread = <<>> /\ x.buffered = b.buffered
  BY <1>1, <1>3 DEF Sound
<1>5. b.used + n <= Len(b.data)
  BY <1>1, <1>2, EmptyType DEF InCaches, Sound
<1> HIDE DEF x
<1>6. Good(x, k)
  BY <1>1, <1>4, <1>5 DEF Good, Sound, InPlace
<1> QED
  BY <1>4, <1>6 DEF x

(* The cache is filled from where the last byte consumed was.              *)
LEMMA RefillFits ==
  ASSUME NEW b, NEW k, Good(b, k), b.mode = "read", b.used = Len(b.data),
         NEW n \in Nat, NEW got, NEW o \in Refill(b, k, n, got)
  PROVE  Fits(o, b)
<1> DEFINE e == [b EXCEPT !.offset = @ + b.used, !.data = <<>>, !.used = 0]
<1>1. Sound(b) /\ Kernel(k) /\ InPlace(b, k.pos)
  BY DEF Good
<1>2. /\ DOMAIN e = DOMAIN b /\ e.can = b.can /\ e.mode = "read"
      /\ e.offset = b.offset + b.used /\ e.data = <<>> /\ e.lead = b.lead
      /\ e.room = b.room /\ e.size_p = b.size_p /\ e.used = 0
      /\ e.unread = b.unread /\ e.buffered = b.buffered
  BY <1>1 DEF Sound
<1>3. PICK cache \in CachesR :
        o \in IF n >= BigR \/ cache = 0
              THEN {Outcome([e EXCEPT !.offset = @ + m], Moved(k, k.pos + m),
                            TRUE, got \o Ahead(k, m)) : m \in ReadCounts(k, n)}
              ELSE LET want == RoundUp(Greater(n, cache))
                   IN  {Outcome([e EXCEPT !.data = Ahead(k, m),
                                   !.used = Lesser(n, m), !.lead = 0,
                                   !.size_p = Greater(@, want)],
                                Moved(k, k.pos + m), TRUE,
                                got \o Ahead(k, Lesser(n, m))) :
                          m \in ReadCounts(k, want)}
  BY DEF Refill
<1> HIDE DEF e
<1>4. Sound(e) /\ ("a" \in e.can \/ k.pos = e.offset)
  BY <1>1, <1>2, EmptyType DEF Sound, InPlace
<1>5. CASE n >= BigR \/ cache = 0
  <2>1. PICK m \in ReadCounts(k, n) :
          o = Outcome([e EXCEPT !.offset = @ + m], Moved(k, k.pos + m), TRUE,
                      got \o Ahead(k, m))
    BY <1>3, <1>5
  <2>2. /\ m \in Nat /\ Kernel(Moved(k, k.pos + m))
        /\ Moved(k, k.pos + m).pos = k.pos + m
    BY <1>1, AheadType
  <2> DEFINE x == [e EXCEPT !.offset = @ + m]
             kx == Moved(k, k.pos + m)
  <2>3. /\ DOMAIN x = DOMAIN e /\ x.can = e.can /\ x.mode = "read"
        /\ x.offset = e.offset + m /\ x.data = <<>> /\ x.lead = e.lead
        /\ x.room = e.room /\ x.size_p = e.size_p /\ x.used = 0
        /\ x.unread = e.unread /\ x.buffered = e.buffered
    BY <1>2, <1>4 DEF Sound
  <2> HIDE DEF x
  <2>4. Sound(x) /\ x.can = b.can /\ InPlace(x, kx.pos)
    BY <1>1, <1>2, <1>4, <2>2, <2>3, EmptyType, SMTT(30) DEF Sound, InPlace, Kernel
  <2> HIDE DEF kx
  <2> QED
    BY <2>1, <2>2, <2>4, OutcomeFits DEF x, kx
<1>6. CASE ~ (n >= BigR \/ cache = 0)
  <2> DEFINE want == RoundUp(Greater(n, cache))
  <2>1. want \in Nat
    BY RoundUpSize, BufferAssumption DEF Greater
  <2>2. PICK m \in ReadCounts(k, want) :
          o = Outcome([e EXCEPT !.data = Ahead(k, m), !.used = Lesser(n, m),
                                !.lead = 0, !.size_p = Greater(@, want)],
                      Moved(k, k.pos + m), TRUE, got \o Ahead(k, Lesser(n, m)))
    BY <1>3, <1>6
  <2> HIDE DEF want
  <2>3. /\ m \in Nat /\ Kernel(Moved(k, k.pos + m))
        /\ Moved(k, k.pos + m).pos = k.pos + m
        /\ Ahead(k, m) \in Seq(Bytes) /\ Len(Ahead(k, m)) = m
    BY <1>1, <2>1, AheadType
  <2> DEFINE x == [e EXCEPT !.data = Ahead(k, m), !.used = Lesser(n, m),
                            !.lead = 0, !.size_p = Greater(@, want)]
             kx == Moved(k, k.pos + m)
  <2>4. /\ DOMAIN x = DOMAIN e /\ x.can = e.can /\ x.mode = "read"
        /\ x.offset = e.offset /\ x.data = Ahead(k, m) /\ x.lead = 0
        /\ x.room = e.room /\ x.size_p = Greater(e.size_p, want)
        /\ x.used = Lesser(n, m)
        /\ x.unread = e.unread /\ x.buffered = e.buffered
    BY <1>2, <1>4 DEF Sound
  <2>5. Greater(e.size_p, want) \in Nat /\ Lesser(n, m) \in Nat
        /\ Lesser(n, m) <= m
    BY <1>4, <2>1, <2>3 DEF Greater, Lesser, Sound
  <2> HIDE DEF x
  <2>6. Sound(x)
    BY <1>2, <1>4, <2>3, <2>4, <2>5 DEF Sound
  <2>7. InPlace(x, kx.pos) /\ x.can = b.can
    BY <1>1, <1>2, <1>4, <2>3, <2>4 DEF InPlace, Sound, Kernel
  <2> HIDE DEF kx
  <2> QED
    BY <2>2, <2>3, <2>6, <2>7, OutcomeFits DEF x, kx
<1> QED
  BY <1>5, <1>6

(* greadc, in either mode of buffering.                                    *)
LEMMA GreadcFits ==
  ASSUME ~ IOErrors, NEW b, NEW k, Good(b, k), NEW n \in Nat,
         NEW o \in Greadc(b, k, n)
  PROVE  Fits(o, b)
<1>1. CASE o = Outcome(b, k, FALSE, <<>>)
  BY <1>1, OutcomeFits DEF Good
<1>2. CASE o # Outcome(b, k, FALSE, <<>>)
  <2> DEFINE Part(r) ==
               IF ~ r.ok THEN {[r EXCEPT !.ret = <<>>]}
               ELSE IF ~ b.buffered THEN ReadPlain(r.b, r.k, n)
               ELSE IF n <= InCaches(r.b)
               THEN {Outcome(Consumed(r.b, n), r.k, TRUE, Served(r.b, n))}
               ELSE Refill(Consumed(r.b, InCaches(r.b)), r.k,
                           n - InCaches(r.b), Served(r.b, InCaches(r.b)))
  <2>1. PICK r \in Turn(b, k, "read") : o \in Part(r)
    <3>1. Greadc(b, k, n)
            = IF "r" \notin b.can /\ b.mode # "read"
              THEN {Outcome(b, k, FALSE, <<>>)}
              ELSE UNION {Part(r) : r \in Turn(b, k, "read")}
      BY DEF Greadc, Reading
    <3> HIDE DEF Part
    <3> QED
      BY <1>2, <3>1
  <2>2. Fits(r, b) /\ r.ok /\ r.b.mode = "read"
    BY TurnFits
  <2>3. Good(r.b, r.k) /\ r.b.can = b.can
    BY <2>2 DEF Fits
  <2>4. CASE ~ b.buffered
    <3>1. Fits(o, r.b)
      BY <2>1, <2>2, <2>3, <2>4, ReadPlainFits
    <3> QED
      BY <2>3, <3>1 DEF Fits
  <2>5. CASE b.buffered /\ n <= InCaches(r.b)
    <3>1. o = Outcome(Consumed(r.b, n), r.k, TRUE, Served(r.b, n))
      BY <2>1, <2>2, <2>5
    <3>2. Good(Consumed(r.b, n), r.k) /\ Consumed(r.b, n).can = b.can
      BY <2>2, <2>3, <2>5, ConsumedGood
    <3> QED
      BY <3>1, <3>2, OutcomeFits DEF Good
  <2>6. CASE b.buffered /\ ~ (n <= InCaches(r.b))
    <3> DEFINE have == InCaches(r.b)
               c == Consumed(r.b, have)
    <3>1. have \in Nat /\ have = Len(r.b.data) - r.b.used
      BY <2>3, EmptyType, SMTT(30) DEF Good, Sound, InCaches
    <3>2. /\ Good(c, r.k) /\ c.can = b.can /\ c.mode = "read"
          /\ c.used = r.b.used + have /\ c.data = r.b.data
      BY <2>2, <2>3, <3>1, ConsumedGood
    <3>3. o \in Refill(c, r.k, n - have, Served(r.b, have))
      BY <2>1, <2>2, <2>6
    <3>4. n - have \in Nat
      BY <2>6, <3>1
    <3> HIDE DEF c
    <3>5. c.used = Len(c.data)
      <4>1. r.b.used \in Nat /\ Len(r.b.data) \in Nat
        BY <2>3, EmptyType DEF Good, Sound
      <4> HIDE DEF have
      <4> QED
        BY <3>1, <3>2, <4>1
    <3> HIDE DEF have
    <3>6. Fits(o, c)
      BY <3>2, <3>3, <3>4, <3>5, RefillFits
    <3> QED
      BY <3>2, <3>6 DEF Fits
  <2> QED
    BY <2>4, <2>5, <2>6
<1> QED
  BY <1>1, <1>2

(* What is left in the cache moves to the front, with the bytes behind it. *)
LEMMA ReadBehindFits ==
  ASSUME NEW b, NEW k, Good(b, k), b.mode = "read", NEW n \in Nat,
         ~ (n <= InCaches(b)), NEW o \in ReadBehind(b, k, n)
  PROVE  Fits(o, b)
<1> DEFINE left == From(b.data, b.used)
           need == n - InCaches(b)
           Want(cache) == IF cache = 0 THEN need
                          ELSE RoundUp(Len(left) + Greater(need, cache))
                                 - Len(left)
           Size(cache) == Greater(b.size_p, RoundUp(Len(left) + Want(cache)))
           After(m, cache) ==
             LET all == left \o Ahead(k, m)
                 have == Lesser(n, Len(b.unread) + Len(all))
             IN  Outcome([b EXCEPT !.offset = @ + b.used, !.data = all,
                                   !.used = have - Len(b.unread),
                                   !.unread = <<>>, !.lead = 0,
                                   !.size_p = Size(cache)],
                         Moved(k, k.pos + m), TRUE,
                         Upto(b.unread \o all, have))
<1>1. /\ Sound(b) /\ Kernel(k) /\ InPlace(b, k.pos)
      /\ Len(b.unread) = 0
  BY EmptyType DEF Good, Sound
<1>2. left \in Seq(Bytes) /\ Len(left) = Len(b.data) - b.used
      /\ Len(left) \in Nat
  <2>1. b.data \in Seq(Bytes) /\ b.used \in 0 .. Len(b.data)
    BY <1>1, EmptyType DEF Sound
  <2>2. left \in Seq(Bytes) /\ Len(left) = Len(b.data) - b.used
    BY <2>1, FromType
  <2> HIDE DEF left
  <2> QED
    BY <2>2, EmptyType
<1>3. need \in Nat
  BY <1>1, EmptyType DEF InCaches, Sound
<1>4. ReadBehind(b, k, n)
        = UNION {{After(m, cache) : m \in ReadCounts(k, Want(cache))} :
                   cache \in CachesR}
  BY DEF ReadBehind
<1> HIDE DEF After
<1>5. PICK cache \in CachesR :
        \E m \in ReadCounts(k, Want(cache)) : o = After(m, cache)
  BY <1>4
<1>0. PICK m \in ReadCounts(k, Want(cache)) : o = After(m, cache)
  BY <1>5
<1> HIDE DEF left, need
<1>6. Want(cache) \in Nat /\ Size(cache) \in Nat
  <2>1. cache \in Nat
    BY BufferAssumption
  <2>2. Greater(need, cache) \in Nat
    BY <1>3, <2>1 DEF Greater
  <2>3. RoundUp(Len(left) + Greater(need, cache)) \in Nat
        /\ Len(left) + Greater(need, cache)
             <= RoundUp(Len(left) + Greater(need, cache))
    <3> DEFINE p == Len(left) + Greater(need, cache)
    <3>1. p \in Nat
      BY <1>2, <2>2
    <3> HIDE DEF p
    <3>2. RoundUp(p) \in Nat /\ p <= RoundUp(p)
      BY <3>1, RoundUpSize
    <3> QED
      BY <3>2 DEF p
  <2>4. Want(cache) \in Nat
    BY <1>2, <1>3, <2>2, <2>3
  <2> HIDE DEF Want
  <2>5. RoundUp(Len(left) + Want(cache)) \in Nat
    <3> DEFINE p == Len(left) + Want(cache)
    <3>1. p \in Nat
      BY <1>2, <2>4
    <3> HIDE DEF p
    <3>2. RoundUp(p) \in Nat
      BY <3>1, RoundUpSize
    <3> QED
      BY <3>2 DEF p
  <2> QED
    BY <1>1, <2>4, <2>5 DEF Greater, Sound
<1> DEFINE want == Want(cache)
           size == Size(cache)
           all == left \o Ahead(k, m)
           have == Lesser(n, Len(b.unread) + Len(all))
           x == [b EXCEPT !.offset = @ + b.used, !.data = all,
                          !.used = have - Len(b.unread),
                          !.unread = <<>>, !.lead = 0, !.size_p = size]
           kx == Moved(k, k.pos + m)
<1>7. o = Outcome(x, kx, TRUE, Upto(b.unread \o all, have))
  BY <1>0 DEF After
<1> HIDE DEF size
<1>8. want \in Nat /\ m \in ReadCounts(k, want) /\ size \in Nat
  BY <1>6 DEF size
<1> HIDE DEF want
<1>9. /\ m \in Nat /\ Kernel(kx) /\ kx.pos = k.pos + m
      /\ Ahead(k, m) \in Seq(Bytes) /\ Len(Ahead(k, m)) = m
  BY <1>1, <1>8, AheadType
<1>10. all \in Seq(Bytes) /\ Len(all) = Len(left) + m
  BY <1>2, <1>9, JoinedType
<1> HIDE DEF all
<1>11. have \in Nat /\ have <= Len(all) /\ have - Len(b.unread) = have
  BY <1>1, <1>2, <1>9, <1>10 DEF Lesser
<1> HIDE DEF have, kx
<1>12. /\ DOMAIN x = DOMAIN b /\ x.can = b.can /\ x.mode = "read"
       /\ x.offset = b.offset + b.used /\ x.data = all /\ x.lead = 0
       /\ x.room = b.room /\ x.size_p = size /\ x.used = have
       /\ x.unread = <<>> /\ x.buffered = b.buffered
  BY <1>1, <1>11 DEF Sound
<1> HIDE DEF x
<1>13. Sound(x)
  BY <1>1, <1>8, <1>10, <1>11, <1>12 DEF Sound
<1>14. InPlace(x, kx.pos)
  <2>1. CASE "a" \in b.can
    BY <1>12, <2>1 DEF InPlace
  <2>2. CASE "a" \notin b.can
    <3>1. k.pos = b.offset + Len(b.data)
      BY <1>1, <2>2 DEF InPlace
    <3>2. b.offset \in Nat /\ b.used \in Nat /\ Len(b.data) \in Nat
      BY <1>1, EmptyType DEF Sound
    <3> DEFINE held == Len(b.data)
               kept == Len(left)
    <3>3. kept = held - b.used /\ Len(x.data) = kept + m
      BY <1>2, <1>10, <1>12
    <3>4. held \in Nat /\ kept \in Nat /\ k.pos = b.offset + held
          /\ kx.pos = k.pos + m /\ x.offset = b.offset + b.used /\ m \in Nat
      BY <1>2, <1>9, <1>12, <3>1, <3>2
    <3> HIDE DEF held, kept
    <3>5. kx.pos = x.offset + Len(x.data)
      BY <3>2, <3>3, <3>4
    <3> QED
      BY <1>12, <3>5 DEF InPlace
  <2> QED
    BY <2>1, <2>2
<1> QED
  BY <1>7, <1>9, <1>12, <1>13, <1>14, OutcomeFits

(* greada, greadb and ggetc.                                               *)
LEMMA GreadbFits ==
  ASSUME ~ IOErrors, NEW b, NEW k, Good(b, k), NEW n \in Nat,
         NEW o \in Greadb(b, k, n)
  PROVE  Fits(o, b)
<1>1. CASE o = Outcome(b, k, FALSE, <<>>)
  BY <1>1, OutcomeFits DEF Good
<1>2. CASE o # Outcome(b, k, FALSE, <<>>)
  <2> DEFINE Part(r) ==
               IF ~ r.ok THEN {[r EXCEPT !.ret = <<>>]}
               ELSE IF ~ b.buffered THEN ReadPlain(r.b, r.k, n)
               ELSE IF n <= InCaches(r.b)
               THEN {Outcome(Consumed(r.b, n), r.k, TRUE, Served(r.b, n))}
               ELSE ReadBehind(r.b, r.k, n)
  <2>1. PICK r \in Turn(b, k, "read") : o \in Part(r)
    <3>1. Greadb(b, k, n)
            = IF "r" \notin b.can /\ b.mode # "read"
              THEN {Outcome(b, k, FALSE, <<>>)}
              ELSE UNION {Part(r) : r \in Turn(b, k, "read")}
      BY DEF Greadb, Reading
    <3> HIDE DEF Part
    <3> QED
      BY <1>2, <3>1
  <2>2. Fits(r, b) /\ r.ok /\ r.b.mode = "read"
    BY TurnFits
  <2>3. Good(r.b, r.k) /\ r.b.can = b.can
    BY <2>2 DEF Fits
  <2>4. CASE ~ b.buffered
    <3>1. Fits(o, r.b)
      BY <2>1, <2>2, <2>3, <2>4, ReadPlainFits
    <3> QED
      BY <2>3, <3>1 DEF Fits
  <2>5. CASE b.buffered /\ n <= InCaches(r.b)
    <3>1. o = Outcome(Consumed(r.b, n), r.k, TRUE, Served(r.b, n))
      BY <2>1, <2>2, <2>5
    <3>2. Good(Consumed(r.b, n), r.k) /\ Consumed(r.b, n).can = b.can
      BY <2>2, <2>3, <2>5, ConsumedGood
    <3> QED
      BY <3>1, <3>2, OutcomeFits DEF Good
  <2>6. CASE b.buffered /\ ~ (n <= InCaches(r.b))
    <3>1. o \in ReadBehind(r.b, r.k, n)
      BY <2>1, <2>2, <2>6
    <3>2. Fits(o, r.b)
      BY <2>2, <2>3, <2>6, <3>1, ReadBehindFits
    <3> QED
      BY <2>3, <3>2 DEF Fits
  <2> QED
    BY <2>4, <2>5, <2>6
<1> QED
  BY <1>1, <1>2

-----------------------------------------------------------------------------
(* Writing                                                                 *)

(* Without errors everything is written in one go.                         *)
LEMMA AllWritten ==
  ASSUME ~ IOErrors, NEW n
  PROVE  WriteCounts(n) = {n}
BY DEF WriteCounts

(* A stream turned to writing with nothing in its buffer.                  *)
LEMMA WriteEmptyFits ==
  ASSUME ~ IOErrors, NEW b, NEW k, Good(b, k), b.mode = "write", b.buffered,
         b.data = <<>>, NEW bs \in Seq(Bytes), NEW n,
         NEW o \in WriteEmpty(b, k, bs, n)
  PROVE  Fits(o, b)
<1>1. Sound(b) /\ Kernel(k) /\ InPlace(b, k.pos) /\ RoomKnown(b)
  BY DEF Good, Sound
<1>2. Len(bs) \in Nat /\ BigW \in Nat /\ b.used = 0
  BY <1>1, EmptyType, BufferAssumption DEF Sound
<1>3. CASE Len(bs) >= BigW
  <2> DEFINE m == Len(bs)
             x == [b EXCEPT !.offset = @ + m, !.lead = 0,
                            !.room = IF b.size_p > 0 THEN b.size_p ELSE @]
             kx == Written(b, k, Upto(bs, m))
  <2>1. o = Outcome(x, kx, m = m, n + m)
    BY <1>3, AllWritten, ZenonT(60) DEF WriteEmpty
  <2>2. Upto(bs, m) = bs
    BY AllType
  <2>3. Kernel(kx) /\ ("a" \notin b.can => kx.pos = k.pos + m)
    BY <1>1, <2>2, WrittenKernel
  <2> HIDE DEF kx
  <2>4. /\ DOMAIN x = DOMAIN b /\ x.can = b.can /\ x.mode = "write"
        /\ x.offset = b.offset + m /\ x.data = <<>> /\ x.lead = 0
        /\ x.room = IF b.size_p > 0 THEN b.size_p ELSE b.room
        /\ x.size_p = b.size_p /\ x.used = 0
        /\ x.unread = b.unread /\ x.buffered
    BY <1>1, <1>2 DEF Sound
  <2> HIDE DEF x
  <2>5. RoomKnown(x)
    BY <1>1, <2>4, EmptyType DEF RoomKnown, Vacancy, Sound
  <2>6. Sound(x)
    BY <1>1, <1>2, <2>4, <2>5, EmptyType DEF Sound
  <2>7. InPlace(x, kx.pos)
    BY <1>1, <1>2, <2>3, <2>4 DEF InPlace, Sound
  <2> QED
    BY <2>1, <2>3, <2>4, <2>6, <2>7, OutcomeFits
<1>4. CASE ~ (Len(bs) >= BigW)
  <2> DEFINE Size(cache) ==
               Greater(b.size_p, RoundUp(Greater(Len(bs), cache)))
             After(size) == [b EXCEPT !.data = bs, !.lead = 0, !.size_p = size,
                                      !.room = size - Len(bs)]
  <2>1. PICK cache \in CachesW :
          o = Outcome(After(Size(cache)), k, TRUE, n + Len(bs))
    BY <1>4 DEF WriteEmpty
  <2>2. Size(cache) \in Nat /\ Len(bs) <= Size(cache)
    <3> DEFINE p == Greater(Len(bs), cache)
    <3>1. p \in Nat /\ Len(bs) <= p
      BY <1>2, BufferAssumption DEF Greater
    <3> HIDE DEF p
    <3>2. RoundUp(p) \in Nat /\ p <= RoundUp(p)
      BY <3>1, RoundUpSize
    <3> QED
      BY <1>1, <1>2, <3>1, <3>2 DEF Greater, Sound, p
  <2> DEFINE size == Size(cache)
             x == After(size)
  <2>3. o = Outcome(x, k, TRUE, n + Len(bs))
    BY <2>1
  <2>4. size \in Nat /\ Len(bs) <= size
    BY <2>2
  <2> HIDE DEF size
  <2>5. /\ DOMAIN x = DOMAIN b /\ x.can = b.can /\ x.mode = "write"
        /\ x.offset = b.offset /\ x.data = bs /\ x.lead = 0
        /\ x.room = size - Len(bs) /\ x.size_p = size /\ x.used = 0
        /\ x.unread = b.unread /\ x.buffered
    BY <1>1, <1>2 DEF Sound
  <2> HIDE DEF x
  <2>6. RoomKnown(x)
    BY <1>2, <2>4, <2>5 DEF RoomKnown, Vacancy
  <2>7. Sound(x)
    BY <1>1, <1>2, <2>4, <2>5, <2>6 DEF Sound
  <2>8. InPlace(x, k.pos)
    BY <1>1, <2>5 DEF InPlace
  <2> QED
    BY <1>1, <2>3, <2>5, <2>7, <2>8, OutcomeFits
<1> QED
  BY <1>3, <1>4

(* The bytes that join those waiting fit in the room that is counted.      *)
LEMMA WriteBehindFits ==
  ASSUME ~ IOErrors, NEW b, NEW k, Good(b, k), b.mode = "write", b.buffered,
         b.data # <<>>, NEW bs \in Seq(Bytes), NEW o \in WriteBehind(b, k, bs)
  PROVE  Fits(o, b)
<1> DEFINE need == Len(b.data)
           block == (Mod - (need % Mod))
                      + (IF need < BigW THEN BigW - need ELSE 0)
           want == Lesser(Lesser(block, Len(bs)), b.size_p - (b.lead + need))
           all == b.data \o Upto(bs, want)
           c == [b EXCEPT !.data = all, !.room = b.room - want]
           F(m) == [c EXCEPT !.offset = @ + m, !.data = From(@, m),
                             !.lead = @ + m]
           Part(m) ==
             IF m < Len(all)
             THEN {Outcome(F(m), Written(b, k, Upto(all, m)), FALSE, want)}
             ELSE WriteEmpty(F(m), Written(b, k, all), From(bs, want), want)
<1>1. Sound(b) /\ Kernel(k) /\ InPlace(b, k.pos) /\ RoomKnown(b)
  BY DEF Good, Sound
<1>2. /\ need \in Nat /\ Len(bs) \in Nat /\ b.used = 0
      /\ b.room = b.size_p - b.lead - need /\ b.room \in Nat
      /\ b.lead \in Nat /\ b.size_p \in Nat
  BY <1>1, EmptyType DEF Sound, RoomKnown, Vacancy
<1>3. WriteBehind(b, k, bs)
        = IF want = Len(bs) /\ b.room - want # 0
          THEN {Outcome(c, k, TRUE, want)}
          ELSE UNION {Part(m) : m \in WriteCounts(Len(all))}
  BY DEF WriteBehind
<1>4. want \in Nat /\ want <= Len(bs) /\ want <= b.room
  <2> HIDE DEF need
  <2>1. block \in Nat
    BY <1>2, BufferAssumption
  <2> HIDE DEF block
  <2> QED
    BY <1>2, <2>1 DEF Lesser
<1> HIDE DEF want
<1>5. all \in Seq(Bytes) /\ Len(all) = need + want
  <2>1. Upto(bs, want) \in Seq(Bytes) /\ Len(Upto(bs, want)) = want
    BY <1>2, <1>4, UptoType
  <2> QED
    BY <1>1, <2>1, JoinedType DEF Sound
<1>6. /\ DOMAIN c = DOMAIN b /\ c.can = b.can /\ c.mode = "write"
      /\ c.offset = b.offset /\ c.data = all /\ c.lead = b.lead
      /\ c.room = b.room - want /\ c.size_p = b.size_p /\ c.used = 0
      /\ c.unread = b.unread /\ c.buffered
  BY <1>1, <1>2 DEF Sound
<1> HIDE DEF all, c, need
<1>7. Sound(c) /\ Good(c, k)
  <2>1. RoomKnown(c)
    BY <1>2, <1>4, <1>5, <1>6 DEF RoomKnown, Vacancy
  <2>2. Sound(c)
    BY <1>1, <1>2, <1>4, <1>5, <1>6, <2>1 DEF Sound
  <2> QED
    BY <1>1, <1>6, <2>2 DEF Good, InPlace
<1>8. CASE o = Outcome(c, k, TRUE, want)
  BY <1>6, <1>7, <1>8, OutcomeFits DEF Good
<1>9. CASE o # Outcome(c, k, TRUE, want)
  <2> DEFINE m == Len(all)
             f == F(m)
             kf == Written(b, k, all)
  <2>1. m \in Nat /\ WriteCounts(Len(all)) = {m}
    BY <1>2, <1>4, <1>5, AllWritten
  <2>2. o \in UNION {Part(n) : n \in WriteCounts(Len(all))}
    <3> HIDE DEF Part
    <3> QED
      BY <1>3, <1>9
  <2>3. o \in Part(m)
    <3> HIDE DEF Part
    <3> QED
      BY <2>1, <2>2
  <2>4. o \in WriteEmpty(f, kf, From(bs, want), want)
    <3>1. ~ (m < Len(all))
      BY <2>1
    <3> HIDE DEF F, m
    <3>2. Part(m) = WriteEmpty(F(m), Written(b, k, all), From(bs, want), want)
      BY <3>1
    <3> QED
      BY <2>3, <3>2
  <2>5. Kernel(kf) /\ ("a" \notin b.can => kf.pos = k.pos + m)
    <3>1. all \in Seq(Bytes)
      BY <1>5
    <3> HIDE DEF F, f, Part
    <3> QED
      BY <1>1, <3>1, WrittenKernel, SMTT(30)
  <2>6. /\ DOMAIN f = DOMAIN c /\ f.can = c.can /\ f.mode = "write"
        /\ f.offset = c.offset + m /\ f.data = From(c.data, m)
        /\ f.lead = c.lead + m /\ f.room = c.room
        /\ f.size_p = c.size_p /\ f.used = 0
        /\ f.unread = c.unread /\ f.buffered
    BY <1>6, <1>7 DEF Sound
  <2>7. f.data = <<>>
    BY <1>5, <1>6, <2>6, AllType
  <2> HIDE DEF f, kf, Part
  <2>8. Good(f, kf)
    <3>1. RoomKnown(f)
      <4>1. Len(f.data) = 0 /\ m = Len(c.data)
        BY <1>6, <2>7, EmptyType
      <4> QED
        BY <1>2, <1>4, <1>6, <2>1, <2>6, <2>7, <4>1, <1>5
           DEF RoomKnown, Vacancy
    <3>2. Sound(f)
      BY <1>7, <2>1, <2>6, <2>7, <3>1, EmptyType DEF Sound
    <3>3. InPlace(f, kf.pos)
      BY <1>1, <1>6, <2>1, <2>5, <2>6 DEF InPlace, Sound
    <3> QED
      BY <2>5, <3>2, <3>3 DEF Good
  <2>9. From(bs, want) \in Seq(Bytes)
    BY <1>2, <1>4, FromType
  <2>10. Fits(o, f)
    BY <2>4, <2>6, <2>7, <2>8, <2>9, WriteEmptyFits
  <2> QED
    BY <1>6, <2>6, <2>10 DEF Fits
<1> QED
  BY <1>8, <1>9

(* What gwriteb left in the buffer of a non-buffered stream is written.    *)
LEMMA WriteLeftFits ==
  ASSUME ~ IOErrors, NEW b, NEW k, Good(b, k), b.mode = "write", ~ b.buffered,
         NEW o \in WriteLeft(b, k)
  PROVE  /\ Fits(o, b) /\ o.b.mode = "write" /\ ~ o.b.buffered
         /\ o.b.data = <<>> /\ o.b.used = 0
<1> DEFINE m == Len(b.data)
           x == [b EXCEPT !.offset = @ + m,
                          !.data = IF m = 0 THEN @ ELSE <<>>,
                          !.lead = IF m = 0 THEN @ ELSE 0]
           kx == Written(b, k, Upto(b.data, m))
<1>1. Sound(b) /\ Kernel(k) /\ InPlace(b, k.pos)
  BY DEF Good
<1>2. m \in Nat /\ b.used = 0 /\ (m = 0 => b.data = <<>>)
  BY <1>1, EmptyType DEF Sound
<1>3. o = Outcome(x, kx, TRUE, 0)
  <2> DEFINE After(i) ==
               Outcome([b EXCEPT !.offset = @ + i,
                                 !.data = IF i = 0 THEN @ ELSE <<>>,
                                 !.lead = IF i = 0 THEN @ ELSE 0],
                       Written(b, k, Upto(b.data, i)), i = Len(b.data), 0)
  <2>1. WriteLeft(b, k) = {After(i) : i \in WriteCounts(Len(b.data))}
    BY DEF WriteLeft
  <2>2. After(m) = Outcome(x, kx, TRUE, 0)
    OBVIOUS
  <2> HIDE DEF After, x, kx
  <2>3. WriteCounts(Len(b.data)) = {m}
    BY AllWritten
  <2> HIDE DEF m
  <2>4. o = After(m)
    BY <2>1, <2>3
  <2> QED
    BY <2>2, <2>4
<1>4. Upto(b.data, m) = b.data
  BY <1>1, AllType DEF Sound
<1>5. Kernel(kx) /\ ("a" \notin b.can => kx.pos = k.pos + m)
  BY <1>1, <1>4, WrittenKernel DEF Sound
<1> HIDE DEF kx
<1>6. /\ DOMAIN x = DOMAIN b /\ x.can = b.can /\ x.mode = "write"
      /\ x.offset = b.offset + m /\ x.data = <<>>
      /\ x.lead = (IF m = 0 THEN b.lead ELSE 0)
      /\ x.room = b.room /\ x.size_p = b.size_p /\ x.used = 0
      /\ x.unread = b.unread /\ ~ x.buffered /\ x.buffered \in BOOLEAN
  BY <1>1, <1>2 DEF Sound
<1> HIDE DEF x, m
<1>7. Sound(x)
  BY <1>1, <1>2, <1>6, EmptyType DEF Sound
<1>8. InPlace(x, kx.pos)
  BY <1>1, <1>2, <1>5, <1>6 DEF InPlace, Sound
<1>9. Fits(o, b)
  BY <1>3, <1>5, <1>6, <1>7, <1>8, OutcomeFits
<1>10. o.b = x
  BY <1>3 DEF Outcome
<1> QED
  BY <1>6, <1>9, <1>10

LEMMA WritePlainFits ==
  ASSUME ~ IOErrors, NEW b, NEW k, Good(b, k), b.mode = "write", ~ b.buffered,
         NEW bs \in Seq(Bytes), NEW o \in WritePlain(b, k, bs)
  PROVE  Fits(o, b)
<1> DEFINE Part(r) ==
             IF ~ r.ok THEN {r}
             ELSE {Outcome([r.b EXCEPT !.offset = @ + m],
                           Written(r.b, r.k, Upto(bs, m)), m = Len(bs), m) :
                     m \in WriteCounts(Len(bs))}
<1>1. PICK r \in WriteLeft(b, k) : o \in Part(r)
  <2>1. WritePlain(b, k, bs) = UNION {Part(r) : r \in WriteLeft(b, k)}
    BY DEF WritePlain
  <2> HIDE DEF Part
  <2> QED
    BY <2>1
<1>2. /\ Fits(r, b) /\ r.b.mode = "write" /\ ~ r.b.buffered
      /\ r.b.data = <<>> /\ r.b.used = 0
  BY WriteLeftFits
<1>3. Sound(r.b) /\ Kernel(r.k) /\ InPlace(r.b, r.k.pos) /\ r.b.can = b.can
  BY <1>2 DEF Fits, Good
<1>4. CASE ~ r.ok
  BY <1>1, <1>2, <1>4
<1>5. CASE r.ok
  <2> DEFINE m == Len(bs)
             x == [r.b EXCEPT !.offset = @ + m]
             kx == Written(r.b, r.k, Upto(bs, m))
             After(i) == Outcome([r.b EXCEPT !.offset = @ + i],
                                 Written(r.b, r.k, Upto(bs, i)),
                                 i = Len(bs), i)
  <2>1. o = Outcome(x, kx, TRUE, m)
    <3>1. o \in {After(i) : i \in WriteCounts(Len(bs))}
      BY <1>1, <1>5
    <3>2. After(m) = Outcome(x, kx, TRUE, m)
      OBVIOUS
    <3> HIDE DEF After, x, kx
    <3>3. WriteCounts(Len(bs)) = {m}
      BY AllWritten
    <3> HIDE DEF m
    <3>4. o = After(m)
      BY <3>1, <3>3
    <3> QED
      BY <3>2, <3>4
  <2>2. m \in Nat /\ Upto(bs, m) = bs
    BY AllType, EmptyType
  <2>3. Kernel(kx) /\ ("a" \notin b.can => kx.pos = r.k.pos + m)
    <3> DEFINE w == Written(r.b, r.k, bs)
    <3>1. kx = w
      BY <2>2
    <3>2. Kernel(w) /\ ("a" \notin r.b.can => w.pos = r.k.pos + Len(bs))
      <4> DEFINE c == r.b
                 kc == r.k
      <4>1. Kernel(kc)
        BY <1>3
      <4> HIDE DEF c, kc, kx, x, m, After, Part
      <4>2. /\ Kernel(Written(c, kc, bs))
            /\ "a" \notin c.can => Written(c, kc, bs).pos = kc.pos + Len(bs)
        BY <4>1, WrittenKernel, ZenonT(60)
      <4> QED
        BY <4>2 DEF c, kc
    <3> HIDE DEF kx, w
    <3> QED
      BY <1>3, <3>1, <3>2
  <2> HIDE DEF kx, m, After
  <2>4. /\ DOMAIN x = DOMAIN r.b /\ x.can = b.can /\ x.mode = "write"
        /\ x.offset = r.b.offset + m /\ x.data = <<>> /\ x.lead = r.b.lead
        /\ x.room = r.b.room /\ x.size_p = r.b.size_p /\ x.used = 0
        /\ x.unread = r.b.unread /\ ~ x.buffered /\ x.buffered \in BOOLEAN
    BY <1>2, <1>3 DEF Sound
  <2> HIDE DEF x
  <2>5. Sound(x)
    BY <1>2, <1>3, <2>2, <2>4, EmptyType DEF Sound
  <2>6. InPlace(x, kx.pos)
    BY <1>2, <1>3, <2>2, <2>3, <2>4 DEF InPlace, Sound
  <2> QED
    BY <2>1, <2>3, <2>4, <2>5, <2>6, OutcomeFits
<1> QED
  BY <1>4, <1>5

(* Bytes for which room is counted are put behind those waiting.           *)
LEMMA StoredFits ==
  ASSUME NEW b, NEW k, Good(b, k), b.mode = "write", b.buffered,
         b.room = Vacancy(b), NEW bs \in Seq(Bytes), Len(bs) <= b.room
  PROVE  Fits(Stored(b, k, bs), b)
<1> DEFINE all == b.data \o bs
           x == [b EXCEPT !.data = all, !.room = @ - Len(bs)]
<1>1. Sound(b) /\ Kernel(k) /\ InPlace(b, k.pos)
  BY DEF Good
<1>2. b.data \in Seq(Bytes) /\ Len(b.data) \in Nat /\ Len(bs) \in Nat
      /\ b.used = 0
  BY <1>1, EmptyType DEF Sound
<1>3. all \in Seq(Bytes) /\ Len(all) = Len(b.data) + Len(bs)
  BY <1>2, JoinedType
<1> HIDE DEF all
<1>4. /\ DOMAIN x = DOMAIN b /\ x.can = b.can /\ x.mode = "write"
      /\ x.offset = b.offset /\ x.data = all /\ x.lead = b.lead
      /\ x.room = b.room - Len(bs) /\ x.size_p = b.size_p /\ x.used = 0
      /\ x.unread = b.unread /\ x.buffered
  BY <1>1, <1>2 DEF Sound
<1>5. Stored(b, k, bs) = Outcome(x, k, TRUE, Len(bs))
  BY DEF Stored, all
<1> HIDE DEF x
<1>6. RoomKnown(x)
  <2>1. b.size_p \in Nat /\ b.lead \in Nat
    BY <1>1 DEF Sound
  <2> QED
    BY <1>2, <1>3, <1>4, <2>1 DEF RoomKnown, Vacancy
<1>7. Sound(x)
  BY <1>1, <1>2, <1>3, <1>4, <1>6 DEF Sound
<1>8. InPlace(x, k.pos)
  BY <1>1, <1>4 DEF InPlace
<1> QED
  BY <1>1, <1>4, <1>5, <1>7, <1>8, OutcomeFits

(* gwritec, in either mode of buffering.                                   *)
LEMMA GwritecFits ==
  ASSUME ~ IOErrors, NEW b, NEW k, Good(b, k), NEW bs \in Seq(Bytes),
         NEW o \in Gwritec(b, k, bs)
  PROVE  Fits(o, b)
<1>1. CASE o = Outcome(b, k, FALSE, 0)
  BY <1>1, OutcomeFits DEF Good
<1>2. CASE o # Outcome(b, k, FALSE, 0)
  <2> DEFINE Part(r) ==
               IF ~ r.ok THEN {r}
               ELSE IF ~ b.buffered THEN WritePlain(r.b, r.k, bs)
               ELSE IF FastWrite(r.b, Len(bs))
               THEN {Outcome([r.b EXCEPT !.data = @ \o bs,
                                         !.room = @ - Len(bs)],
                             r.k, TRUE, Len(bs))}
               ELSE IF r.b.data # <<>> THEN WriteBehind(r.b, r.k, bs)
               ELSE WriteEmpty(r.b, r.k, bs, 0)
  <2>1. PICK r \in Turn(b, k, "write") : o \in Part(r)
    <3>1. Gwritec(b, k, bs)
            = IF "w" \notin b.can THEN {Outcome(b, k, FALSE, 0)}
              ELSE UNION {Part(r) : r \in Turn(b, k, "write")}
      BY DEF Gwritec
    <3> HIDE DEF Part
    <3> QED
      BY <1>2, <3>1
  <2>2. /\ Fits(r, b) /\ r.ok /\ r.b.mode = "write"
        /\ r.b.buffered = b.buffered
    BY TurnFits
  <2>3. Good(r.b, r.k) /\ r.b.can = b.can
    BY <2>2 DEF Fits
  <2>4. Fits(o, r.b)
    <3>1. CASE ~ b.buffered
      BY <2>1, <2>2, <2>3, <3>1, WritePlainFits
    <3>2. CASE b.buffered /\ FastWrite(r.b, Len(bs))
      <4>1. o = Stored(r.b, r.k, bs)
        BY <2>1, <2>2, <3>2 DEF Stored
      <4>2. r.b.room = Vacancy(r.b) /\ Len(bs) <= r.b.room
        <5> HIDE DEF Part
        <5>1. RoomKnown(r.b) /\ r.b.room \in Int
          BY <2>2, <2>3, <3>2 DEF Good, Sound
        <5>2. Len(bs) \in Nat /\ r.b.room # 0 /\ Len(bs) <= r.b.room
          <6>1. 0 <= r.b.room /\ Len(bs) \in Nat
            BY <5>1, EmptyType DEF RoomKnown
          <6> QED
            BY <3>2, <5>1, <6>1 DEF FastWrite
        <5> QED
          BY <5>1, <5>2 DEF RoomKnown
      <4> QED
        BY <2>2, <2>3, <3>2, <4>1, <4>2, StoredFits
    <3>3. CASE b.buffered /\ ~ FastWrite(r.b, Len(bs)) /\ r.b.data # <<>>
      BY <2>1, <2>2, <2>3, <3>3, WriteBehindFits
    <3>4. CASE b.buffered /\ ~ FastWrite(r.b, Len(bs)) /\ r.b.data = <<>>
      BY <2>1, <2>2, <2>3, <3>4, WriteEmptyFits
    <3> QED
      BY <3>1, <3>2, <3>3, <3>4
  <2> QED
    BY <2>3, <2>4 DEF Fits
<1> QED
  BY <1>1, <1>2

(* Room is made by writing blocks and by moving the rest to the front.     *)
LEMMA MakeRoomFits ==
  ASSUME ~ IOErrors, NEW b, NEW k, Good(b, k), b.mode = "write", b.buffered,
         NEW bs \in Seq(Bytes), NEW o \in MakeRoom(b, k, bs)
  PROVE  Fits(o, b)
<1> DEFINE whole == Len(b.data) - (Len(b.data) % Mod)
           out == IF whole >= MinW THEN whole ELSE 0
           F(m) == [b EXCEPT !.offset = @ + m, !.data = From(@, m),
                             !.lead = @ + m]
           K(m) == Written(b, k, Upto(b.data, m))
           Least(f) == Greater(Len(f.data) + Len(bs), MinBlocks * Mod)
           Size(f, cache) ==
             Greater(f.size_p, RoundUp(Greater(Least(f), cache)))
           Grown(f, size) == [f EXCEPT !.lead = 0, !.size_p = size,
                                       !.room = size - Len(f.data)]
           Part(m) ==
             IF m < out THEN {Outcome(F(m), K(m), FALSE, 0)}
             ELSE {Stored(Grown(F(m), Size(F(m), cache)), K(m), bs) :
                     cache \in CachesW}
<1>1. Sound(b) /\ Kernel(k) /\ InPlace(b, k.pos) /\ b.data \in Seq(Bytes)
  BY DEF Good, Sound
<1>2. out \in 0 .. Len(b.data) /\ Len(b.data) \in Nat /\ b.used = 0
  <2> DEFINE n == Len(b.data)
  <2>1. n \in Nat /\ Mod \in Nat \ {0} /\ MinW \in Nat
    BY <1>1, EmptyType, BufferAssumption
  <2>2. n % Mod \in 0 .. n
    <3> HIDE DEF n
    <3>1. n % Mod \in Nat /\ n \div Mod \in Nat
          /\ n = Mod * (n \div Mod) + (n % Mod)
      BY <2>1
    <3>2. Mod * (n \div Mod) \in Nat
      BY <2>1, <3>1
    <3> QED
      BY <2>1, <3>1, <3>2
  <2> QED
    BY <1>1, <2>1, <2>2 DEF Sound
<1>3. MakeRoom(b, k, bs) = UNION {Part(m) : m \in WriteCounts(out)}
  BY DEF MakeRoom
<1> HIDE DEF out
<1>4. o \in Part(out)
  <2> HIDE DEF Part
  <2> QED
    BY <1>3, AllWritten
<1> DEFINE f == F(out)
           kf == K(out)
<1>5. PICK cache \in CachesW :
        o = Stored(Grown(f, Size(f, cache)), kf, bs)
  <2>1. ~ (out < out)
    BY <1>2
  <2> HIDE DEF F, K, Grown, Size
  <2> QED
    BY <1>4, <2>1
<1> HIDE DEF Part
<1>6. /\ From(b.data, out) \in Seq(Bytes)
      /\ Upto(b.data, out) \in Seq(Bytes) /\ Len(Upto(b.data, out)) = out
  BY <1>1, <1>2, FromType, UptoType
<1>7. Kernel(kf) /\ ("a" \notin b.can => kf.pos = k.pos + out)
  <2> DEFINE head == Upto(b.data, out)
  <2>1. head \in Seq(Bytes) /\ Len(head) = out
    BY <1>6
  <2> HIDE DEF head, f, kf, F, K, Grown, Size, Least, whole
  <2>2. /\ Kernel(Written(b, k, head))
        /\ "a" \notin b.can => Written(b, k, head).pos = k.pos + Len(head)
    <3>1. Kernel(k) /\ head \in Seq(Bytes)
      BY <1>1, <2>1
    <3> QED
      BY <3>1, WrittenKernel
  <2> QED
    BY <2>1, <2>2 DEF head, kf, K
<1>8. /\ DOMAIN f = DOMAIN b /\ f.can = b.can /\ f.mode = "write"
      /\ f.offset = b.offset + out /\ f.data = From(b.data, out)
      /\ f.lead = b.lead + out /\ f.room = b.room
      /\ f.size_p = b.size_p /\ f.used = 0
      /\ f.unread = b.unread /\ f.buffered
  BY <1>1, <1>2 DEF Sound
<1> HIDE DEF f, kf, F, K
<1>9. Size(f, cache) \in Nat /\ Len(f.data) + Len(bs) <= Size(f, cache)
  <2> DEFINE p == Greater(Least(f), cache)
             least == Least(f)
  <2>1. /\ Len(f.data) + Len(bs) \in Nat /\ MinBlocks * Mod \in Nat
        /\ cache \in Nat /\ f.size_p \in Nat
    BY <1>1, <1>6, <1>8, EmptyType, BufferAssumption DEF Sound
  <2>2. least \in Nat /\ Len(f.data) + Len(bs) <= least
    BY <2>1 DEF Greater
  <2> HIDE DEF least
  <2>3. p = Greater(least, cache)
    BY DEF least
  <2>4. p \in Nat /\ least <= p
    BY <2>1, <2>2, <2>3 DEF Greater
  <2> HIDE DEF p
  <2>5. RoundUp(p) \in Nat /\ p <= RoundUp(p)
    BY <2>4, RoundUpSize
  <2>6. Size(f, cache) = Greater(f.size_p, RoundUp(p))
    BY DEF p
  <2> HIDE DEF Size
  <2> QED
    BY <2>1, <2>2, <2>4, <2>5, <2>6 DEF Greater
<1> DEFINE size == Size(f, cache)
           g == Grown(f, size)
<1>10. o = Stored(g, kf, bs)
  BY <1>5
<1>11. size \in Nat /\ Len(f.data) + Len(bs) <= size
  BY <1>9
<1> HIDE DEF size
<1>12. /\ DOMAIN g = DOMAIN f /\ g.can = b.can /\ g.mode = "write"
       /\ g.offset = f.offset /\ g.data = f.data /\ g.lead = 0
       /\ g.room = size - Len(f.data)
       /\ g.size_p = size /\ g.used = 0
       /\ g.unread = b.unread /\ g.buffered
  BY <1>1, <1>8 DEF Sound
<1> HIDE DEF g
<1>13. Len(g.data) \in Nat /\ Len(bs) \in Nat /\ g.data \in Seq(Bytes)
  BY <1>6, <1>8, <1>12, EmptyType
<1>14. g.room = Vacancy(g) /\ Len(bs) <= g.room
  BY <1>11, <1>12, <1>13 DEF Vacancy
<1>15. Good(g, kf)
  <2>1. Sound(g)
    BY <1>1, <1>2, <1>8, <1>11, <1>12, <1>13, <1>14 DEF Sound, RoomKnown
  <2>2. InPlace(g, kf.pos)
    BY <1>1, <1>2, <1>7, <1>8, <1>12 DEF InPlace, Sound
  <2> QED
    BY <1>7, <2>1, <2>2 DEF Good
<1>16. Fits(o, g)
  BY <1>10, <1>12, <1>14, <1>15, StoredFits
<1> QED
  BY <1>12, <1>16 DEF Fits

LEMMA GwritebBufFits ==
  ASSUME ~ IOErrors, NEW b, NEW k, Good(b, k), b.mode = "write", b.buffered,
         NEW bs \in Seq(Bytes), NEW o \in GwritebBuf(b, k, bs)
  PROVE  Fits(o, b)
<1> DEFINE e == IF b.data = <<>> THEN [b EXCEPT !.lead = 0, !.room = b.size_p]
                ELSE b
<1>1. Sound(b) /\ Kernel(k) /\ InPlace(b, k.pos) /\ RoomKnown(b)
  BY DEF Good, Sound
<1>2. o \in IF e.room >= Len(bs) THEN {Stored(e, k, bs)} ELSE MakeRoom(e, k, bs)
  BY DEF GwritebBuf
<1>3. /\ Good(e, k) /\ e.room = Vacancy(e)
      /\ e.can = b.can /\ e.mode = "write" /\ e.buffered
  <2>1. CASE b.data # <<>>
    <3>1. e = b
      BY <2>1
    <3> HIDE DEF e
    <3> QED
      BY <1>1, <2>1, <3>1 DEF RoomKnown
  <2>2. CASE b.data = <<>>
    <3>1. /\ DOMAIN e = DOMAIN b /\ e.can = b.can /\ e.mode = "write"
          /\ e.offset = b.offset /\ e.data = <<>> /\ e.lead = 0
          /\ e.room = b.size_p /\ e.size_p = b.size_p /\ e.used = b.used
          /\ e.unread = b.unread /\ e.buffered
      BY <1>1, <2>2 DEF Sound
    <3> HIDE DEF e
    <3>2. e.room = Vacancy(e) /\ 0 <= Vacancy(e)
      BY <1>1, <3>1, EmptyType DEF Vacancy, Sound
    <3>3. Sound(e)
      BY <1>1, <2>2, <3>1, <3>2, EmptyType DEF Sound, RoomKnown
    <3> QED
      BY <1>1, <3>1, <3>2, <3>3 DEF Good, InPlace
  <2> QED
    BY <2>1, <2>2
<1> HIDE DEF e
<1>4. Fits(o, e)
  <2>1. e.room \in Int /\ Len(bs) \in Nat
    BY <1>3, EmptyType DEF Good, Sound
  <2>2. CASE e.room >= Len(bs)
    BY <1>2, <1>3, <2>1, <2>2, StoredFits
  <2>3. CASE ~ (e.room >= Len(bs))
    BY <1>2, <1>3, <2>3, MakeRoomFits
  <2> QED
    BY <2>2, <2>3
<1> QED
  BY <1>3, <1>4 DEF Fits

LEMMA GwritebNonFits ==
  ASSUME ~ IOErrors, NEW b, NEW k, Good(b, k), b.mode = "write", ~ b.buffered,
         NEW bs \in Seq(Bytes), NEW o \in GwritebNon(b, k, bs)
  PROVE  Fits(o, b)
<1>1. PICK r \in WriteLeft(b, k) :
        o = IF r.ok
            THEN [r EXCEPT !.b.data = bs, !.b.lead = 0, !.ret = Len(bs)]
            ELSE r
  BY DEF GwritebNon
<1>2. /\ Fits(r, b) /\ r.b.mode = "write" /\ ~ r.b.buffered
      /\ r.b.data = <<>> /\ r.b.used = 0
  BY WriteLeftFits
<1>3. CASE ~ r.ok
  BY <1>1, <1>2, <1>3
<1>4. CASE r.ok
  <2> DEFINE x == [r.b EXCEPT !.data = bs, !.lead = 0]
  <2>1. /\ Sound(r.b) /\ Kernel(r.k) /\ InPlace(r.b, r.k.pos)
        /\ r.b.can = b.can /\ DOMAIN r = {"b", "k", "ok", "ret"}
    BY <1>2 DEF Fits, Good
  <2>2. DOMAIN o = DOMAIN r /\ o.b = x /\ o.k = r.k
    BY <1>1, <1>4, <2>1
  <2>3. /\ DOMAIN x = DOMAIN r.b /\ x.can = b.can /\ x.mode = "write"
        /\ x.offset = r.b.offset /\ x.data = bs /\ x.lead = 0
        /\ x.room = r.b.room /\ x.size_p = r.b.size_p /\ x.used = 0
        /\ x.unread = r.b.unread /\ ~ x.buffered /\ x.buffered \in BOOLEAN
    BY <1>2, <2>1 DEF Sound
  <2> HIDE DEF x
  <2>4. Sound(x)
    BY <1>2, <2>1, <2>3, EmptyType DEF Sound
  <2>5. InPlace(x, r.k.pos)
    BY <1>2, <2>1, <2>3 DEF InPlace
  <2> QED
    BY <2>1, <2>2, <2>3, <2>4, <2>5 DEF Fits, Good
<1> QED
  BY <1>3, <1>4

LEMMA FpGwritebFits ==
  ASSUME ~ IOErrors, NEW b, NEW k, Good(b, k), NEW bs \in Seq(Bytes),
         NEW o \in FpGwriteb(b, k, bs)
  PROVE  Fits(o, b)
<1>1. CASE o = Outcome(b, k, FALSE, 0)
  BY <1>1, OutcomeFits DEF Good
<1>2. CASE o # Outcome(b, k, FALSE, 0)
  <2> DEFINE Part(r) == IF ~ r.ok THEN {r}
                        ELSE IF b.buffered THEN GwritebBuf(r.b, r.k, bs)
                        ELSE GwritebNon(r.b, r.k, bs)
  <2>1. PICK r \in Turn(b, k, "write") : o \in Part(r)
    <3>1. FpGwriteb(b, k, bs)
            = IF "w" \notin b.can THEN {Outcome(b, k, FALSE, 0)}
              ELSE UNION {Part(r) : r \in Turn(b, k, "write")}
      BY DEF FpGwriteb
    <3> HIDE DEF Part
    <3> QED
      BY <1>2, <3>1
  <2>2. /\ Fits(r, b) /\ r.ok /\ r.b.mode = "write"
        /\ r.b.buffered = b.buffered
    BY TurnFits
  <2>3. Good(r.b, r.k) /\ r.b.can = b.can
    BY <2>2 DEF Fits
  <2>4. Fits(o, r.b)
    <3>1. CASE b.buffered
      BY <2>1, <2>2, <2>3, <3>1, GwritebBufFits
    <3>2. CASE ~ b.buffered
      BY <2>1, <2>2, <2>3, <3>2, GwritebNonFits
    <3> QED
      BY <3>1, <3>2
  <2> QED
    BY <2>3, <2>4 DEF Fits
<1> QED
  BY <1>1, <1>2

(* The inline test of gwriteb does not look at the state of the stream:    *)
(* only a stream in write state counts room.                               *)
LEMMA RoomToStore ==
  ASSUME NEW b, NEW k, Good(b, k), NEW bs \in Seq(Bytes),
         b.room > Len(bs) \/ b.room < 0
  PROVE  Fits(Stored(b, k, bs), b)
<1>1. Sound(b) /\ Len(bs) \in Nat /\ b.room \in Int
  BY EmptyType DEF Good, Sound
<1>2. b.mode = "write" /\ b.buffered /\ RoomKnown(b)
  <2>1. CASE b.mode = "write" /\ b.buffered
    BY <1>1, <2>1 DEF Sound
  <2>2. CASE ~ (b.mode = "write" /\ b.buffered)
    BY <1>1, <2>2 DEF Sound
  <2> QED
    BY <2>1, <2>2
<1>3. b.room = Vacancy(b) /\ Len(bs) <= b.room
  BY <1>1, <1>2 DEF RoomKnown
<1> QED
  BY <1>2, <1>3, StoredFits

LEMMA GwritebFits ==
  ASSUME ~ IOErrors, NEW b, NEW k, Good(b, k), NEW bs \in Seq(Bytes),
         NEW o \in Gwriteb(b, k, bs)
  PROVE  Fits(o, b)
<1>1. CASE b.room > Len(bs) \/ b.room < 0
  BY <1>1, RoomToStore DEF Gwriteb
<1>2. CASE ~ (b.room > Len(bs) \/ b.room < 0)
  BY <1>2, FpGwritebFits DEF Gwriteb
<1> QED
  BY <1>1, <1>2

LEMMA GputcFits ==
  ASSUME ~ IOErrors, NEW b, NEW k, Good(b, k), NEW c \in Bytes,
         NEW o \in Gputc(b, k, c)
  PROVE  Fits(o, b)
<1> DEFINE bs == <<c>>
<1>1. bs \in Seq(Bytes) /\ Len(bs) = 1
  OBVIOUS
<1>2. o \in IF b.room > 1 THEN {Stored(b, k, bs)} ELSE FpGwriteb(b, k, bs)
  BY DEF Gputc
<1> HIDE DEF bs
<1>3. CASE b.room > 1
  BY <1>1, <1>2, <1>3, RoomToStore
<1>4. CASE ~ (b.room > 1)
  BY <1>1, <1>2, <1>4, FpGwritebFits
<1> QED
  BY <1>3, <1>4

-----------------------------------------------------------------------------
(* Positions                                                               *)

LEMMA GetposType ==
  ASSUME NEW b, Sound(b)
  PROVE  Getpos(b) \in Nat
<1>1. Len(b.data) \in Nat /\ Len(b.unread) = 0
  BY EmptyType DEF Sound
<1> QED
  BY <1>1 DEF Getpos, Sound

(* Inside the cache, or after a flush, gsetpos leaves the descriptor where *)
(* the stream expects it.                                                  *)
LEMMA GsetposFits ==
  ASSUME ~ IOErrors, NEW b, NEW k, Good(b, k), NEW pos \in Int,
         NEW o \in Gsetpos(b, k, pos)
  PROVE  Fits(o, b)
<1>1. Sound(b) /\ Kernel(k) /\ InPlace(b, k.pos) /\ Len(b.data) \in Nat
  BY EmptyType DEF Good, Sound
<1> DEFINE Here == b.mode = "write" /\ Getpos(b) = pos
           Within == b.mode = "read" /\ pos \in b.offset .. b.offset + Len(b.data)
           x == [b EXCEPT !.used = pos - b.offset, !.unread = <<>>]
<1>2. CASE Here
  <2>1. o = Outcome(b, k, TRUE, 0)
    BY <1>2 DEF Gsetpos
  <2> QED
    BY <1>1, <2>1, OutcomeFits
<1>3. CASE Within
  <2>1. o = Outcome(x, k, TRUE, 0)
    BY <1>3 DEF Gsetpos
  <2>2. /\ DOMAIN x = DOMAIN b /\ x.can = b.can /\ x.mode = "read"
        /\ x.offset = b.offset /\ x.data = b.data /\ x.lead = b.lead
        /\ x.room = b.room /\ x.size_p = b.size_p /\ x.used = pos - b.offset
        /\ x.unread = <<>> /\ x.buffered = b.buffered
    BY <1>1, <1>3 DEF Sound
  <2>3. pos - b.offset \in Nat /\ pos - b.offset <= Len(b.data)
    BY <1>1, <1>3 DEF Sound
  <2> HIDE DEF x
  <2>4. Sound(x) /\ InPlace(x, k.pos)
    BY <1>1, <1>3, <2>2, <2>3 DEF Sound, InPlace
  <2> QED
    BY <1>1, <2>1, <2>2, <2>4, OutcomeFits
<1>4. CASE ~ Here /\ ~ Within
  <2>1. PICK f \in Gflush(b, k) : o = SeekTo(f, pos)
    BY <1>4 DEF Gsetpos
  <2>2. Flushed(f, b)
    BY GflushFits
  <2>3. /\ DOMAIN f = {"b", "k", "ok", "ret"} /\ f.ok /\ f.b.can = b.can
        /\ Sound(f.b) /\ Kernel(f.k) /\ InPlace(f.b, f.k.pos)
        /\ f.b.data = <<>> /\ f.b.used = 0
    BY <2>2 DEF Flushed, Fits, Good
  <2>4. CASE pos < 0
    <3>1. o = [f EXCEPT !.ok = FALSE]
      BY <2>1, <2>3, <2>4 DEF SeekTo
    <3>2. DOMAIN o = DOMAIN f /\ o.b = f.b /\ o.k = f.k
      BY <2>3, <3>1
    <3> QED
      BY <2>3, <3>2 DEF Fits, Good
  <2>5. CASE ~ (pos < 0)
    <3> DEFINE y == [f.b EXCEPT !.offset = pos]
               ky == [f.k EXCEPT !.pos = pos]
    <3>1. o = [f EXCEPT !.b.offset = pos, !.k.pos = pos]
      BY <2>1, <2>3, <2>5 DEF SeekTo
    <3>2. DOMAIN o = DOMAIN f /\ o.b = y /\ o.k = ky
      BY <2>3, <3>1
    <3>3. /\ DOMAIN y = DOMAIN f.b /\ y.can = f.b.can /\ y.mode = f.b.mode
          /\ y.offset = pos /\ y.data = <<>> /\ y.lead = f.b.lead
          /\ y.room = f.b.room /\ y.size_p = f.b.size_p /\ y.used = 0
          /\ y.unread = f.b.unread /\ y.buffered = f.b.buffered
      BY <2>3 DEF Sound
    <3>4. Kernel(ky) /\ ky.pos = pos /\ pos \in Nat
      BY <2>3, <2>5 DEF Kernel
    <3> HIDE DEF y, ky
    <3>5. Sound(y)
      BY <2>3, <3>3, <3>4, EmptyType DEF Sound, RoomKnown, Vacancy
    <3>6. InPlace(y, ky.pos)
      BY <3>3, <3>4, EmptyType DEF InPlace
    <3> QED
      BY <2>3, <3>2, <3>3, <3>4, <3>5, <3>6 DEF Fits, Good
  <2> QED
    BY <2>4, <2>5
<1> QED
  BY <1>2, <1>3, <1>4

(* gsetvbuf asks the kernel for the offset.                                *)
LEMMA GsetvbufFits ==
  ASSUME NEW b, NEW k, Good(b, k), NEW buffered \in BOOLEAN,
         NEW o \in Gsetvbuf(b, k, buffered)
  PROVE  Fits(o, b)
<1>1. Sound(b) /\ Kernel(k) /\ InPlace(b, k.pos)
  BY DEF Good
<1>2. CASE b.mode = "idle"
  <2> DEFINE x == [b EXCEPT !.buffered = buffered, !.offset = k.pos]
  <2>1. o = Outcome(x, k, TRUE, 0)
    BY <1>2 DEF Gsetvbuf
  <2>2. /\ DOMAIN x = DOMAIN b /\ x.can = b.can /\ x.mode = "idle"
        /\ x.offset = k.pos /\ x.data = b.data /\ x.lead = b.lead
        /\ x.room = b.room /\ x.size_p = b.size_p /\ x.used = b.used
        /\ x.unread = b.unread /\ x.buffered = buffered
    BY <1>1, <1>2 DEF Sound
  <2> HIDE DEF x
  <2>3. Sound(x) /\ InPlace(x, k.pos)
    BY <1>1, <1>2, <2>2, EmptyType DEF Sound, InPlace, Kernel
  <2> QED
    BY <1>1, <2>1, <2>2, <2>3, OutcomeFits
<1>3. CASE b.mode # "idle"
  BY <1>1, <1>3, OutcomeFits DEF Gsetvbuf
<1> QED
  BY <1>2, <1>3

-----------------------------------------------------------------------------
(* What the application knows of a file: the bytes the kernel has, under   *)
(* those that the stream still has to write.                               *)
Known(b, k) ==
  IF b.mode = "write" THEN Overlay(k.bytes, b.offset, b.data) ELSE k.bytes

(* n bytes from p on, or as many as there are.                             *)
Cut(bytes, p, n) == SubSeq(bytes, p + 1, Lesser(p + n, Len(bytes)))

(* What has been read ahead is the file's own.                             *)
Coherent(b, k) ==
  b.mode = "read"
    => /\ b.data = SubSeq(k.bytes, b.offset + 1, b.offset + Len(b.data))
       /\ \/ b.data = <<>>
          \/ b.buffered /\ b.offset + Len(b.data) <= Len(k.bytes)

Faithful(b, k) == Good(b, k) /\ "a" \notin b.can /\ Coherent(b, k)

(* An outcome that changes nothing the application can see but, perhaps,   *)
(* the position; and one that does not change that either.                 *)
Keeps(o, b, k) ==
  /\ Coherent(o.b, o.k)
  /\ o.b.buffered = b.buffered
  /\ Known(o.b, o.k) = Known(b, k)

Still(o, b, k) == Keeps(o, b, k) /\ Getpos(o.b) = Getpos(b)

(* The bytes of an overlay, one by one.                                    *)
LEMMA OverlayFacts ==
  ASSUME NEW bs \in Seq(Bytes), NEW p \in Nat, NEW x \in Seq(Bytes)
  PROVE  /\ Overlay(bs, p, x) \in Seq(Bytes)
         /\ x # <<>> => Len(Overlay(bs, p, x)) = Greater(Len(bs), p + Len(x))
         /\ x # <<>> => \A i \in 1 .. Len(Overlay(bs, p, x)) :
              Overlay(bs, p, x)[i] = IF i > p /\ i <= p + Len(x) THEN x[i - p]
                                     ELSE IF i <= Len(bs) THEN bs[i] ELSE Zero
<1>1. Overlay(bs, p, x) \in Seq(Bytes)
  BY OverlayType
<1>2. CASE x # <<>>
  <2> DEFINE n == Greater(Len(bs), p + Len(x))
             F(i) == IF i > p /\ i <= p + Len(x) THEN x[i - p]
                     ELSE IF i <= Len(bs) THEN bs[i] ELSE Zero
             o == Overlay(bs, p, x)
  <2>1. o = [i \in 1 .. n |-> F(i)]
    BY <1>2 DEF Overlay
  <2>2. n \in Nat
    BY DEF Greater
  <2> HIDE DEF n, F, o
  <2>3. DOMAIN o = 1 .. n /\ \A i \in 1 .. n : o[i] = F(i)
    BY <2>1
  <2>4. o \in Seq(Bytes)
    BY <1>1 DEF o
  <2>5. Len(o) = n
    BY <2>2, <2>3, <2>4
  <2> QED
    BY <1>1, <2>3, <2>5 DEF o, n, F
<1> QED
  BY <1>1, <1>2

LEMMA SameSequence ==
  ASSUME NEW x \in Seq(Bytes), NEW y \in Seq(Bytes), Len(x) = Len(y),
         \A i \in 1 .. Len(x) : x[i] = y[i]
  PROVE  x = y
OBVIOUS

(* Bytes written one after the other are written in one go.                *)
LEMMA OverlayTwice ==
  ASSUME NEW bs \in Seq(Bytes), NEW p \in Nat, NEW x \in Seq(Bytes),
         NEW y \in Seq(Bytes)
  PROVE  Overlay(Overlay(bs, p, x), p + Len(x), y) = Overlay(bs, p, x \o y)
<1>1. CASE x = <<>>
  <2>1. Overlay(bs, p, x) = bs /\ p + Len(x) = p /\ x \o y = y
    BY <1>1 DEF Overlay
  <2> QED
    BY <2>1
<1>2. CASE y = <<>>
  <2>1. x \o y = x
    BY <1>2
  <2>2. Overlay(Overlay(bs, p, x), p + Len(x), y) = Overlay(bs, p, x)
    BY <1>2 DEF Overlay
  <2> QED
    BY <2>1, <2>2
<1>3. CASE x # <<>> /\ y # <<>>
  <2> DEFINE c == Overlay(bs, p, x)
             q == p + Len(x)
             d == Overlay(c, q, y)
             z == x \o y
             e == Overlay(bs, p, z)
  <2>1. /\ z \in Seq(Bytes) /\ Len(z) = Len(x) + Len(y)
        /\ \A i \in 1 .. Len(z) :
             z[i] = IF i <= Len(x) THEN x[i] ELSE y[i - Len(x)]
    OBVIOUS
  <2>2. /\ Len(x) \in Nat \ {0} /\ Len(y) \in Nat \ {0}
        /\ Len(bs) \in Nat /\ q \in Nat
    BY <1>3
  <2>3. z # <<>>
    <3> HIDE DEF z
    <3> QED
      BY <2>1, <2>2, EmptyType
  <2>4. /\ c \in Seq(Bytes) /\ Len(c) = Greater(Len(bs), q)
        /\ \A i \in 1 .. Len(c) :
             c[i] = IF i > p /\ i <= q THEN x[i - p]
                    ELSE IF i <= Len(bs) THEN bs[i] ELSE Zero
    BY <1>3, OverlayFacts
  <2> HIDE DEF c, z
  <2>5. /\ d \in Seq(Bytes) /\ Len(d) = Greater(Len(c), q + Len(y))
        /\ \A i \in 1 .. Len(d) :
             d[i] = IF i > q /\ i <= q + Len(y) THEN y[i - q]
                    ELSE IF i <= Len(c) THEN c[i] ELSE Zero
    <3> HIDE DEF q
    <3> QED
      BY <1>3, <2>2, <2>4, OverlayFacts
  <2>6. /\ e \in Seq(Bytes) /\ Len(e) = Greater(Len(bs), p + Len(z))
        /\ \A i \in 1 .. Len(e) :
             e[i] = IF i > p /\ i <= p + Len(z) THEN z[i - p]
                    ELSE IF i <= Len(bs) THEN bs[i] ELSE Zero
    BY <2>1, <2>3, OverlayFacts
  <2> HIDE DEF d, e
  <2>7. Len(d) = Len(e)
    BY <2>1, <2>2, <2>4, <2>5, <2>6 DEF Greater
  <2>8. ASSUME NEW i \in 1 .. Len(d) PROVE d[i] = e[i]
    <3>1. i \in Nat /\ Len(d) \in Nat /\ 1 <= i /\ i <= Len(d)
      BY <2>5, EmptyType
    <3>2. CASE i > q /\ i <= q + Len(y)
      <4>1. d[i] = y[i - q]
        BY <2>5, <3>2
      <4>2. e[i] = z[i - p]
        BY <2>1, <2>2, <2>6, <2>7, <3>1, <3>2
      <4>3. i - p \in 1 .. Len(z) /\ ~ (i - p <= Len(x))
        BY <2>1, <2>2, <3>1, <3>2
      <4>4. z[i - p] = y[(i - p) - Len(x)]
        BY <2>1, <4>3
      <4>5. (i - p) - Len(x) = i - q
        BY <2>2, <3>1
      <4> QED
        BY <4>1, <4>2, <4>4, <4>5
    <3>3. CASE i > p /\ i <= q
      <4>1. i <= Len(c)
        BY <2>2, <2>4, <3>1, <3>3 DEF Greater
      <4>2. d[i] = c[i] /\ c[i] = x[i - p]
        BY <2>2, <2>4, <2>5, <3>1, <3>3, <4>1
      <4>3. e[i] = z[i - p]
        BY <2>1, <2>2, <2>6, <2>7, <3>1, <3>3
      <4>4. z[i - p] = x[i - p]
        BY <2>1, <2>2, <3>1, <3>3, SMTT(30)
      <4> QED
        BY <4>2, <4>3, <4>4
    <3>4. CASE i <= p \/ i > q + Len(y)
      <4>1. e[i] = IF i <= Len(bs) THEN bs[i] ELSE Zero
        BY <2>1, <2>2, <2>6, <2>7, <3>1, <3>4
      <4>2. d[i] = IF i <= Len(c) THEN c[i] ELSE Zero
        BY <2>2, <2>5, <3>1, <3>4
      <4>3. i <= Len(c) => c[i] = IF i <= Len(bs) THEN bs[i] ELSE Zero
        BY <2>2, <2>4, <3>1, <3>4
      <4>4. ~ (i <= Len(c)) => ~ (i <= Len(bs))
        BY <2>2, <2>4, <3>1 DEF Greater
      <4> QED
        BY <4>1, <4>2, <4>3, <4>4
    <3> QED
      BY <2>2, <3>1, <3>2, <3>3, <3>4
  <2> QED
    BY <2>5, <2>6, <2>7, <2>8, SameSequence DEF d, e, c, q, z
<1> QED
  BY <1>1, <1>2, <1>3
(* Parts of a file.                                                        *)
LEMMA PieceType ==
  ASSUME NEW bs \in Seq(Bytes), NEW i \in Nat, NEW j \in Nat,
         i <= j, j <= Len(bs)
  PROVE  /\ SubSeq(bs, i + 1, j) \in Seq(Bytes)
         /\ Len(SubSeq(bs, i + 1, j)) = j - i
         /\ \A l \in 1 .. j - i : SubSeq(bs, i + 1, j)[l] = bs[i + l]
OBVIOUS

LEMMA EmptyPiece ==
  ASSUME NEW bs \in Seq(Bytes), NEW i \in Nat, NEW j \in Int, j <= i
  PROVE  SubSeq(bs, i + 1, j) = <<>>
OBVIOUS

LEMMA PieceOfPiece ==
  ASSUME NEW bs \in Seq(Bytes), NEW i \in Nat, NEW j \in Nat,
         i <= j, j <= Len(bs),
         NEW l \in Nat, NEW m \in Nat, l <= m, m <= j - i
  PROVE  SubSeq(SubSeq(bs, i + 1, j), l + 1, m) = SubSeq(bs, i + l + 1, i + m)
<1> DEFINE x == SubSeq(bs, i + 1, j)
           y == SubSeq(x, l + 1, m)
           z == SubSeq(bs, i + l + 1, i + m)
<1>1. /\ x \in Seq(Bytes) /\ Len(x) = j - i
      /\ \A n \in 1 .. j - i : x[n] = bs[i + n]
  BY PieceType
<1> HIDE DEF x
<1>2. /\ y \in Seq(Bytes) /\ Len(y) = m - l
      /\ \A n \in 1 .. m - l : y[n] = x[l + n]
  BY <1>1, PieceType
<1>3. /\ z \in Seq(Bytes) /\ Len(z) = m - l
      /\ \A n \in 1 .. m - l : z[n] = bs[i + l + n]
  <2>1. i + l \in Nat /\ i + m \in Nat /\ i + l <= i + m /\ i + m <= Len(bs)
        /\ (i + m) - (i + l) = m - l
    BY EmptyType
  <2> DEFINE u == i + l
             w == i + m
  <2> HIDE DEF u, w
  <2>2. /\ SubSeq(bs, u + 1, w) \in Seq(Bytes)
        /\ Len(SubSeq(bs, u + 1, w)) = w - u
        /\ \A n \in 1 .. w - u : SubSeq(bs, u + 1, w)[n] = bs[u + n]
    BY <2>1, PieceType DEF u, w
  <2> QED
    BY <2>1, <2>2 DEF u, w
<1> HIDE DEF y, z
<1>4. ASSUME NEW n \in 1 .. m - l PROVE y[n] = z[n]
  <2>1. l + n \in 1 .. j - i /\ i + (l + n) = i + l + n
    OBVIOUS
  <2>2. y[n] = x[l + n] /\ z[n] = bs[i + l + n]
    BY <1>2, <1>3
  <2>3. x[l + n] = bs[i + (l + n)]
    BY <1>1, <2>1
  <2> QED
    BY <2>1, <2>2, <2>3
<1>5. y = z
  BY <1>2, <1>3, <1>4, SameSequence
<1> QED
  BY <1>5 DEF x, y, z

LEMMA PiecesJoin ==
  ASSUME NEW bs \in Seq(Bytes), NEW i \in Nat, NEW j \in Nat, NEW m \in Nat,
         i <= j, j <= m, m <= Len(bs)
  PROVE  SubSeq(bs, i + 1, j) \o SubSeq(bs, j + 1, m) = SubSeq(bs, i + 1, m)
<1> DEFINE x == SubSeq(bs, i + 1, j)
           y == SubSeq(bs, j + 1, m)
           z == SubSeq(bs, i + 1, m)
<1>1. /\ x \in Seq(Bytes) /\ Len(x) = j - i
      /\ \A n \in 1 .. j - i : x[n] = bs[i + n]
  BY PieceType, EmptyType
<1>2. /\ y \in Seq(Bytes) /\ Len(y) = m - j
      /\ \A n \in 1 .. m - j : y[n] = bs[j + n]
  BY PieceType
<1>3. /\ z \in Seq(Bytes) /\ Len(z) = m - i
      /\ \A n \in 1 .. m - i : z[n] = bs[i + n]
  BY PieceType
<1> HIDE DEF x, y, z
<1> DEFINE c == x \o y
<1>4. /\ c \in Seq(Bytes) /\ Len(c) = m - i
      /\ \A n \in 1 .. Len(c) :
           c[n] = IF n <= Len(x) THEN x[n] ELSE y[n - Len(x)]
  BY <1>1, <1>2
<1> HIDE DEF c
<1>5. ASSUME NEW n \in 1 .. m - i PROVE c[n] = z[n]
  <2>1. CASE n <= j - i
    BY <1>1, <1>3, <1>4, <2>1
  <2>2. CASE ~ (n <= j - i)
    <3>1. n - (j - i) \in 1 .. m - j /\ j + (n - (j - i)) = i + n
      BY <2>2
    <3>2. c[n] = y[n - (j - i)]
      BY <1>1, <1>4, <2>2
    <3>3. y[n - (j - i)] = bs[i + n]
      BY <1>2, <3>1
    <3> QED
      BY <1>3, <3>2, <3>3
  <2> QED
    BY <2>1, <2>2
<1>6. c = z
  BY <1>3, <1>4, <1>5, SameSequence
<1> QED
  BY <1>6 DEF x, y, z, c

(* Nothing is pending in what write() has just been given.                 *)
LEMMA WrittenBytes ==
  ASSUME NEW b, NEW k, "a" \notin b.can, NEW bs
  PROVE  Written(b, k, bs).bytes = Overlay(k.bytes, k.pos, bs)
<1>1. CASE bs = <<>>
  BY <1>1 DEF Written, Overlay
<1>2. CASE bs # <<>>
  <2> DEFINE w == Written(b, k, bs)
  <2>1. w = [bytes |-> Overlay(k.bytes, k.pos, bs), pos |-> k.pos + Len(bs)]
    BY <1>2 DEF Written
  <2> HIDE DEF w
  <2>2. w.bytes = Overlay(k.bytes, k.pos, bs)
    BY <2>1
  <2> QED
    BY <2>2 DEF w
<1> QED
  BY <1>1, <1>2

LEMMA NothingOverlaid == \A bytes, at : Overlay(bytes, at, <<>>) = bytes
BY DEF Overlay

(* Where a stream stands, by what it is doing.                             *)
LEMMA GetposCases ==
  ASSUME NEW b, b.offset \in Nat, b.used \in Nat, b.unread = <<>>,
         b.data \in Seq(Bytes)
  PROVE  /\ b.mode = "read" => Getpos(b) = b.offset + b.used
         /\ b.mode = "write" => Getpos(b) = b.offset + Len(b.data)
         /\ b.mode = "idle" => Getpos(b) = b.offset
<1>1. CASE b.mode = "read"
  <2>1. Getpos(b) = b.offset + b.used - IF b.buffered THEN Len(b.unread) ELSE 0
    BY <1>1 DEF Getpos
  <2>2. (IF b.buffered THEN Len(b.unread) ELSE 0) = 0
    BY EmptyType
  <2> QED
    BY <1>1, <2>1, <2>2
<1>2. CASE b.mode = "write"
  BY <1>2 DEF Getpos
<1>3. CASE b.mode = "idle"
  BY <1>3 DEF Getpos
<1> QED
  BY <1>1, <1>2, <1>3

LEMMA GetposEmpty ==
  ASSUME NEW b, b.offset \in Nat, b.used = 0, b.unread = <<>>, b.data = <<>>,
         b.mode \in {"idle", "read", "write"}
  PROVE  Getpos(b) = b.offset
<1>1. b.data \in Seq(Bytes) /\ Len(b.data) = 0 /\ b.used \in Nat
  BY EmptyType
<1>2. /\ b.mode = "read" => Getpos(b) = b.offset + b.used
      /\ b.mode = "write" => Getpos(b) = b.offset + Len(b.data)
      /\ b.mode = "idle" => Getpos(b) = b.offset
  BY <1>1, GetposCases
<1>3. b.offset + b.used = b.offset /\ b.offset + Len(b.data) = b.offset
  BY <1>1
<1> QED
  BY <1>2, <1>3

(* A flush is nothing to the application: what was to be written is, and   *)
(* the position stays.                                                     *)
LEMMA GflushStill ==
  ASSUME ~ IOErrors, NEW b, NEW k, Faithful(b, k), NEW o \in Gflush(b, k)
  PROVE  Still(o, b, k) /\ o.k.bytes = Known(b, k) /\ o.ok = TRUE
<1>1. /\ Good(b, k) /\ Sound(b) /\ Kernel(k) /\ InPlace(b, k.pos)
      /\ "a" \notin b.can /\ Coherent(b, k)
  BY DEF Faithful, Good
<1>2. Flushed(o, b)
  BY <1>1, GflushFits
<1>3. /\ o.b.data = <<>> /\ o.b.used = 0 /\ o.b.offset = Getpos(b)
      /\ o.b.mode = b.mode /\ o.b.buffered = b.buffered
      /\ Sound(o.b) /\ Kernel(o.k)
  BY <1>2 DEF Flushed, Fits, Good
<1>4. o.k.bytes = Known(b, k) /\ o.ok = TRUE
  <2>1. CASE b.mode = "write"
    <3> DEFINE m == Len(b.data)
               After(i) ==
                 Outcome([b EXCEPT !.offset = @ + i, !.data = From(@, i),
                                   !.lead = @ + i, !.room = 0],
                         Written(b, k, Upto(b.data, i)), i = Len(b.data), 0)
    <3>1. Gflush(b, k) = {After(i) : i \in WriteCounts(Len(b.data))}
      BY <2>1 DEF Gflush, Gflushw
    <3>2. /\ After(m).k = Written(b, k, Upto(b.data, m))
          /\ After(m).ok = TRUE
      BY DEF Outcome
    <3> HIDE DEF After
    <3>3. o = After(m)
      BY <3>1, AllWritten
    <3>4. Upto(b.data, m) = b.data
      BY <1>1, AllType DEF Sound
    <3> HIDE DEF m
    <3>5. o.k = Written(b, k, b.data) /\ o.ok = TRUE
      BY <3>2, <3>3, <3>4
    <3>6. k.pos = b.offset
      BY <1>1, <2>1 DEF InPlace, Sound
    <3> QED
      BY <1>1, <2>1, <3>5, <3>6, WrittenBytes DEF Known
  <2>2. CASE b.mode = "read"
    <3>1. /\ o.k = IF Len(b.data) > b.used THEN Moved(k, b.offset + b.used)
                   ELSE k
          /\ o.ok = TRUE
      BY <2>2 DEF Gflush, Gflushr, Outcome
    <3>2. Moved(k, b.offset + b.used).bytes = k.bytes
      BY <1>1 DEF Moved, Kernel
    <3> QED
      BY <2>2, <3>1, <3>2 DEF Known
  <2>3. CASE b.mode = "idle"
    BY <2>3 DEF Gflush, Outcome, Known
  <2> QED
    BY <1>1, <2>1, <2>2, <2>3 DEF Sound
<1>5. Known(o.b, o.k) = o.k.bytes
  BY <1>3, NothingOverlaid DEF Known
<1>6. Coherent(o.b, o.k)
  <2>1. SubSeq(o.k.bytes, o.b.offset + 1, o.b.offset + 0) = <<>>
    <3> DEFINE bs == o.k.bytes
               at == o.b.offset
    <3>1. bs \in Seq(Bytes) /\ at \in Nat
      BY <1>3 DEF Kernel, Sound
    <3> HIDE DEF bs, at
    <3>2. SubSeq(bs, at + 1, at) = <<>> /\ at + 0 = at
      BY <3>1, EmptyPiece
    <3> QED
      BY <3>2 DEF bs, at
  <2> QED
    BY <1>3, <2>1, EmptyType DEF Coherent
<1>7. Getpos(o.b) = Getpos(b)
  <2>1. Getpos(b) \in Nat
    BY <1>1, GetposType
  <2> DEFINE c == o.b
  <2>2. /\ c.data = <<>> /\ c.used = 0 /\ c.offset = Getpos(b)
        /\ Sound(c) /\ Len(c.unread) = 0 /\ Len(c.data) = 0
    BY <1>3, EmptyType DEF Sound
  <2> HIDE DEF c
  <2>3. Getpos(c) = c.offset
    <3>1. c.offset \in Nat /\ c.unread = <<>>
          /\ c.mode \in {"idle", "read", "write"}
      BY <2>2 DEF Sound
    <3> QED
      BY <2>2, <3>1, GetposEmpty
  <2> QED
    BY <2>2, <2>3 DEF c
<1> QED
  BY <1>3, <1>4, <1>5, <1>6, <1>7 DEF Still, Keeps

(* Nor is the turn between reading and writing.                            *)
LEMMA TurnStill ==
  ASSUME ~ IOErrors, NEW b, NEW k, Faithful(b, k),
         NEW mode \in {"read", "write"}, NEW o \in Turn(b, k, mode)
  PROVE  /\ Still(o, b, k) /\ o.ok = TRUE
         /\ Faithful(o.b, o.k) /\ o.b.mode = mode
<1>1. /\ Good(b, k) /\ Sound(b) /\ Kernel(k) /\ InPlace(b, k.pos)
      /\ "a" \notin b.can /\ Coherent(b, k)
  BY DEF Faithful, Good
<1>2. Fits(o, b) /\ o.b.mode = mode /\ o.b.buffered = b.buffered
  BY <1>1, TurnFits
<1>3. Still(o, b, k) /\ o.ok = TRUE
  <2>1. CASE b.mode = mode
    <3>1. o.b = b /\ o.k = k /\ o.ok = TRUE
      BY <2>1 DEF Turn, Outcome
    <3> QED
      BY <1>1, <3>1 DEF Still, Keeps
  <2>2. CASE b.mode # mode
    <3>1. PICK f \in Gflush(b, k) :
            o = IF f.ok
                THEN [f EXCEPT !.b = [@ EXCEPT !.mode = mode, !.data = <<>>,
                                         !.used = 0, !.room = 0, !.lead = 0]]
                ELSE f
      BY <2>2 DEF Turn
    <3>2. /\ Still(f, b, k) /\ f.k.bytes = Known(b, k) /\ f.ok = TRUE
          /\ Flushed(f, b)
      BY <1>1, GflushStill, GflushFits
    <3> DEFINE x == [f.b EXCEPT !.mode = mode, !.data = <<>>, !.used = 0,
                                !.room = 0, !.lead = 0]
    <3>3. o.b = x /\ o.k = f.k /\ o.ok = TRUE
      <4>1. o = [f EXCEPT !.b = x]
        BY <3>1, <3>2 DEF Flushed
      <4> HIDE DEF x
      <4> QED
        BY <3>2, <4>1 DEF Flushed, Fits
    <3>4. /\ x.mode = mode /\ x.offset = f.b.offset /\ x.data = <<>>
          /\ x.used = 0 /\ x.unread = <<>> /\ x.buffered = f.b.buffered
          /\ x.offset \in Nat /\ x.offset = Getpos(b)
      BY <3>2 DEF Flushed, Fits, Good, Sound
    <3> HIDE DEF x
    <3>5. Known(x, f.k) = Known(b, k)
      BY <3>2, <3>4, NothingOverlaid DEF Known
    <3>6. Getpos(x) = Getpos(b)
      <4>1. x.mode \in {"idle", "read", "write"}
        BY <3>4
      <4> QED
        BY <3>4, <4>1, GetposEmpty
    <3>7. Coherent(x, f.k)
      <4>1. f.k.bytes \in Seq(Bytes)
        BY <3>2 DEF Flushed, Fits, Good, Kernel
      <4> DEFINE bs == f.k.bytes
                 at == x.offset
      <4>2. bs \in Seq(Bytes) /\ at \in Nat
        BY <3>4, <4>1
      <4> HIDE DEF bs, at
      <4>3. SubSeq(bs, at + 1, at) = <<>> /\ at + 0 = at
        BY <4>2, EmptyPiece
      <4>4. SubSeq(f.k.bytes, x.offset + 1, x.offset + 0) = <<>>
        BY <4>3 DEF bs, at
      <4> QED
        BY <3>4, <4>4, EmptyType DEF Coherent
    <3> QED
      BY <1>2, <3>3, <3>5, <3>6, <3>7 DEF Still, Keeps
  <2> QED
    BY <2>1, <2>2
<1> QED
  BY <1>1, <1>2, <1>3 DEF Faithful, Fits, Still, Keeps

-----------------------------------------------------------------------------
(* What is read                                                            *)

(* A read returns the bytes at the position, and moves it past them.       *)
Reads(o, b, k, n) ==
  /\ Keeps(o, b, k)
  /\ \/ /\ o.ok = TRUE
        /\ o.ret = Cut(Known(b, k), Getpos(b), n)
        /\ Getpos(o.b) = Getpos(b) + Len(o.ret)
     \/ o.ok = FALSE /\ Getpos(o.b) = Getpos(b)

LEMMA ReadsIntro ==
  ASSUME NEW b, NEW k, Sound(b), b.mode = "read", NEW n, NEW ret,
         NEW x, NEW kx, x.mode = "read", x.buffered = b.buffered,
         x.offset \in Nat, x.used \in Nat, x.unread = <<>>,
         x.data \in Seq(Bytes), Coherent(x, kx), kx.bytes = k.bytes,
         ret = Cut(k.bytes, b.offset + b.used, n),
         x.offset + x.used = b.offset + b.used + Len(ret)
  PROVE  Reads(Outcome(x, kx, TRUE, ret), b, k, n)
<1> DEFINE o == Outcome(x, kx, TRUE, ret)
<1>1. o.b = x /\ o.k = kx /\ o.ok = TRUE /\ o.ret = ret
  BY DEF Outcome
<1> HIDE DEF o
<1>2. Known(b, k) = k.bytes /\ Known(x, kx) = k.bytes
  BY DEF Known
<1>3. Getpos(b) = b.offset + b.used
  BY GetposCases DEF Sound
<1>4. Getpos(x) = x.offset + x.used
  BY GetposCases
<1>5. Keeps(o, b, k)
  BY <1>1, <1>2 DEF Keeps
<1>6. o.ret = Cut(Known(b, k), Getpos(b), n)
  BY <1>1, <1>2, <1>3
<1>7. Getpos(o.b) = Getpos(b) + Len(o.ret)
  BY <1>1, <1>3, <1>4
<1>8. Reads(o, b, k, n)
  BY <1>1, <1>5, <1>6, <1>7 DEF Reads
<1> QED
  BY <1>8 DEF o

(* A stream that has read nothing ahead.                                   *)
LEMMA EmptyCoherent ==
  ASSUME NEW x, NEW kx, x.data = <<>>, x.offset \in Nat,
         kx.bytes \in Seq(Bytes)
  PROVE  Coherent(x, kx)
<1> DEFINE bs == kx.bytes
           at == x.offset
<1>1. bs \in Seq(Bytes) /\ at \in Nat
  OBVIOUS
<1> HIDE DEF bs, at
<1>2. SubSeq(bs, at + 1, at) = <<>> /\ at + 0 = at
  BY <1>1, EmptyPiece
<1> QED
  BY <1>2, EmptyType DEF Coherent, bs, at

(* Without errors read() gets all that there is, as far as it is wanted.   *)
LEMMA AheadCut ==
  ASSUME ~ IOErrors, NEW k, Kernel(k), NEW n \in Nat,
         NEW m \in ReadCounts(k, n)
  PROVE  /\ Ahead(k, m) = Cut(k.bytes, k.pos, n)
         /\ m = 0 \/ k.pos + m <= Len(k.bytes)
         /\ m = Lesser(n, Greater(0, Len(k.bytes) - k.pos))
<1> DEFINE bs == k.bytes
           at == k.pos
<1>1. bs \in Seq(Bytes) /\ at \in Nat /\ Len(bs) \in Nat
  BY EmptyType DEF Kernel
<1>2. m = Lesser(n, Greater(0, Len(bs) - at))
  BY DEF ReadCounts
<1>3. Ahead(k, m) = SubSeq(bs, at + 1, at + m)
  BY DEF Ahead
<1>4. Cut(bs, at, n) = SubSeq(bs, at + 1, Lesser(at + n, Len(bs)))
  BY DEF Cut
<1> HIDE DEF bs, at
<1>5. CASE at <= Len(bs)
  <2>1. at + m = Lesser(at + n, Len(bs)) /\ at + m <= Len(bs)
    BY <1>1, <1>2, <1>5 DEF Lesser, Greater
  <2> QED
    BY <1>2, <1>3, <1>4, <2>1 DEF bs, at
<1>6. CASE ~ (at <= Len(bs))
  <2>1. m = 0 /\ Lesser(at + n, Len(bs)) \in Int
        /\ Lesser(at + n, Len(bs)) <= at /\ at + m <= at /\ at + m \in Int
    BY <1>1, <1>2, <1>6 DEF Lesser, Greater
  <2>2. SubSeq(bs, at + 1, at + m) = <<>>
    BY <1>1, <2>1, EmptyPiece
  <2> DEFINE end == Lesser(at + n, Len(bs))
  <2>3. end \in Int /\ end <= at
    BY <2>1
  <2> HIDE DEF end
  <2>4. SubSeq(bs, at + 1, end) = <<>>
    BY <1>1, <2>3, EmptyPiece
  <2> QED
    BY <1>2, <1>3, <1>4, <2>1, <2>2, <2>4 DEF bs, at, end
<1> QED
  BY <1>1, <1>5, <1>6

LEMMA ReadPlainReads ==
  ASSUME ~ IOErrors, NEW b, NEW k, Faithful(b, k), b.mode = "read",
         ~ b.buffered, NEW n \in Nat, NEW o \in ReadPlain(b, k, n)
  PROVE  Reads(o, b, k, n)
<1>1. Sound(b) /\ Kernel(k) /\ b.unread = <<>>
  BY DEF Faithful, Good, Sound
<1>2. b.data = <<>> /\ Len(b.data) = 0 /\ b.used = 0 /\ k.pos = b.offset
      /\ b.offset \in Nat
  <2>1. b.data = <<>>
    BY DEF Faithful, Coherent
  <2>2. Len(b.data) = 0
    BY <2>1, EmptyType
  <2> QED
    BY <2>1, <2>2 DEF Faithful, Good, Sound, InPlace
<1>3. PICK m \in ReadCounts(k, n) :
        o = Outcome([b EXCEPT !.offset = @ + m], Moved(k, k.pos + m), TRUE,
                    Ahead(k, m))
  BY <1>1 DEF ReadPlain
<1> DEFINE x == [b EXCEPT !.offset = @ + m]
           kx == Moved(k, k.pos + m)
           ret == Ahead(k, m)
<1>4. m \in Nat /\ Len(ret) = m
  BY <1>1, AheadType
<1>5. ret = Cut(k.bytes, b.offset, n)
  BY <1>1, <1>2, AheadCut
<1>6. kx.bytes = k.bytes /\ kx.bytes \in Seq(Bytes)
  BY <1>1 DEF Kernel, Moved
<1>7. /\ x.mode = "read" /\ x.buffered = b.buffered
      /\ x.offset = b.offset + m /\ x.used = 0 /\ x.unread = <<>>
      /\ x.data = <<>>
  BY <1>1, <1>2 DEF Sound
<1> HIDE DEF x, kx, ret
<1>8. Coherent(x, kx)
  BY <1>2, <1>4, <1>6, <1>7, EmptyCoherent
<1>9. /\ x.offset \in Nat /\ x.used \in Nat /\ x.data \in Seq(Bytes)
      /\ b.offset + b.used = b.offset
      /\ x.offset + x.used = b.offset + b.used + Len(ret)
  BY <1>2, <1>4, <1>7, EmptyType
<1>10. Reads(Outcome(x, kx, TRUE, ret), b, k, n)
  BY <1>1, <1>5, <1>6, <1>7, <1>8, <1>9, ReadsIntro
<1> QED
  BY <1>3, <1>10 DEF x, kx, ret

LEMMA CutNothing ==
  ASSUME NEW bs \in Seq(Bytes), NEW p \in Nat
  PROVE  Cut(bs, p, 0) = <<>>
<1> DEFINE end == Lesser(p + 0, Len(bs))
<1>1. end \in Int /\ end <= p
  BY EmptyType DEF Lesser
<1> HIDE DEF end
<1>2. SubSeq(bs, p + 1, end) = <<>>
  BY <1>1, EmptyPiece
<1> QED
  BY <1>2 DEF Cut, end

(* Bytes from the cache and those behind them.                             *)
LEMMA CutJoin ==
  ASSUME NEW bs \in Seq(Bytes), NEW p \in Nat, NEW h \in Nat, NEW n \in Nat,
         h <= n, h = 0 \/ p + h <= Len(bs)
  PROVE  SubSeq(bs, p + 1, p + h) \o Cut(bs, p + h, n - h) = Cut(bs, p, n)
<1>1. Len(bs) \in Nat
  BY EmptyType
<1>2. CASE p + h <= Len(bs)
  <2> DEFINE q == p + h
             e == Lesser(p + n, Len(bs))
  <2>1. q \in Nat /\ e \in Nat /\ p <= q /\ q <= e /\ e <= Len(bs)
    BY <1>1, <1>2 DEF Lesser
  <2>2. q + (n - h) = p + n
    OBVIOUS
  <2>3. Cut(bs, q, n - h) = SubSeq(bs, q + 1, e)
    BY <2>2 DEF Cut
  <2>4. Cut(bs, p, n) = SubSeq(bs, p + 1, e)
    BY DEF Cut
  <2> HIDE DEF q, e
  <2>5. SubSeq(bs, p + 1, q) \o SubSeq(bs, q + 1, e) = SubSeq(bs, p + 1, e)
    BY <2>1, PiecesJoin
  <2> QED
    BY <2>3, <2>4, <2>5 DEF q
<1>3. CASE ~ (p + h <= Len(bs))
  <2>1. h = 0 /\ p + h = p /\ n - h = n
    BY <1>3
  <2>2. SubSeq(bs, p + 1, p) = <<>>
    BY EmptyPiece
  <2>3. Cut(bs, p, n) \in Seq(Bytes)
    <3> DEFINE e == Lesser(p + n, Len(bs))
    <3>1. e \in Int /\ e <= p
      BY <1>1, <1>3, <2>1 DEF Lesser
    <3> HIDE DEF e
    <3>2. SubSeq(bs, p + 1, e) = <<>>
      BY <3>1, EmptyPiece
    <3> QED
      BY <3>2, EmptyType DEF Cut, e
  <2> DEFINE c == Cut(bs, p, n)
  <2>4. c \in Seq(Bytes)
    BY <2>3
  <2> HIDE DEF c
  <2>5. <<>> \o c = c
    BY <2>4
  <2> QED
    BY <2>1, <2>2, <2>5 DEF c
<1> QED
  BY <1>2, <1>3

(* What is left of bytes that were read ahead.                             *)
LEMMA LeftOver ==
  ASSUME NEW bs \in Seq(Bytes), NEW at \in Nat, NEW end \in Nat, at <= end,
         end = at \/ end <= Len(bs), NEW u \in Nat, at + u <= end
  PROVE  From(SubSeq(bs, at + 1, end), u) = SubSeq(bs, at + u + 1, end)
<1> DEFINE d == SubSeq(bs, at + 1, end)
           p == at + u
<1>1. p \in Nat /\ p <= end
  OBVIOUS
<1>2. CASE end = at
  <2>1. u = 0 /\ p = at
    BY <1>2
  <2> HIDE DEF p
  <2>2. SubSeq(bs, p + 1, end) = <<>> /\ d = <<>>
    BY <1>2, <2>1, EmptyPiece
  <2> HIDE DEF d
  <2>3. From(d, u) = <<>>
    BY <2>1, <2>2, AllType, EmptyType
  <2> QED
    BY <2>2, <2>3 DEF p, d
<1>3. CASE end # at
  <2>1. end <= Len(bs) /\ at <= end
    BY <1>3, EmptyType
  <2> DEFINE m == end - at
  <2>2. Len(d) = m
    BY <2>1, PieceType
  <2>3. u <= m /\ m <= end - at /\ m \in Nat
    BY <2>1
  <2> HIDE DEF d
  <2>4. From(d, u) = SubSeq(d, u + 1, m)
    BY <2>2 DEF From
  <2> HIDE DEF m
  <2>5. SubSeq(SubSeq(bs, at + 1, end), u + 1, m)
          = SubSeq(bs, at + u + 1, at + m)
    BY <2>1, <2>3, PieceOfPiece
  <2>6. at + m = end
    BY DEF m
  <2> QED
    BY <2>4, <2>5, <2>6 DEF d
<1> QED
  BY <1>2, <1>3

(* Where the next byte comes from while nothing is pushed back.            *)
Place(b) == b.offset + b.used

(* What is left in the cache is the file from the position on, up to where *)
(* the descriptor is.                                                      *)
LEMMA CacheHolds ==
  ASSUME NEW b, NEW k, Faithful(b, k), b.mode = "read"
  PROVE  /\ k.bytes \in Seq(Bytes) /\ Place(b) \in Nat /\ InCaches(b) \in Nat
         /\ b.unread = <<>> /\ InCaches(b) = Len(b.data) - b.used
         /\ k.pos = Place(b) + InCaches(b)
         /\ From(b.data, b.used)
              = SubSeq(k.bytes, Place(b) + 1, Place(b) + InCaches(b))
         /\ InCaches(b) = 0 \/ Place(b) + InCaches(b) <= Len(k.bytes)
<1>1. /\ Sound(b) /\ Kernel(k) /\ InPlace(b, k.pos) /\ Coherent(b, k)
      /\ "a" \notin b.can
  BY DEF Faithful, Good
<1> DEFINE bs == k.bytes
           at == b.offset
           d == b.data
           u == b.used
           p == Place(b)
           h == InCaches(b)
           end == at + Len(d)
<1>2. /\ bs \in Seq(Bytes) /\ at \in Nat /\ d \in Seq(Bytes) /\ u \in Nat
      /\ u <= Len(d) /\ Len(d) \in Nat /\ b.unread = <<>> /\ Len(<<>>) = 0
  BY <1>1, EmptyType DEF Sound, Kernel
<1>3. /\ d = SubSeq(bs, at + 1, end)
      /\ d = <<>> \/ end <= Len(bs)
  BY <1>1 DEF Coherent
<1>4. k.pos = end
  BY <1>1 DEF InPlace
<1>5. h = 0 + Len(d) - u
  BY <1>2 DEF InCaches
<1>6. p = at + u
  BY DEF Place
<1> HIDE DEF bs, at, d, u, p, h
<1>7. /\ p \in Nat /\ h \in Nat /\ h = Len(d) - u /\ p + h = end
      /\ end \in Nat /\ Len(d) = end - at /\ p <= end
  BY <1>2, <1>5, <1>6
<1>8. d = <<>> => h = 0 /\ end = at
  BY <1>2, <1>7, EmptyType
<1> HIDE DEF end
<1>9. From(d, u) = SubSeq(bs, p + 1, end)
  <2>1. end = at \/ end <= Len(bs)
    BY <1>3, <1>8
  <2>2. /\ bs \in Seq(Bytes) /\ at \in Nat /\ u \in Nat
        /\ end \in Nat /\ at <= end /\ at + u <= end
    BY <1>2, <1>6, <1>7
  <2>3. From(SubSeq(bs, at + 1, end), u) = SubSeq(bs, at + u + 1, end)
    BY <2>1, <2>2, LeftOver
  <2> QED
    BY <1>3, <1>6, <2>3
<1>10. h = 0 \/ end <= Len(bs)
  BY <1>3, <1>8
<1> QED
  BY <1>2, <1>4, <1>7, <1>9, <1>10 DEF bs, d, u, p, h

(* The first n bytes of a part of a file.                                  *)
LEMMA FirstOf ==
  ASSUME NEW bs \in Seq(Bytes), NEW p \in Nat, NEW h \in Nat, NEW n \in Nat,
         n <= h, h = 0 \/ p + h <= Len(bs)
  PROVE  LET x == Upto(SubSeq(bs, p + 1, p + h), n)
         IN  /\ x = SubSeq(bs, p + 1, p + n) /\ x = Cut(bs, p, n)
             /\ x \in Seq(Bytes) /\ Len(x) = n
<1> DEFINE end == p + h
           q == p + n
           left == SubSeq(bs, p + 1, end)
           x == SubSeq(left, 0 + 1, n)
<1>1. /\ Len(bs) \in Nat /\ end \in Nat /\ q \in Nat /\ p <= q /\ q <= end
      /\ q - p = n /\ n <= end - p
  BY EmptyType
<1>2. CASE h = 0
  <2>1. n = 0 /\ q = p /\ end = p
    BY <1>2
  <2> HIDE DEF end, q
  <2>2. left = <<>> /\ SubSeq(bs, p + 1, q) = <<>>
    BY <1>1, <2>1, EmptyPiece
  <2> HIDE DEF left
  <2>3. x = <<>>
    BY <2>1, <2>2, EmptyPiece, EmptyType
  <2>4. Cut(bs, p, n) = <<>>
    BY <2>1, CutNothing
  <2> HIDE DEF x
  <2>5. x = SubSeq(bs, p + 1, q) /\ x = Cut(bs, p, n)
        /\ x \in Seq(Bytes) /\ Len(x) = n
    BY <2>1, <2>2, <2>3, <2>4, EmptyType
  <2> QED
    BY <2>5 DEF Upto, x, q, left, end
<1>3. CASE h # 0
  <2>1. end <= Len(bs)
    BY <1>3
  <2> HIDE DEF end
  <2>2. x = SubSeq(bs, p + 1, q)
    <3> DEFINE z == 0
    <3>1. z \in Nat /\ z <= n
      OBVIOUS
    <3> HIDE DEF z
    <3>2. SubSeq(SubSeq(bs, p + 1, end), z + 1, n)
            = SubSeq(bs, p + z + 1, p + n)
      BY <1>1, <2>1, <3>1, PieceOfPiece
    <3>3. p + 0 + 1 = p + 1
      OBVIOUS
    <3> QED
      BY <3>2, <3>3 DEF z
  <2>3. Lesser(q, Len(bs)) = q
    <3> HIDE DEF q
    <3> QED
      BY <1>1, <2>1 DEF Lesser
  <2>4. Cut(bs, p, n) = SubSeq(bs, p + 1, q)
    BY <2>3 DEF Cut
  <2> HIDE DEF q, left, x
  <2>5. SubSeq(bs, p + 1, q) \in Seq(Bytes) /\ Len(SubSeq(bs, p + 1, q)) = n
    BY <1>1, <2>1, PieceType
  <2> QED
    BY <2>2, <2>4, <2>5 DEF Upto, x, left, q, end
<1> QED
  BY <1>2, <1>3

(* Requests that the cache can serve.                                      *)
LEMMA ServedCut ==
  ASSUME NEW b, NEW k, Faithful(b, k), b.mode = "read", NEW n \in Nat,
         n <= InCaches(b)
  PROVE  /\ Served(b, n) = Cut(k.bytes, Place(b), n)
         /\ Served(b, n) = SubSeq(k.bytes, Place(b) + 1, Place(b) + n)
         /\ Served(b, n) \in Seq(Bytes) /\ Len(Served(b, n)) = n
<1> DEFINE bs == k.bytes
           p == Place(b)
           h == InCaches(b)
           left == From(b.data, b.used)
<1>1. /\ bs \in Seq(Bytes) /\ p \in Nat /\ h \in Nat /\ b.unread = <<>>
      /\ left = SubSeq(bs, p + 1, p + h) /\ (h = 0 \/ p + h <= Len(bs))
  BY CacheHolds
<1>2. n <= h
  OBVIOUS
<1>3. left \in Seq(Bytes)
  <2>1. b.data \in Seq(Bytes) /\ b.used \in 0 .. Len(b.data)
    BY EmptyType DEF Faithful, Good, Sound
  <2> QED
    BY <2>1, FromType
<1> HIDE DEF left
<1>4. Served(b, n) = Upto(left, n)
  <2>1. <<>> \o left = left
    BY <1>3
  <2> QED
    BY <1>1, <2>1 DEF Served, left
<1> HIDE DEF bs, h, p
<1> QED
  <2>1. bs \in Seq(Bytes) /\ p \in Nat /\ h \in Nat /\ (h = 0 \/ p + h <= Len(bs))
    BY <1>1
  <2> DEFINE x == Upto(SubSeq(bs, p + 1, p + h), n)
  <2>2. /\ x = SubSeq(bs, p + 1, p + n) /\ x = Cut(bs, p, n)
        /\ x \in Seq(Bytes) /\ Len(x) = n
    BY <1>2, <2>1, FirstOf, ZenonT(60)
  <2>3. x = Served(b, n)
    BY <1>1, <1>4
  <2> HIDE DEF x
  <2> QED
    BY <2>2, <2>3 DEF bs, p
(* Bytes consumed from the cache leave the rest what it was.               *)
LEMMA ConsumedFaithful ==
  ASSUME NEW b, NEW k, Faithful(b, k), b.mode = "read", NEW n \in Nat,
         n <= InCaches(b)
  PROVE  /\ Faithful(Consumed(b, n), k) /\ Consumed(b, n).mode = "read"
         /\ Consumed(b, n).buffered = b.buffered
         /\ Place(Consumed(b, n)) = Place(b) + n
         /\ InCaches(Consumed(b, n)) = InCaches(b) - n
<1> DEFINE x == Consumed(b, n)
<1>1. /\ Good(b, k) /\ Sound(b) /\ Coherent(b, k) /\ "a" \notin b.can
      /\ b.unread = <<>> /\ b.offset \in Nat /\ b.used \in Nat
      /\ Len(b.data) \in Nat
  BY EmptyType DEF Faithful, Good, Sound
<1>2. /\ Good(x, k) /\ x.can = b.can /\ x.mode = "read"
      /\ x.used = b.used + n /\ x.offset = b.offset /\ x.data = b.data
  BY <1>1, ConsumedGood
<1>3. x.buffered = b.buffered
  BY <1>1 DEF Consumed, Sound
<1> HIDE DEF x
<1>4. Faithful(x, k)
  BY <1>1, <1>2, <1>3 DEF Faithful, Coherent
<1>5. Place(x) = Place(b) + n
  BY <1>1, <1>2 DEF Place
<1>6. InCaches(x) = Len(b.data) - (b.used + n)
  BY <1>2, <1>4, CacheHolds
<1>7. InCaches(b) = Len(b.data) - b.used
  BY CacheHolds
<1>8. InCaches(x) = InCaches(b) - n
  BY <1>1, <1>6, <1>7
<1> QED
  BY <1>2, <1>3, <1>4, <1>5, <1>8 DEF x

(* What a transfer into empty caches does, got being there already.        *)
Delivers(o, b, k, n, got) ==
  /\ o.ok = TRUE
  /\ o.b.mode = "read" /\ o.b.buffered = b.buffered
  /\ o.k.bytes = k.bytes
  /\ Coherent(o.b, o.k)
  /\ o.ret = got \o Cut(k.bytes, Place(b), n)
  /\ Place(o.b) = Place(b) + Len(Cut(k.bytes, Place(b), n))

LEMMA RefillReads ==
  ASSUME ~ IOErrors, NEW b, NEW k, Faithful(b, k), b.mode = "read",
         b.buffered, InCaches(b) = 0, NEW n \in Nat, NEW got,
         NEW o \in Refill(b, k, n, got)
  PROVE  Delivers(o, b, k, n, got)
<1> DEFINE e == [b EXCEPT !.offset = @ + b.used, !.data = <<>>, !.used = 0]
<1>1. /\ Sound(b) /\ Kernel(k) /\ k.pos = Place(b) /\ k.bytes \in Seq(Bytes)
      /\ Place(b) \in Nat
  <2>1. k.pos = Place(b) + 0 /\ Place(b) \in Nat /\ k.bytes \in Seq(Bytes)
    BY CacheHolds
  <2> QED
    BY <2>1 DEF Faithful, Good
<1>2. /\ DOMAIN e = DOMAIN b /\ e.mode = "read" /\ e.offset = Place(b)
      /\ e.data = <<>> /\ e.used = 0 /\ e.buffered = b.buffered
  BY <1>1 DEF Sound, Place
<1>3. PICK cache \in CachesR :
        o \in IF n >= BigR \/ cache = 0
              THEN {Outcome([e EXCEPT !.offset = @ + m], Moved(k, k.pos + m),
                            TRUE, got \o Ahead(k, m)) : m \in ReadCounts(k, n)}
              ELSE LET want == RoundUp(Greater(n, cache))
                   IN  {Outcome([e EXCEPT !.data = Ahead(k, m),
                                   !.used = Lesser(n, m), !.lead = 0,
                                   !.size_p = Greater(@, want)],
                                Moved(k, k.pos + m), TRUE,
                                got \o Ahead(k, Lesser(n, m))) :
                          m \in ReadCounts(k, want)}
  BY DEF Refill
<1> HIDE DEF e
<1>4. CASE n >= BigR \/ cache = 0
  <2>1. PICK m \in ReadCounts(k, n) :
          o = Outcome([e EXCEPT !.offset = @ + m], Moved(k, k.pos + m), TRUE,
                      got \o Ahead(k, m))
    BY <1>3, <1>4
  <2>2. m \in Nat /\ Len(Ahead(k, m)) = m /\ Ahead(k, m) = Cut(k.bytes, k.pos, n)
    BY <1>1, AheadType, AheadCut
  <2> DEFINE x == [e EXCEPT !.offset = @ + m]
             kx == Moved(k, k.pos + m)
  <2>3. /\ x.mode = "read" /\ x.offset = Place(b) + m /\ x.data = <<>>
        /\ x.used = 0 /\ x.buffered = b.buffered
    BY <1>1, <1>2 DEF Sound
  <2>4. kx.bytes = k.bytes
    BY <1>1 DEF Moved, Kernel
  <2>5. o.b = x /\ o.k = kx /\ o.ok = TRUE /\ o.ret = got \o Ahead(k, m)
    BY <2>1 DEF Outcome
  <2> HIDE DEF x, kx
  <2>6. x.offset \in Nat
    BY <1>1, <2>2, <2>3
  <2>7. Coherent(x, kx)
    BY <1>1, <2>3, <2>4, <2>6, EmptyCoherent
  <2>8. Place(x) = Place(b) + m
    BY <1>1, <2>2, <2>3 DEF Place
  <2> QED
    BY <1>1, <2>2, <2>3, <2>4, <2>5, <2>7, <2>8 DEF Delivers
<1>5. CASE ~ (n >= BigR \/ cache = 0)
  <2> DEFINE want == RoundUp(Greater(n, cache))
  <2>1. want \in Nat /\ n <= want
    <3> DEFINE g == Greater(n, cache)
    <3>1. g \in Nat /\ n <= g
      BY BufferAssumption DEF Greater
    <3> HIDE DEF g
    <3>2. RoundUp(g) \in Nat /\ g <= RoundUp(g)
      BY <3>1, RoundUpSize
    <3> QED
      BY <3>1, <3>2 DEF g
  <2>2. PICK m \in ReadCounts(k, want) :
          o = Outcome([e EXCEPT !.data = Ahead(k, m), !.used = Lesser(n, m),
                                !.lead = 0, !.size_p = Greater(@, want)],
                      Moved(k, k.pos + m), TRUE, got \o Ahead(k, Lesser(n, m)))
    BY <1>3, <1>5
  <2> HIDE DEF want
  <2>3. /\ m \in Nat /\ Ahead(k, m) \in Seq(Bytes) /\ Len(Ahead(k, m)) = m
        /\ m = 0 \/ k.pos + m <= Len(k.bytes)
        /\ m = Lesser(want, Greater(0, Len(k.bytes) - k.pos))
    BY <1>1, <2>1, AheadType, AheadCut
  <2> DEFINE l == Lesser(n, m)
             x == [e EXCEPT !.data = Ahead(k, m), !.used = l,
                            !.lead = 0, !.size_p = Greater(@, want)]
             kx == Moved(k, k.pos + m)
  <2>4. l \in Nat /\ l \in ReadCounts(k, n)
    <3>1. k.pos \in Nat /\ Len(k.bytes) \in Nat
      BY <1>1, EmptyType
    <3>2. l = Lesser(n, Greater(0, Len(k.bytes) - k.pos))
      BY <2>1, <2>3, <3>1 DEF Lesser, Greater
    <3>3. l \in Nat
      BY <2>3 DEF Lesser
    <3> QED
      BY <3>2, <3>3 DEF ReadCounts
  <2>5. /\ x.mode = "read" /\ x.offset = Place(b) /\ x.data = Ahead(k, m)
        /\ x.used = l /\ x.buffered = b.buffered
    BY <1>1, <1>2 DEF Sound
  <2>6. kx.bytes = k.bytes
    BY <1>1 DEF Moved, Kernel
  <2>7. o.b = x /\ o.k = kx /\ o.ok = TRUE /\ o.ret = got \o Ahead(k, l)
    BY <2>2 DEF Outcome
  <2> HIDE DEF x, kx, l
  <2>8. Ahead(k, l) = Cut(k.bytes, k.pos, n) /\ Len(Ahead(k, l)) = l
    BY <1>1, <2>4, AheadType, AheadCut
  <2>9. Ahead(k, m) = SubSeq(k.bytes, k.pos + 1, k.pos + m)
    BY DEF Ahead
  <2>10. Coherent(x, kx)
    <3>1. x.data = SubSeq(kx.bytes, x.offset + 1, x.offset + Len(x.data))
      BY <1>1, <2>3, <2>5, <2>6, <2>9
    <3>2. x.data = <<>> \/ x.offset + Len(x.data) <= Len(kx.bytes)
      BY <1>1, <2>3, <2>5, <2>6, EmptyType
    <3> QED
      BY <2>5, <3>1, <3>2 DEF Coherent
  <2>11. Place(x) = Place(b) + l
    BY <2>5 DEF Place
  <2> QED
    BY <1>1, <2>5, <2>6, <2>7, <2>8, <2>10, <2>11 DEF Delivers
<1> QED
  BY <1>4, <1>5
LEMMA CutType ==
  ASSUME NEW bs \in Seq(Bytes), NEW p \in Nat, NEW n \in Nat
  PROVE  Cut(bs, p, n) \in Seq(Bytes)
<1> DEFINE e == Lesser(p + n, Len(bs))
<1>1. e \in Nat /\ e <= Len(bs) /\ Len(bs) \in Nat
  BY EmptyType DEF Lesser
<1> HIDE DEF e
<1>2. CASE e <= p
  <2>1. SubSeq(bs, p + 1, e) = <<>>
    BY <1>1, <1>2, EmptyPiece
  <2> QED
    BY <2>1, EmptyType DEF Cut, e
<1>3. CASE ~ (e <= p)
  <2>1. SubSeq(bs, p + 1, e) \in Seq(Bytes)
    BY <1>1, <1>3, PieceType
  <2> QED
    BY <2>1 DEF Cut, e
<1> QED
  BY <1>2, <1>3

(* Once a stream has turned to reading, what the transfer does from there  *)
(* is what the call does.                                                  *)
LEMMA ReadsAfter ==
  ASSUME NEW b, NEW k, NEW r, Still(r, b, k), NEW n, NEW o,
         Reads(o, r.b, r.k, n)
  PROVE  Reads(o, b, k, n)
<1>1. /\ Known(r.b, r.k) = Known(b, k) /\ Getpos(r.b) = Getpos(b)
      /\ r.b.buffered = b.buffered
  BY DEF Still, Keeps
<1>2. Keeps(o, b, k)
  BY <1>1 DEF Reads, Keeps
<1> QED
  BY <1>1, <1>2 DEF Reads

LEMMA DeliversReads ==
  ASSUME NEW b, NEW k, Faithful(b, k), b.mode = "read", NEW n \in Nat,
         NEW o, Delivers(o, b, k, n, <<>>), Sound(o.b)
  PROVE  Reads(o, b, k, n)
<1> DEFINE c == Cut(k.bytes, Place(b), n)
<1>1. /\ Sound(b) /\ k.bytes \in Seq(Bytes) /\ Place(b) \in Nat
      /\ b.unread = <<>> /\ o.b.unread = <<>>
  BY CacheHolds DEF Faithful, Good, Sound
<1>2. c \in Seq(Bytes)
  BY <1>1, CutType
<1>3. /\ o.ok = TRUE /\ o.b.mode = "read" /\ o.b.buffered = b.buffered
      /\ o.k.bytes = k.bytes /\ Coherent(o.b, o.k)
      /\ o.ret = <<>> \o c /\ Place(o.b) = Place(b) + Len(c)
  BY DEF Delivers
<1>4. Known(b, k) = k.bytes /\ Known(o.b, o.k) = k.bytes
  BY <1>3 DEF Known
<1>5. Getpos(b) = Place(b)
  BY <1>1, GetposCases DEF Sound, Place
<1>6. Getpos(o.b) = Place(o.b)
  <2> DEFINE x == o.b
  <2>1. Sound(x) /\ x.mode = "read" /\ x.unread = <<>>
    BY <1>1, <1>3
  <2> HIDE DEF x
  <2>2. Getpos(x) = Place(x)
    BY <2>1, GetposCases DEF Sound, Place
  <2> QED
    BY <2>2 DEF x
<1> HIDE DEF c
<1>7. o.ret = c
  BY <1>2, <1>3
<1>8. Keeps(o, b, k)
  BY <1>3, <1>4 DEF Keeps
<1> QED
  BY <1>3, <1>4, <1>5, <1>6, <1>7, <1>8 DEF Reads, c

(* Requests that the cache can serve in full.                              *)
LEMMA ServedDelivers ==
  ASSUME NEW b, NEW k, Faithful(b, k), b.mode = "read", NEW n \in Nat,
         n <= InCaches(b)
  PROVE  Delivers(Outcome(Consumed(b, n), k, TRUE, Served(b, n)), b, k, n, <<>>)
<1> DEFINE x == Consumed(b, n)
           ret == Served(b, n)
           o == Outcome(x, k, TRUE, ret)
<1>1. o.b = x /\ o.k = k /\ o.ok = TRUE /\ o.ret = ret
  BY DEF Outcome
<1>2. /\ ret = Cut(k.bytes, Place(b), n) /\ ret \in Seq(Bytes)
      /\ Len(ret) = n
  BY ServedCut
<1>3. /\ Faithful(x, k) /\ x.mode = "read" /\ x.buffered = b.buffered
      /\ Place(x) = Place(b) + n
  BY ConsumedFaithful
<1> HIDE DEF o, x, ret
<1>4. ret = <<>> \o ret
  BY <1>2
<1>5. Coherent(x, k)
  BY <1>3 DEF Faithful
<1>6. Delivers(o, b, k, n, <<>>)
  BY <1>1, <1>2, <1>3, <1>4, <1>5 DEF Delivers
<1> QED
  BY <1>6 DEF o, x, ret

(* The rest of a request, behind what the cache has served.                *)
LEMMA RestDelivers ==
  ASSUME ~ IOErrors, NEW b, NEW k, Faithful(b, k), b.mode = "read",
         b.buffered, NEW n \in Nat, ~ (n <= InCaches(b)),
         NEW o \in Refill(Consumed(b, InCaches(b)), k, n - InCaches(b),
                          Served(b, InCaches(b)))
  PROVE  Delivers(o, b, k, n, <<>>)
<1> DEFINE h == InCaches(b)
           c == Consumed(b, h)
           sv == Served(b, h)
           bs == k.bytes
           p == Place(b)
           q == p + h
           rest == Cut(bs, q, n - h)
<1>1. /\ bs \in Seq(Bytes) /\ p \in Nat /\ h \in Nat
      /\ h = 0 \/ p + h <= Len(bs)
  BY CacheHolds
<1>2. n - h \in Nat /\ h <= n /\ h <= h /\ q \in Nat
  BY <1>1
<1>3. /\ Faithful(c, k) /\ c.mode = "read" /\ c.buffered = b.buffered
      /\ Place(c) = q /\ InCaches(c) = h - h
  BY <1>1, <1>2, ConsumedFaithful
<1>4. sv = SubSeq(bs, p + 1, p + h) /\ sv \in Seq(Bytes) /\ Len(sv) = h
  BY <1>1, <1>2, ServedCut
<1>5. o \in Refill(c, k, n - h, sv)
  OBVIOUS
<1> HIDE DEF c, sv
<1>6. Delivers(o, c, k, n - h, sv)
  <2>1. InCaches(c) = 0 /\ c.buffered
    BY <1>1, <1>3
  <2> HIDE DEF h
  <2> QED
    BY <1>2, <1>3, <1>5, <2>1, RefillReads
<1>7. o.ret = sv \o rest /\ Place(o.b) = q + Len(rest)
  BY <1>3, <1>6 DEF Delivers
<1>8. sv \o rest = Cut(bs, p, n)
  <2> HIDE DEF h, bs, p
  <2> QED
    BY <1>1, <1>2, <1>4, CutJoin, ZenonT(60)
<1>9. rest \in Seq(Bytes)
  <2> HIDE DEF h, bs, p, q
  <2> QED
    BY <1>1, <1>2, CutType
<1> HIDE DEF rest
<1>10. Len(sv \o rest) = h + Len(rest) /\ Len(rest) \in Nat
       /\ sv \o rest \in Seq(Bytes) /\ <<>> \o (sv \o rest) = sv \o rest
  BY <1>4, <1>9
<1>11. Place(o.b) = p + Len(Cut(bs, p, n))
  <2>1. Len(Cut(bs, p, n)) = h + Len(rest)
    BY <1>8, <1>10
  <2> HIDE DEF h, p
  <2> QED
    BY <1>1, <1>7, <1>10, <2>1
<1>12. o.ret = <<>> \o Cut(bs, p, n)
  BY <1>7, <1>8, <1>10
<1> HIDE DEF p, h
<1> QED
  BY <1>3, <1>6, <1>11, <1>12 DEF Delivers, p, bs
(* Bytes of the file behind bytes of the file.                             *)
LEMMA JoinedPieces ==
  ASSUME NEW bs \in Seq(Bytes), NEW p \in Nat, NEW h \in Nat,
         h = 0 \/ p + h <= Len(bs), NEW m \in Nat,
         m = 0 \/ p + h + m <= Len(bs)
  PROVE  /\ SubSeq(bs, p + 1, p + h) \o SubSeq(bs, p + h + 1, p + h + m)
              = SubSeq(bs, p + 1, p + (h + m))
         /\ h + m = 0 \/ p + (h + m) <= Len(bs)
<1> DEFINE len == Len(bs)
           q == p + h
           e == p + h + m
<1>1. len \in Nat /\ q \in Nat /\ e \in Nat /\ p <= q /\ q <= e
      /\ e = p + (h + m) /\ q + m = e
  BY EmptyType
<1>2. (h = 0 \/ q <= len) /\ (m = 0 \/ e <= len)
  OBVIOUS
<1>3. (h = 0 => q = p) /\ (m = 0 => e = q) /\ (h + m = 0 => h = 0 /\ m = 0)
      /\ (h = 0 /\ m = 0 => h + m = 0)
  OBVIOUS
<1> HIDE DEF len, q, e
<1>4. CASE e <= len
  <2>1. SubSeq(bs, p + 1, q) \o SubSeq(bs, q + 1, e) = SubSeq(bs, p + 1, e)
    BY <1>1, <1>4, PiecesJoin DEF len
  <2> QED
    BY <1>1, <1>4, <2>1 DEF len, q, e
<1>5. CASE ~ (e <= len)
  <2>1. m = 0 /\ h = 0 /\ q = p /\ e = p
    BY <1>1, <1>2, <1>3, <1>5
  <2>2. SubSeq(bs, p + 1, p) = <<>>
    BY EmptyPiece
  <2>3. <<>> \o <<>> = <<>>
    BY EmptyType
  <2>4. SubSeq(bs, p + 1, q) \o SubSeq(bs, q + 1, e) = SubSeq(bs, p + 1, e)
    BY <2>1, <2>2, <2>3
  <2> QED
    BY <1>1, <1>3, <2>1, <2>4 DEF q, e
<1> QED
  BY <1>4, <1>5

(* The bytes at a place, up to the end of the file when there are not      *)
(* enough of them.                                                         *)
LEMMA CutAtEnd ==
  ASSUME NEW bs \in Seq(Bytes), NEW p \in Nat, NEW l \in Nat,
         l = 0 \/ p + l <= Len(bs), NEW n \in Nat,
         n <= l \/ Len(bs) <= p + l
  PROVE  /\ Upto(SubSeq(bs, p + 1, p + l), Lesser(n, l)) = Cut(bs, p, n)
         /\ Len(Upto(SubSeq(bs, p + 1, p + l), Lesser(n, l))) = Lesser(n, l)
<1> DEFINE len == Len(bs)
           have == Lesser(n, l)
<1>1. len \in Nat /\ have \in Nat /\ have <= l
      /\ (have = n \/ (have = l /\ l < n))
  BY EmptyType DEF Lesser
<1> HIDE DEF len, have
<1>2. /\ Upto(SubSeq(bs, p + 1, p + l), have) = Cut(bs, p, have)
      /\ Len(Upto(SubSeq(bs, p + 1, p + l), have)) = have
  <2>1. have \in Nat /\ have <= l
    BY <1>1
  <2> DEFINE u == Upto(SubSeq(bs, p + 1, p + l), have)
  <2>2. /\ u = SubSeq(bs, p + 1, p + have) /\ u = Cut(bs, p, have)
        /\ u \in Seq(Bytes) /\ Len(u) = have
    BY <2>1, FirstOf, ZenonT(60)
  <2> QED
    BY <2>2
<1>3. Cut(bs, p, have) = Cut(bs, p, n)
  <2>1. CASE have = n
    BY <2>1
  <2>2. CASE have = l /\ l < n
    <3> DEFINE i == Lesser(p + l, len)
               j == Lesser(p + n, len)
    <3>1. len <= p + l
      BY <1>1, <2>2 DEF len
    <3>2. i = len /\ j = len
      BY <1>1, <2>2, <3>1 DEF Lesser
    <3> HIDE DEF i, j
    <3> QED
      BY <2>2, <3>2 DEF Cut, i, j, len
  <2> QED
    BY <1>1, <2>1, <2>2
<1> QED
  BY <1>2, <1>3 DEF have

(* What one transfer brings: as much as is wanted, or all there is.        *)
LEMMA TransferEnds ==
  ASSUME NEW len \in Nat, NEW at \in Nat, NEW want \in Nat, NEW m \in Nat,
         m = Lesser(want, Greater(0, len - at)), NEW need \in Nat, need <= want
  PROVE  (m = 0 \/ at + m <= len) /\ (need <= m \/ len <= at + m)
BY DEF Lesser, Greater

LEMMA ReadBehindDelivers ==
  ASSUME ~ IOErrors, NEW b, NEW k, Faithful(b, k), b.mode = "read",
         b.buffered, NEW n \in Nat, ~ (n <= InCaches(b)),
         NEW o \in ReadBehind(b, k, n)
  PROVE  Delivers(o, b, k, n, <<>>)
<1> DEFINE left == From(b.data, b.used)
           need == n - InCaches(b)
           Want(cache) == IF cache = 0 THEN need
                          ELSE RoundUp(Len(left) + Greater(need, cache))
                                 - Len(left)
           Size(cache) == Greater(b.size_p, RoundUp(Len(left) + Want(cache)))
           After(m, cache) ==
             LET all == left \o Ahead(k, m)
                 have == Lesser(n, Len(b.unread) + Len(all))
             IN  Outcome([b EXCEPT !.offset = @ + b.used, !.data = all,
                                   !.used = have - Len(b.unread),
                                   !.unread = <<>>, !.lead = 0,
                                   !.size_p = Size(cache)],
                         Moved(k, k.pos + m), TRUE,
                         Upto(b.unread \o all, have))
           bs == k.bytes
           p == Place(b)
           h == InCaches(b)
<1>1. /\ Sound(b) /\ Kernel(k) /\ b.unread = <<>> /\ Len(b.unread) = 0
      /\ bs \in Seq(Bytes) /\ p \in Nat /\ h \in Nat
      /\ h = Len(b.data) - b.used
      /\ k.pos = p + h /\ left = SubSeq(bs, p + 1, p + h)
      /\ h = 0 \/ p + h <= Len(bs)
  BY CacheHolds, EmptyType DEF Faithful, Good
<1>2. left \in Seq(Bytes) /\ Len(left) = h
  <2>1. b.data \in Seq(Bytes) /\ b.used \in 0 .. Len(b.data)
    BY <1>1, EmptyType DEF Sound
  <2>2. left \in Seq(Bytes) /\ Len(left) = Len(b.data) - b.used
    BY <2>1, FromType
  <2> HIDE DEF left, h
  <2> QED
    BY <1>1, <2>2
<1>3. ReadBehind(b, k, n)
        = UNION {{After(m, cache) : m \in ReadCounts(k, Want(cache))} :
                   cache \in CachesR}
  BY DEF ReadBehind
<1> HIDE DEF After
<1>4. PICK cache \in CachesR :
        \E m \in ReadCounts(k, Want(cache)) : o = After(m, cache)
  BY <1>3
<1>5. PICK m \in ReadCounts(k, Want(cache)) : o = After(m, cache)
  BY <1>4
<1>6. need \in Nat /\ need = n - h
  BY <1>1
<1> DEFINE len == Len(bs)
<1>20. len \in Nat
  BY <1>1, EmptyType
<1> HIDE DEF left, need, bs, p, h, len
<1>21. h \in Nat /\ p \in Nat /\ Len(left) \in Nat /\ Len(left) = h
       /\ (h = 0 \/ p + h <= len) /\ n = need + h
  <2>1. h \in Nat /\ p \in Nat /\ Len(left) = h
    BY <1>1, <1>2
  <2>2. h = 0 \/ p + h <= len
    BY <1>1 DEF len
  <2> QED
    BY ONLY <1>6, <2>1, <2>2, n \in Nat
<1>7. Want(cache) \in Nat /\ need <= Want(cache)
  <2>1. cache \in Nat
    BY BufferAssumption
  <2> DEFINE g == Greater(need, cache)
             at == Len(left) + g
  <2>2. g \in Nat /\ need <= g
    BY <1>6, <2>1 DEF Greater
  <2> HIDE DEF g
  <2>3. at \in Nat
    BY <1>21, <2>2
  <2> HIDE DEF at
  <2>4. RoundUp(at) \in Nat /\ at <= RoundUp(at)
    BY <2>3, RoundUpSize
  <2>5. at = Len(left) + g /\ Len(left) \in Nat
    BY <1>21 DEF at
  <2>6. RoundUp(at) - Len(left) \in Nat /\ need <= RoundUp(at) - Len(left)
    BY <1>6, <2>2, <2>3, <2>4, <2>5
  <2> QED
    BY <1>6, <2>6 DEF g, at
<1> DEFINE want == Want(cache)
           size == Size(cache)
           all == left \o Ahead(k, m)
           have == Lesser(n, Len(b.unread) + Len(all))
           x == [b EXCEPT !.offset = @ + b.used, !.data = all,
                          !.used = have - Len(b.unread),
                          !.unread = <<>>, !.lead = 0, !.size_p = size]
           kx == Moved(k, k.pos + m)
           ret == Upto(b.unread \o all, have)
<1>8. o = Outcome(x, kx, TRUE, ret)
  BY <1>5 DEF After
<1> HIDE DEF size
<1>9. want \in Nat /\ m \in ReadCounts(k, want) /\ need <= want
  BY <1>7
<1> HIDE DEF want
<1>10. /\ m \in Nat /\ m = Lesser(want, Greater(0, Len(bs) - k.pos))
       /\ Ahead(k, m) \in Seq(Bytes) /\ Len(Ahead(k, m)) = m
  BY <1>1, <1>9, AheadType, AheadCut DEF bs
<1>11. Ahead(k, m) = SubSeq(bs, p + h + 1, p + h + m)
  BY <1>1 DEF Ahead, bs
<1>12. all \in Seq(Bytes) /\ Len(all) = h + m /\ b.unread \o all = all
       /\ all = SubSeq(bs, p + 1, p + h) \o SubSeq(bs, p + h + 1, p + h + m)
  <2> DEFINE y == Ahead(k, m)
  <2>1. y \in Seq(Bytes) /\ Len(y) = m /\ b.unread = <<>>
    BY <1>1, <1>10
  <2> HIDE DEF y
  <2>2. left \o y \in Seq(Bytes) /\ Len(left \o y) = h + m
    BY <1>2, <2>1, JoinedType
  <2>3. b.unread \o (left \o y) = left \o y
    BY <2>1, <2>2
  <2>4. left = SubSeq(bs, p + 1, p + h)
    BY <1>1
  <2> QED
    BY <1>11, <2>2, <2>3, <2>4 DEF y
<1>13. have = Lesser(n, h + m) /\ have - Len(b.unread) = have
       /\ have \in Nat /\ ret = Upto(all, have)
  <2>1. Len(b.unread) + Len(all) = h + m
    <3>1. Len(all) = h + m /\ Len(b.unread) = 0
      BY <1>1, <1>12
    <3> HIDE DEF all
    <3> QED
      BY <1>10, <1>21, <3>1
  <2>2. have = Lesser(n, h + m) /\ have \in Nat
    <3>1. h + m \in Nat
      BY <1>10, <1>21
    <3> DEFINE sum == Len(b.unread) + Len(all)
    <3>2. sum = h + m
      BY <2>1
    <3> HIDE DEF sum
    <3>3. Lesser(n, sum) = Lesser(n, h + m) /\ Lesser(n, h + m) \in Nat
      BY <3>1, <3>2 DEF Lesser
    <3> QED
      BY <3>3 DEF sum
  <2> HIDE DEF have, all
  <2> QED
    BY <1>1, <1>12, <2>2
<1> DEFINE joined == SubSeq(bs, p + 1, p + h) \o SubSeq(bs, p + h + 1, p + h + m)
           taken == Lesser(n, h + m)
<1>14. /\ joined = SubSeq(bs, p + 1, p + (h + m))
       /\ h + m = 0 \/ p + (h + m) <= Len(bs)
       /\ Upto(joined, taken) = Cut(bs, p, n)
       /\ Len(Upto(joined, taken)) = taken
  <2> DEFINE at == p + h
             l == h + m
  <2>1. at \in Nat /\ l \in Nat
    BY <1>10, <1>21
  <2>2. m = Lesser(want, Greater(0, len - at))
    BY <1>1, <1>10 DEF len
  <2>3. at + m = p + l /\ (need <= m => n <= l)
    <3>1. m \in Nat /\ h \in Nat /\ p \in Nat /\ need \in Nat
          /\ n = need + h
      BY <1>6, <1>10, <1>21
    <3> QED
      BY ONLY <3>1
  <2> HIDE DEF at
  <2>4. (m = 0 \/ at + m <= len) /\ (need <= m \/ len <= at + m)
    BY <1>6, <1>9, <1>10, <1>20, <2>1, <2>2, TransferEnds
  <2>5. m = 0 \/ p + h + m <= Len(bs)
    BY <2>4 DEF len, at
  <2>6. joined = SubSeq(bs, p + 1, p + (h + m))
        /\ (h + m = 0 \/ p + (h + m) <= Len(bs))
    <3>1. bs \in Seq(Bytes) /\ p \in Nat /\ h \in Nat /\ m \in Nat
          /\ (h = 0 \/ p + h <= Len(bs))
      BY <1>1, <1>10
    <3> QED
      BY ONLY <2>5, <3>1, JoinedPieces
  <2>7. n <= l \/ len <= p + l
    BY <2>3, <2>4
  <2>8. joined = SubSeq(bs, p + 1, p + l) /\ (l = 0 \/ p + l <= Len(bs))
        /\ taken = Lesser(n, l)
    BY <2>6
  <2> HIDE DEF l, joined, taken
  <2>9. /\ Upto(SubSeq(bs, p + 1, p + l), Lesser(n, l)) = Cut(bs, p, n)
        /\ Len(Upto(SubSeq(bs, p + 1, p + l), Lesser(n, l))) = Lesser(n, l)
    <3>1. bs \in Seq(Bytes) /\ p \in Nat /\ l \in Nat /\ n \in Nat
          /\ (l = 0 \/ p + l <= Len(bs)) /\ (n <= l \/ Len(bs) <= p + l)
      BY <1>1, <2>1, <2>7, <2>8 DEF len
    <3> QED
      BY ONLY <3>1, CutAtEnd, ZenonT(60)
  <2> QED
    BY <2>6, <2>8, <2>9
<1>15. all = joined /\ have = taken
  BY <1>12, <1>13
<1> HIDE DEF joined, taken, ret, all, have
<1>16. ret = Cut(bs, p, n) /\ Len(ret) = have
  BY <1>13, <1>14, <1>15
<1>17. /\ DOMAIN x = DOMAIN b /\ x.mode = "read" /\ x.offset = b.offset + b.used
       /\ x.data = all /\ x.used = have /\ x.buffered = b.buffered
  BY <1>1, <1>13 DEF Sound
<1>18. kx.bytes = bs
  BY <1>1 DEF Moved, Kernel, bs
<1>19. o.b = x /\ o.k = kx /\ o.ok = TRUE /\ o.ret = ret
  BY <1>8 DEF Outcome
<1> HIDE DEF x, kx
<1>22. x.offset = p
  BY <1>17 DEF Place, p
<1>23. Coherent(x, kx)
  <2>1. x.data = SubSeq(kx.bytes, x.offset + 1, x.offset + Len(x.data))
    BY <1>12, <1>14, <1>15, <1>17, <1>18, <1>22
  <2>2. x.data = <<>> \/ x.offset + Len(x.data) <= Len(kx.bytes)
    BY <1>12, <1>14, <1>17, <1>18, <1>22, EmptyType
  <2> QED
    BY <1>17, <2>1, <2>2 DEF Coherent
<1>24. Place(x) = p + Len(ret)
  BY <1>16, <1>17, <1>22 DEF Place
<1>25. ret = <<>> \o ret
  <2>1. ret \in Seq(Bytes)
    BY <1>1, <1>16, CutType
  <2> QED
    BY <2>1
<1> QED
  BY <1>16, <1>17, <1>18, <1>19, <1>23, <1>24, <1>25 DEF Delivers, bs, p
(* greadc: what it returns is what the file is known to hold at the place. *)
LEMMA GreadcReads ==
  ASSUME ~ IOErrors, NEW b, NEW k, Faithful(b, k), NEW n \in Nat,
         NEW o \in Greadc(b, k, n)
  PROVE  Reads(o, b, k, n)
<1>1. CASE o = Outcome(b, k, FALSE, <<>>)
  <2>1. o.b = b /\ o.k = k /\ o.ok = FALSE
    BY <1>1 DEF Outcome
  <2> QED
    BY <2>1 DEF Reads, Keeps, Faithful
<1>2. CASE o # Outcome(b, k, FALSE, <<>>)
  <2> DEFINE Part(r) ==
               IF ~ r.ok THEN {[r EXCEPT !.ret = <<>>]}
               ELSE IF ~ b.buffered THEN ReadPlain(r.b, r.k, n)
               ELSE IF n <= InCaches(r.b)
               THEN {Outcome(Consumed(r.b, n), r.k, TRUE, Served(r.b, n))}
               ELSE Refill(Consumed(r.b, InCaches(r.b)), r.k,
                           n - InCaches(r.b), Served(r.b, InCaches(r.b)))
  <2>1. PICK r \in Turn(b, k, "read") : o \in Part(r)
    <3>1. Greadc(b, k, n)
            = IF "r" \notin b.can /\ b.mode # "read"
              THEN {Outcome(b, k, FALSE, <<>>)}
              ELSE UNION {Part(r) : r \in Turn(b, k, "read")}
      BY DEF Greadc, Reading
    <3> HIDE DEF Part
    <3> QED
      BY <1>2, <3>1
  <2>2. Still(r, b, k) /\ r.ok = TRUE /\ Faithful(r.b, r.k)
        /\ r.b.mode = "read"
    BY TurnStill
  <2>3. Still(r, b, k) => r.b.buffered = b.buffered
    BY DEF Still, Keeps
  <2>4. Sound(o.b)
    <3>1. Good(b, k)
      BY DEF Faithful
    <3>2. Fits(o, b)
      BY <3>1, GreadcFits
    <3> QED
      BY <3>2 DEF Fits, Good
  <2>5. Reads(o, r.b, r.k, n)
    <3>1. CASE ~ b.buffered
      <4>1. o \in ReadPlain(r.b, r.k, n)
        BY <2>1, <2>2, <3>1
      <4> QED
        BY <2>2, <2>3, <3>1, <4>1, ReadPlainReads
    <3>2. CASE b.buffered /\ n <= InCaches(r.b)
      <4>1. o = Outcome(Consumed(r.b, n), r.k, TRUE, Served(r.b, n))
        BY <2>1, <2>2, <3>2
      <4>2. Delivers(o, r.b, r.k, n, <<>>)
        BY <2>2, <3>2, <4>1, ServedDelivers
      <4> QED
        BY <2>2, <2>4, <4>2, DeliversReads
    <3>3. CASE b.buffered /\ ~ (n <= InCaches(r.b))
      <4>1. o \in Refill(Consumed(r.b, InCaches(r.b)), r.k,
                           n - InCaches(r.b), Served(r.b, InCaches(r.b)))
        BY <2>1, <2>2, <3>3
      <4>2. Delivers(o, r.b, r.k, n, <<>>)
        BY <2>2, <2>3, <3>3, <4>1, RestDelivers
      <4> QED
        BY <2>2, <2>4, <4>2, DeliversReads
    <3> QED
      BY <3>1, <3>2, <3>3
  <2> QED
    BY <2>2, <2>5, ReadsAfter
<1> QED
  BY <1>1, <1>2

(* greadb, greada and ggetc: the same of what the pointer leads to.        *)
LEMMA GreadbReads ==
  ASSUME ~ IOErrors, NEW b, NEW k, Faithful(b, k), NEW n \in Nat,
         NEW o \in Greadb(b, k, n)
  PROVE  Reads(o, b, k, n)
<1>1. CASE o = Outcome(b, k, FALSE, <<>>)
  <2>1. o.b = b /\ o.k = k /\ o.ok = FALSE
    BY <1>1 DEF Outcome
  <2> QED
    BY <2>1 DEF Reads, Keeps, Faithful
<1>2. CASE o # Outcome(b, k, FALSE, <<>>)
  <2> DEFINE Part(r) ==
               IF ~ r.ok THEN {[r EXCEPT !.ret = <<>>]}
               ELSE IF ~ b.buffered THEN ReadPlain(r.b, r.k, n)
               ELSE IF n <= InCaches(r.b)
               THEN {Outcome(Consumed(r.b, n), r.k, TRUE, Served(r.b, n))}
               ELSE ReadBehind(r.b, r.k, n)
  <2>1. PICK r \in Turn(b, k, "read") : o \in Part(r)
    <3>1. Greadb(b, k, n)
            = IF "r" \notin b.can /\ b.mode # "read"
              THEN {Outcome(b, k, FALSE, <<>>)}
              ELSE UNION {Part(r) : r \in Turn(b, k, "read")}
      BY DEF Greadb, Reading
    <3> HIDE DEF Part
    <3> QED
      BY <1>2, <3>1
  <2>2. Still(r, b, k) /\ r.ok = TRUE /\ Faithful(r.b, r.k)
        /\ r.b.mode = "read"
    BY TurnStill
  <2>3. Still(r, b, k) => r.b.buffered = b.buffered
    BY DEF Still, Keeps
  <2>4. Sound(o.b)
    <3>1. Good(b, k)
      BY DEF Faithful
    <3>2. Fits(o, b)
      BY <3>1, GreadbFits
    <3> QED
      BY <3>2 DEF Fits, Good
  <2>5. Reads(o, r.b, r.k, n)
    <3>1. CASE ~ b.buffered
      <4>1. o \in ReadPlain(r.b, r.k, n)
        BY <2>1, <2>2, <3>1
      <4> QED
        BY <2>2, <2>3, <3>1, <4>1, ReadPlainReads
    <3>2. CASE b.buffered /\ n <= InCaches(r.b)
      <4>1. o = Outcome(Consumed(r.b, n), r.k, TRUE, Served(r.b, n))
        BY <2>1, <2>2, <3>2
      <4>2. Delivers(o, r.b, r.k, n, <<>>)
        BY <2>2, <3>2, <4>1, ServedDelivers
      <4> QED
        BY <2>2, <2>4, <4>2, DeliversReads
    <3>3. CASE b.buffered /\ ~ (n <= InCaches(r.b))
      <4>1. o \in ReadBehind(r.b, r.k, n)
        BY <2>1, <2>2, <3>3
      <4>2. Delivers(o, r.b, r.k, n, <<>>)
        BY <2>2, <2>3, <3>3, <4>1, ReadBehindDelivers
      <4> QED
        BY <2>2, <2>4, <4>2, DeliversReads
    <3> QED
      BY <3>1, <3>2, <3>3
  <2> QED
    BY <2>2, <2>5, ReadsAfter
<1> QED
  BY <1>1, <1>2


LEMMA KnownType ==
  ASSUME NEW b, NEW k, Good(b, k)
  PROVE  Known(b, k) \in Seq(Bytes) /\ Getpos(b) \in Nat
<1>1. /\ Sound(b) /\ k.bytes \in Seq(Bytes) /\ b.offset \in Nat
      /\ b.data \in Seq(Bytes)
  BY DEF Good, Sound, Kernel
<1>2. Overlay(k.bytes, b.offset, b.data) \in Seq(Bytes)
  BY <1>1, OverlayType
<1> QED
  BY <1>1, <1>2, GetposType DEF Known

-----------------------------------------------------------------------------
(* What is written                                                         *)

(* bs is at the position of what is known of the file, and the position is *)
(* behind it.                                                              *)
Takes(o, b, k, bs) ==
  /\ o.ok = TRUE
  /\ o.b.mode = "write" /\ o.b.buffered = b.buffered
  /\ Known(o.b, o.k) = Overlay(Known(b, k), Getpos(b), bs)
  /\ Getpos(o.b) = Getpos(b) + Len(bs)

(* One part of a call after the other.                                     *)
LEMMA TakesAfter ==
  ASSUME NEW b, NEW k, Good(b, k), NEW x \in Seq(Bytes), NEW y \in Seq(Bytes),
         NEW r, Takes(r, b, k, x), NEW o, Takes(o, r.b, r.k, y)
  PROVE  Takes(o, b, k, x \o y)
<1> DEFINE kn == Known(b, k)
           p == Getpos(b)
           kr == Known(r.b, r.k)
           pr == Getpos(r.b)
           xy == x \o y
<1>1. kn \in Seq(Bytes) /\ p \in Nat
  BY KnownType
<1>2. kr = Overlay(kn, p, x) /\ pr = p + Len(x)
      /\ r.b.buffered = b.buffered
  BY DEF Takes
<1>3. /\ o.ok = TRUE /\ o.b.mode = "write" /\ o.b.buffered = r.b.buffered
      /\ Known(o.b, o.k) = Overlay(kr, pr, y)
      /\ Getpos(o.b) = pr + Len(y)
  BY DEF Takes
<1>4. Takes(o, b, k, xy)
        <=> /\ o.ok = TRUE
            /\ o.b.mode = "write" /\ o.b.buffered = b.buffered
            /\ Known(o.b, o.k) = Overlay(kn, p, xy)
            /\ Getpos(o.b) = p + Len(xy)
  BY DEF Takes
<1> HIDE DEF kn, p, kr, pr
<1>5. Overlay(Overlay(kn, p, x), p + Len(x), y) = Overlay(kn, p, xy)
  BY <1>1, OverlayTwice
<1>6. Len(xy) = Len(x) + Len(y) /\ Len(x) \in Nat /\ Len(y) \in Nat
  BY JoinedType, EmptyType
<1> HIDE DEF xy
<1>7. pr + Len(y) = p + Len(xy)
  BY <1>1, <1>2, <1>6
<1>8. Known(o.b, o.k) = Overlay(kn, p, xy)
  BY <1>2, <1>3, <1>5
<1>9. Takes(o, b, k, xy)
  BY <1>2, <1>3, <1>4, <1>7, <1>8
<1> QED
  BY <1>9 DEF xy

(* What waits and what the call brings, x of it written and y left to wait. *)
LEMMA Rearranged ==
  ASSUME NEW b, NEW k, Good(b, k), b.mode = "write",
         NEW bs \in Seq(Bytes), NEW x \in Seq(Bytes), NEW y \in Seq(Bytes),
         x \o y = b.data \o bs,
         NEW o, o.ok = TRUE, o.b.mode = "write", o.b.buffered = b.buffered,
         o.b.offset = b.offset + Len(x), o.b.data = y,
         o.k.bytes = Overlay(k.bytes, b.offset, x)
  PROVE  Takes(o, b, k, bs)
<1> DEFINE d == b.data
           p == b.offset
           kb == k.bytes
           end == p + Len(d)
<1>1. /\ d \in Seq(Bytes) /\ p \in Nat /\ kb \in Seq(Bytes)
      /\ Len(d) \in Nat
  BY EmptyType DEF Good, Sound, Kernel
<1>2. /\ Known(o.b, o.k) = Overlay(Overlay(kb, p, x), p + Len(x), y)
      /\ Getpos(o.b) = p + Len(x) + Len(y)
  BY DEF Known, Getpos
<1>3. Known(b, k) = Overlay(kb, p, d) /\ Getpos(b) = end
  BY DEF Known, Getpos
<1>4. x \o y = d \o bs
  OBVIOUS
<1>5. Takes(o, b, k, bs)
        <=> /\ Known(o.b, o.k) = Overlay(Known(b, k), Getpos(b), bs)
            /\ Getpos(o.b) = Getpos(b) + Len(bs)
  BY DEF Takes
<1> HIDE DEF d, p, kb
<1>6. Overlay(Overlay(kb, p, x), p + Len(x), y) = Overlay(kb, p, x \o y)
  <2>1. x \in Seq(Bytes) /\ y \in Seq(Bytes)
    OBVIOUS
  <2> QED
    BY ONLY <1>1, <2>1, OverlayTwice
<1>7. Overlay(Overlay(kb, p, d), p + Len(d), bs) = Overlay(kb, p, d \o bs)
  <2>1. bs \in Seq(Bytes)
    OBVIOUS
  <2> QED
    BY ONLY <1>1, <2>1, OverlayTwice
<1>8. Known(o.b, o.k) = Overlay(Known(b, k), Getpos(b), bs)
  BY <1>2, <1>3, <1>4, <1>6, <1>7
<1>9. Len(x) + Len(y) = Len(d) + Len(bs) /\ Len(x) \in Nat /\ Len(y) \in Nat
      /\ Len(bs) \in Nat
  <2>1. Len(x \o y) = Len(x) + Len(y) /\ Len(d \o bs) = Len(d) + Len(bs)
    BY <1>1, JoinedType
  <2> QED
    BY <1>4, <2>1, EmptyType
<1>10. Getpos(o.b) = Getpos(b) + Len(bs)
  <2>1. p + Len(x) + Len(y) = end + Len(bs)
    <3> DEFINE l == Len(x)
               m == Len(y)
               n == Len(d)
               z == Len(bs)
    <3>1. /\ l + m = n + z /\ p \in Nat /\ l \in Nat /\ m \in Nat
          /\ n \in Nat /\ z \in Nat
      BY <1>1, <1>9
    <3> HIDE DEF l, m, n, z
    <3>2. p + l + m = p + n + z
      BY ONLY <3>1
    <3> QED
      BY <3>2 DEF l, m, n, z
  <2> QED
    BY <1>2, <1>3, <2>1
<1> QED
  BY <1>5, <1>8, <1>10

(* With nothing of it written: bs waits behind what waits.                 *)
LEMMA Joined ==
  ASSUME NEW b, NEW k, Good(b, k), b.mode = "write", NEW bs \in Seq(Bytes),
         NEW o, o.ok = TRUE, o.b.mode = "write", o.b.buffered = b.buffered,
         o.b.offset = b.offset, o.b.data = b.data \o bs, o.k.bytes = k.bytes
  PROVE  Takes(o, b, k, bs)
<1> DEFINE all == b.data \o bs
           none == <<>>
<1>1. all \in Seq(Bytes) /\ b.offset \in Nat
  BY JoinedType DEF Good, Sound
<1> HIDE DEF all
<1>2. none \in Seq(Bytes) /\ none \o all = b.data \o bs /\ Len(none) = 0
  BY <1>1, EmptyType DEF all
<1>3. o.k.bytes = Overlay(k.bytes, b.offset, none)
  BY NothingOverlaid
<1> HIDE DEF none
<1>4. o.b.offset = b.offset + Len(none)
  BY <1>1, <1>2
<1>5. o.b.data = all
  BY DEF all
<1> QED
  BY <1>1, <1>2, <1>3, <1>4, <1>5, Rearranged

(* With all of it written, where the kernel is.                            *)
LEMMA Emptied ==
  ASSUME NEW b, NEW k, Faithful(b, k), b.mode = "write", NEW bs \in Seq(Bytes),
         NEW o, o.ok = TRUE, o.b.mode = "write", o.b.buffered = b.buffered,
         o.b.offset = b.offset + Len(b.data \o bs), o.b.data = <<>>,
         o.k = Written(b, k, b.data \o bs)
  PROVE  Takes(o, b, k, bs)
<1> DEFINE all == b.data \o bs
           none == <<>>
<1>1. all \in Seq(Bytes) /\ Good(b, k) /\ "a" \notin b.can
  BY JoinedType DEF Faithful, Good, Sound
<1>2. k.pos = b.offset
  BY <1>1 DEF Good, InPlace, Sound, Kernel
<1> HIDE DEF all
<1>3. none \in Seq(Bytes) /\ all \o none = b.data \o bs
  BY <1>1, EmptyType DEF all
<1>4. o.k.bytes = Overlay(k.bytes, b.offset, all)
  BY <1>1, <1>2, WrittenBytes DEF all
<1> HIDE DEF none
<1>5. o.b.offset = b.offset + Len(all) /\ o.b.data = none
  BY DEF all, none
<1> QED
  BY <1>1, <1>3, <1>4, <1>5, Rearranged

LEMMA StoredTakes ==
  ASSUME NEW b, NEW k, Good(b, k), b.mode = "write", NEW bs \in Seq(Bytes)
  PROVE  Takes(Stored(b, k, bs), b, k, bs) /\ Stored(b, k, bs).ret = Len(bs)
<1> DEFINE o == Stored(b, k, bs)
<1>1. /\ o.ok = TRUE /\ o.b.mode = "write" /\ o.b.buffered = b.buffered
      /\ o.b.offset = b.offset /\ o.b.data = b.data \o bs /\ o.k = k
      /\ o.ret = Len(bs)
  BY DEF Stored, Outcome, Good, Sound
<1> HIDE DEF o
<1>2. Takes(o, b, k, bs)
  BY <1>1, Joined
<1> QED
  BY <1>1, <1>2 DEF o

LEMMA WriteEmptyTakes ==
  ASSUME ~ IOErrors, NEW b, NEW k, Faithful(b, k), b.mode = "write",
         b.buffered, b.data = <<>>, NEW bs \in Seq(Bytes), NEW n,
         NEW o \in WriteEmpty(b, k, bs, n)
  PROVE  Takes(o, b, k, bs) /\ o.ret = n + Len(bs)
<1>1. /\ Good(b, k) /\ Sound(b) /\ Len(bs) \in Nat /\ BigW \in Nat
      /\ b.data \o bs = bs
  <2>1. <<>> \o bs = bs
    OBVIOUS
  <2> QED
    BY <2>1, EmptyType, BufferAssumption DEF Faithful, Good
<1>2. CASE Len(bs) >= BigW
  <2> DEFINE m == Len(bs)
             x == [b EXCEPT !.offset = @ + m, !.lead = 0,
                            !.room = IF b.size_p > 0 THEN b.size_p ELSE @]
             kx == Written(b, k, Upto(bs, m))
             After(i) ==
               Outcome([b EXCEPT !.offset = @ + i, !.lead = 0,
                                 !.room = IF b.size_p > 0 THEN b.size_p
                                          ELSE @],
                       Written(b, k, Upto(bs, i)), i = Len(bs), n + i)
  <2>1. WriteEmpty(b, k, bs, n) = {After(i) : i \in WriteCounts(Len(bs))}
    BY <1>2 DEF WriteEmpty
  <2>2. After(m) = Outcome(x, kx, TRUE, n + m)
    OBVIOUS
  <2> HIDE DEF After, x, kx
  <2>3. WriteCounts(Len(bs)) = {m}
    BY AllWritten
  <2> HIDE DEF m
  <2>4. o = Outcome(x, kx, TRUE, n + m)
    BY <2>1, <2>2, <2>3
  <2>5. o.b = x /\ o.k = kx /\ o.ok = TRUE /\ o.ret = n + m
    BY <2>4 DEF Outcome
  <2>6. kx = Written(b, k, b.data \o bs)
    <3>1. Upto(bs, m) = bs
      BY AllType DEF m
    <3> QED
      BY <1>1, <3>1 DEF kx
  <2>7. x.mode = "write" /\ x.buffered = b.buffered /\ x.data = <<>>
        /\ x.offset = b.offset + Len(b.data \o bs)
    BY <1>1 DEF x, m, Sound
  <2>8. Takes(o, b, k, bs)
    BY <2>5, <2>6, <2>7, Emptied
  <2> QED
    BY <2>5, <2>8 DEF m
<1>3. CASE ~ (Len(bs) >= BigW)
  <2> DEFINE Size(cache) ==
               Greater(b.size_p, RoundUp(Greater(Len(bs), cache)))
             After(size) == [b EXCEPT !.data = bs, !.lead = 0, !.size_p = size,
                                      !.room = size - Len(bs)]
  <2>1. PICK cache \in CachesW :
          o = Outcome(After(Size(cache)), k, TRUE, n + Len(bs))
    BY <1>3 DEF WriteEmpty
  <2> DEFINE x == After(Size(cache))
  <2>2. o.b = x /\ o.k = k /\ o.ok = TRUE /\ o.ret = n + Len(bs)
    <3> HIDE DEF After
    <3> QED
      BY <2>1 DEF Outcome
  <2>3. /\ x.mode = "write" /\ x.buffered = b.buffered
        /\ x.data = b.data \o bs /\ x.offset = b.offset
    BY <1>1 DEF Sound
  <2> HIDE DEF x
  <2> QED
    BY <1>1, <2>2, <2>3, Joined
<1> QED
  BY <1>2, <1>3

(* What gwriteb left with a non-buffered stream.                           *)
LEMMA WriteLeftStill ==
  ASSUME ~ IOErrors, NEW b, NEW k, Faithful(b, k), b.mode = "write",
         ~ b.buffered, NEW o \in WriteLeft(b, k)
  PROVE  /\ Takes(o, b, k, <<>>) /\ Faithful(o.b, o.k) /\ o.b.data = <<>>
         /\ o.b.mode = "write"
<1> DEFINE m == Len(b.data)
           x == [b EXCEPT !.offset = @ + m,
                          !.data = IF m = 0 THEN @ ELSE <<>>,
                          !.lead = IF m = 0 THEN @ ELSE 0]
           kx == Written(b, k, Upto(b.data, m))
           After(i) ==
             Outcome([b EXCEPT !.offset = @ + i,
                               !.data = IF i = 0 THEN @ ELSE <<>>,
                               !.lead = IF i = 0 THEN @ ELSE 0],
                     Written(b, k, Upto(b.data, i)), i = Len(b.data), 0)
           none == <<>>
<1>1. /\ Good(b, k) /\ Sound(b) /\ "a" \notin b.can /\ b.data \in Seq(Bytes)
      /\ none \in Seq(Bytes)
  BY EmptyType DEF Faithful, Good, Sound
<1>2. WriteLeft(b, k) = {After(i) : i \in WriteCounts(Len(b.data))}
  BY DEF WriteLeft
<1>3. After(m) = Outcome(x, kx, TRUE, 0)
  OBVIOUS
<1>4. x.mode = "write" /\ x.buffered = b.buffered /\ x.offset = b.offset + m
  BY <1>1 DEF Sound
<1> HIDE DEF After, x, kx
<1>5. WriteCounts(Len(b.data)) = {m}
  BY AllWritten
<1> HIDE DEF m
<1>6. o = Outcome(x, kx, TRUE, 0)
  BY <1>2, <1>3, <1>5
<1>7. o.b = x /\ o.k = kx /\ o.ok = TRUE
  BY <1>6 DEF Outcome
<1>8. Fits(o, b) /\ o.b.mode = "write" /\ o.b.data = <<>>
  BY <1>1, WriteLeftFits
<1>9. b.data \o none = b.data
  BY <1>1
<1>10. kx = Written(b, k, b.data)
  BY <1>1, AllType DEF kx, m
<1>11. Takes(o, b, k, none)
  <2>1. x.offset = b.offset + Len(b.data)
    BY <1>4 DEF m
  <2> HIDE DEF none
  <2>2. o.b.data = <<>> /\ o.b.mode = "write"
    BY <1>8
  <2> QED
    BY <1>1, <1>4, <1>7, <1>9, <1>10, <2>1, <2>2, Emptied
<1>12. Faithful(o.b, o.k)
  BY <1>1, <1>8 DEF Faithful, Fits, Coherent
<1> QED
  BY <1>8, <1>11, <1>12

LEMMA WritePlainTakes ==
  ASSUME ~ IOErrors, NEW b, NEW k, Faithful(b, k), b.mode = "write",
         ~ b.buffered, NEW bs \in Seq(Bytes), NEW o \in WritePlain(b, k, bs)
  PROVE  Takes(o, b, k, bs) /\ o.ret = Len(bs)
<1> DEFINE Part(r) ==
             IF ~ r.ok THEN {r}
             ELSE {Outcome([r.b EXCEPT !.offset = @ + m],
                           Written(r.b, r.k, Upto(bs, m)), m = Len(bs), m) :
                     m \in WriteCounts(Len(bs))}
           none == <<>>
<1>1. PICK r \in WriteLeft(b, k) : o \in Part(r)
  <2>1. WritePlain(b, k, bs) = UNION {Part(r) : r \in WriteLeft(b, k)}
    BY DEF WritePlain
  <2> HIDE DEF Part
  <2> QED
    BY <2>1
<1>2. /\ Takes(r, b, k, none) /\ Faithful(r.b, r.k) /\ r.b.data = <<>>
      /\ r.b.mode = "write"
  BY WriteLeftStill
<1>3. r.ok = TRUE
  BY <1>2 DEF Takes
<1> DEFINE c == r.b
           kc == r.k
           m == Len(bs)
           x == [c EXCEPT !.offset = @ + m]
           kx == Written(c, kc, Upto(bs, m))
           After(i) == Outcome([r.b EXCEPT !.offset = @ + i],
                               Written(r.b, r.k, Upto(bs, i)),
                               i = Len(bs), i)
<1>4. o = Outcome(x, kx, TRUE, m)
  <2>1. o \in {After(i) : i \in WriteCounts(Len(bs))}
    BY <1>1, <1>3
  <2>2. After(m) = Outcome(x, kx, TRUE, m)
    OBVIOUS
  <2> HIDE DEF After, x, kx
  <2>3. WriteCounts(Len(bs)) = {m}
    BY AllWritten
  <2> HIDE DEF m
  <2> QED
    BY <2>1, <2>2, <2>3
<1>5. o.b = x /\ o.k = kx /\ o.ok = TRUE /\ o.ret = m
  <2> HIDE DEF x, kx
  <2> QED
    BY <1>4 DEF Outcome
<1>6. Sound(c) /\ Faithful(c, kc) /\ c.data = <<>> /\ c.mode = "write"
  BY <1>2 DEF Faithful, Good
<1> HIDE DEF Part, c, kc
<1>7. /\ x.mode = "write" /\ x.buffered = c.buffered /\ x.data = <<>>
      /\ x.offset = c.offset + m
  BY <1>6 DEF Sound
<1> HIDE DEF x
<1>8. c.data \o bs = bs /\ Upto(bs, m) = bs
  <2>1. <<>> \o bs = bs
    OBVIOUS
  <2> QED
    BY <1>6, <2>1, AllType
<1>9. Takes(o, c, kc, bs)
  <2>1. kx = Written(c, kc, c.data \o bs) /\ x.offset = c.offset + Len(c.data \o bs)
    BY <1>7, <1>8
  <2> HIDE DEF kx
  <2> QED
    BY <1>5, <1>6, <1>7, <2>1, Emptied
<1>10. none \in Seq(Bytes) /\ none \o bs = bs /\ Good(b, k)
  BY EmptyType DEF Faithful
<1>11. Takes(o, r.b, r.k, bs)
  BY <1>9 DEF c, kc
<1> HIDE DEF none
<1>12. Takes(o, b, k, none \o bs)
  BY <1>2, <1>10, <1>11, TakesAfter
<1> QED
  BY <1>5, <1>10, <1>12

LEMMA HeadTail ==
  ASSUME NEW bs \in Seq(Bytes), NEW n \in Nat, n <= Len(bs)
  PROVE  Upto(bs, n) \o From(bs, n) = bs
<1> DEFINE z == 0
           l == Len(bs)
<1>1. z \in Nat /\ l \in Nat /\ z <= n /\ n <= l /\ z + 1 = 1
      /\ l <= Len(bs)
  BY EmptyType
<1>2. bs = Upto(bs, l)
  BY AllType
<1> HIDE DEF z, l
<1>3. SubSeq(bs, z + 1, n) \o SubSeq(bs, n + 1, l) = SubSeq(bs, z + 1, l)
  BY <1>1, PiecesJoin
<1>4. /\ SubSeq(bs, z + 1, n) = Upto(bs, n)
      /\ SubSeq(bs, n + 1, l) = From(bs, n)
      /\ SubSeq(bs, z + 1, l) = Upto(bs, l)
  BY <1>1 DEF Upto, From, l
<1> QED
  BY <1>2, <1>3, <1>4

(* The bytes that join those waiting, and those that come after a flush.   *)
LEMMA WriteBehindTakes ==
  ASSUME ~ IOErrors, NEW b, NEW k, Faithful(b, k), b.mode = "write",
         b.buffered, b.data # <<>>, NEW bs \in Seq(Bytes),
         NEW o \in WriteBehind(b, k, bs)
  PROVE  Takes(o, b, k, bs) /\ o.ret = Len(bs)
<1> DEFINE need == Len(b.data)
           block == (Mod - (need % Mod))
                      + (IF need < BigW THEN BigW - need ELSE 0)
           want == Lesser(Lesser(block, Len(bs)), b.size_p - (b.lead + need))
           head == Upto(bs, want)
           tail == From(bs, want)
           all == b.data \o head
           c == [b EXCEPT !.data = all, !.room = b.room - want]
           F(m) == [c EXCEPT !.offset = @ + m, !.data = From(@, m),
                             !.lead = @ + m]
           Part(m) ==
             IF m < Len(all)
             THEN {Outcome(F(m), Written(b, k, Upto(all, m)), FALSE, want)}
             ELSE WriteEmpty(F(m), Written(b, k, all), tail, want)
<1>1. Good(b, k) /\ Sound(b) /\ Kernel(k) /\ InPlace(b, k.pos)
      /\ RoomKnown(b) /\ "a" \notin b.can
  BY DEF Faithful, Good, Sound
<1>2. /\ need \in Nat /\ Len(bs) \in Nat /\ b.used = 0
      /\ b.room = b.size_p - b.lead - need /\ b.room \in Nat
      /\ b.lead \in Nat /\ b.size_p \in Nat /\ b.offset \in Nat
      /\ b.data \in Seq(Bytes)
  BY <1>1, EmptyType DEF Sound, RoomKnown, Vacancy
<1>3. WriteBehind(b, k, bs)
        = IF want = Len(bs) /\ b.room - want # 0
          THEN {Outcome(c, k, TRUE, want)}
          ELSE UNION {Part(m) : m \in WriteCounts(Len(all))}
  BY DEF WriteBehind
<1>4. want \in Nat /\ want <= Len(bs) /\ want <= b.room
  <2> HIDE DEF need
  <2>1. block \in Nat
    BY <1>2, BufferAssumption
  <2> HIDE DEF block
  <2> QED
    BY <1>2, <2>1 DEF Lesser
<1> HIDE DEF want
<1>5. /\ head \in Seq(Bytes) /\ Len(head) = want
      /\ tail \in Seq(Bytes) /\ Len(tail) = Len(bs) - want
      /\ head \o tail = bs
  <2>1. want \in 0 .. Len(bs)
    BY <1>2, <1>4
  <2>2. /\ Upto(bs, want) \in Seq(Bytes) /\ Len(Upto(bs, want)) = want
        /\ From(bs, want) \in Seq(Bytes)
        /\ Len(From(bs, want)) = Len(bs) - want
    BY <2>1, UptoType, FromType
  <2>3. Upto(bs, want) \o From(bs, want) = bs
    BY <1>4, HeadTail
  <2> QED
    BY <2>2, <2>3
<1> HIDE DEF head, tail
<1>6. all \in Seq(Bytes) /\ Len(all) = need + want
  BY <1>2, <1>5, JoinedType
<1>7. /\ DOMAIN c = DOMAIN b /\ c.can = b.can /\ c.mode = "write"
      /\ c.offset = b.offset /\ c.data = all /\ c.lead = b.lead
      /\ c.room = b.room - want /\ c.size_p = b.size_p /\ c.used = 0
      /\ c.unread = b.unread /\ c.buffered = b.buffered /\ c.buffered
  BY <1>1, <1>2 DEF Sound
<1> HIDE DEF all, c, need
<1>8. CASE want = Len(bs) /\ b.room - want # 0
  <2>1. o = Outcome(c, k, TRUE, want)
    <3> HIDE DEF Part
    <3> QED
      BY <1>3, <1>8
  <2>2. o.b = c /\ o.k = k /\ o.ok = TRUE /\ o.ret = want
    BY <2>1 DEF Outcome
  <2>3. head = bs
    BY <1>8, AllType DEF head
  <2>4. c.data = b.data \o bs
    BY <1>7, <2>3 DEF all
  <2>5. Takes(o, b, k, bs)
    BY <1>1, <1>7, <2>2, <2>4, Joined
  <2> QED
    BY <1>8, <2>2, <2>5
<1>9. CASE ~ (want = Len(bs) /\ b.room - want # 0)
  <2> DEFINE m == Len(all)
             f == F(m)
             kf == Written(b, k, all)
  <2>1. m \in Nat /\ WriteCounts(Len(all)) = {m}
    BY <1>2, <1>4, <1>6, AllWritten
  <2>2. o \in UNION {Part(n) : n \in WriteCounts(Len(all))}
    <3> HIDE DEF Part
    <3> QED
      BY <1>3, <1>9
  <2>3. o \in Part(m)
    <3> HIDE DEF Part
    <3> QED
      BY <2>1, <2>2
  <2>4. o \in WriteEmpty(f, kf, tail, want)
    <3>1. ~ (m < Len(all))
      BY <2>1
    <3> HIDE DEF F, m
    <3>2. Part(m) = WriteEmpty(F(m), Written(b, k, all), tail, want)
      BY <3>1
    <3> QED
      BY <2>3, <3>2
  <2>5. Kernel(kf) /\ kf.pos = k.pos + m
    <3>1. Kernel(k) /\ all \in Seq(Bytes)
      BY <1>1, <1>6
    <3> HIDE DEF F, f, Part
    <3>2. /\ Kernel(Written(b, k, all))
          /\ "a" \notin b.can => Written(b, k, all).pos = k.pos + Len(all)
      BY <3>1, WrittenKernel
    <3> QED
      BY <1>1, <3>2
  <2>6. /\ DOMAIN f = DOMAIN c /\ f.can = c.can /\ f.mode = "write"
        /\ f.offset = c.offset + m /\ f.data = From(c.data, m)
        /\ f.lead = c.lead + m /\ f.room = c.room
        /\ f.size_p = c.size_p /\ f.used = 0
        /\ f.unread = c.unread /\ f.buffered = c.buffered
    BY <1>1, <1>7 DEF Sound
  <2>7. f.data = <<>>
    BY <1>6, <1>7, <2>6, AllType
  <2> HIDE DEF f, kf, Part
  <2>8. Faithful(f, kf)
    <3>1. RoomKnown(f)
      <4>1. Len(f.data) = 0 /\ m = need + want
        BY <1>6, <2>7, EmptyType
      <4> QED
        BY <1>2, <1>4, <1>7, <2>1, <2>6, <2>7, <4>1, SMTT(30)
           DEF RoomKnown, Vacancy
    <3>2. Sound(f)
      BY <1>1, <1>2, <1>4, <1>7, <2>1, <2>6, <2>7, <3>1, EmptyType, SMTT(30)
         DEF Sound
    <3>3. InPlace(f, kf.pos)
      BY <1>1, <1>2, <1>7, <2>1, <2>5, <2>6 DEF InPlace
    <3> QED
      BY <1>1, <1>7, <2>5, <2>6, <3>2, <3>3 DEF Good, Faithful, Coherent
  <2> DEFINE r == Outcome(f, kf, TRUE, 0)
  <2>9. r.b = f /\ r.k = kf /\ r.ok = TRUE
    BY DEF Outcome
  <2> HIDE DEF r
  <2>10. Takes(r, b, k, head)
    <3>1. f.offset = b.offset + Len(b.data \o head)
      BY <1>7, <2>6 DEF all
    <3>2. kf = Written(b, k, b.data \o head)
      BY DEF kf, all
    <3>3. f.mode = "write" /\ f.buffered = b.buffered
      BY <1>7, <2>6
    <3> QED
      BY <1>5, <2>7, <2>9, <3>1, <3>2, <3>3, Emptied
  <2>11. Takes(o, r.b, r.k, tail) /\ o.ret = want + Len(tail)
    <3>1. f.mode = "write" /\ f.buffered
      BY <1>7, <2>6
    <3>2. Takes(o, f, kf, tail) /\ o.ret = want + Len(tail)
      BY <1>5, <2>4, <2>7, <2>8, <3>1, WriteEmptyTakes
    <3> QED
      BY <2>9, <3>2
  <2>12. Takes(o, b, k, head \o tail)
    BY <1>1, <1>5, <2>10, <2>11, TakesAfter
  <2>13. o.ret = Len(bs)
    BY <1>2, <1>4, <1>5, <2>11
  <2> QED
    BY <1>5, <2>12, <2>13
<1> QED
  BY <1>8, <1>9

(* A write that is taken, or else nothing has changed.                     *)
Writes(o, b, k, bs) ==
  \/ Takes(o, b, k, bs) /\ o.ret = Len(bs)
  \/ Still(o, b, k) /\ o.ok = FALSE

LEMMA WritesAfter ==
  ASSUME NEW b, NEW k, NEW r, Still(r, b, k), NEW bs, NEW o,
         Takes(o, r.b, r.k, bs) 
  PROVE  Takes(o, b, k, bs)
BY DEF Still, Keeps, Takes

LEMMA GwritecWrites ==
  ASSUME ~ IOErrors, NEW b, NEW k, Faithful(b, k), NEW bs \in Seq(Bytes),
         NEW o \in Gwritec(b, k, bs)
  PROVE  Writes(o, b, k, bs)
<1>1. CASE o = Outcome(b, k, FALSE, 0)
  <2>1. o.b = b /\ o.k = k /\ o.ok = FALSE
    BY <1>1 DEF Outcome
  <2> QED
    BY <2>1 DEF Writes, Still, Keeps, Faithful
<1>2. CASE o # Outcome(b, k, FALSE, 0)
  <2> DEFINE Part(r) ==
               IF ~ r.ok THEN {r}
               ELSE IF ~ b.buffered THEN WritePlain(r.b, r.k, bs)
               ELSE IF FastWrite(r.b, Len(bs))
               THEN {Outcome([r.b EXCEPT !.data = @ \o bs,
                                         !.room = @ - Len(bs)],
                             r.k, TRUE, Len(bs))}
               ELSE IF r.b.data # <<>> THEN WriteBehind(r.b, r.k, bs)
               ELSE WriteEmpty(r.b, r.k, bs, 0)
  <2>1. PICK r \in Turn(b, k, "write") : o \in Part(r)
    <3>1. Gwritec(b, k, bs)
            = IF "w" \notin b.can THEN {Outcome(b, k, FALSE, 0)}
              ELSE UNION {Part(r) : r \in Turn(b, k, "write")}
      BY DEF Gwritec
    <3> HIDE DEF Part
    <3> QED
      BY <1>2, <3>1
  <2>2. /\ Still(r, b, k) /\ r.ok = TRUE /\ Faithful(r.b, r.k)
        /\ r.b.mode = "write" /\ Good(r.b, r.k)
    BY TurnStill DEF Faithful
  <2>3. r.b.buffered = b.buffered
    BY <2>2 DEF Still, Keeps
  <2>4. Takes(o, r.b, r.k, bs) /\ o.ret = Len(bs)
    <3>1. CASE ~ b.buffered
      BY <2>1, <2>2, <2>3, <3>1, WritePlainTakes
    <3>2. CASE b.buffered /\ FastWrite(r.b, Len(bs))
      <4>1. o = Stored(r.b, r.k, bs)
        BY <2>1, <2>2, <3>2 DEF Stored
      <4> QED
        BY <2>2, <4>1, StoredTakes
    <3>3. CASE b.buffered /\ ~ FastWrite(r.b, Len(bs)) /\ r.b.data # <<>>
      BY <2>1, <2>2, <2>3, <3>3, WriteBehindTakes, ZenonT(60)
    <3>4. CASE b.buffered /\ ~ FastWrite(r.b, Len(bs)) /\ r.b.data = <<>>
      <4>1. o \in WriteEmpty(r.b, r.k, bs, 0)
        BY <2>1, <2>2, <3>4
      <4> DEFINE z == 0
                 c == r.b
                 kc == r.k
      <4>2. /\ o \in WriteEmpty(c, kc, bs, z) /\ Faithful(c, kc)
            /\ c.mode = "write" /\ c.buffered /\ c.data = <<>>
        BY <2>2, <2>3, <3>4, <4>1
      <4>3. z + Len(bs) = Len(bs)
        BY EmptyType
      <4> HIDE DEF z, c, kc, Part
      <4>4. Takes(o, c, kc, bs) /\ o.ret = z + Len(bs)
        BY <4>2, WriteEmptyTakes
      <4> QED
        BY <4>3, <4>4 DEF c, kc
    <3> QED
      BY <3>1, <3>2, <3>3, <3>4
  <2>5. Takes(o, b, k, bs)
    BY <2>2, <2>4, WritesAfter
  <2> QED
    BY <2>4, <2>5 DEF Writes
<1> QED
  BY <1>1, <1>2

(* gwriteb: whole blocks are written to make room.                         *)
LEMMA MakeRoomTakes ==
  ASSUME ~ IOErrors, NEW b, NEW k, Faithful(b, k), b.mode = "write",
         b.buffered, NEW bs \in Seq(Bytes), NEW o \in MakeRoom(b, k, bs)
  PROVE  Takes(o, b, k, bs) /\ o.ret = Len(bs)
<1> DEFINE whole == Len(b.data) - (Len(b.data) % Mod)
           out == IF whole >= MinW THEN whole ELSE 0
           head == Upto(b.data, out)
           tail == From(b.data, out)
           F(m) == [b EXCEPT !.offset = @ + m, !.data = From(@, m),
                             !.lead = @ + m]
           K(m) == Written(b, k, Upto(b.data, m))
           Least(f) == Greater(Len(f.data) + Len(bs), MinBlocks * Mod)
           Size(f, cache) ==
             Greater(f.size_p, RoundUp(Greater(Least(f), cache)))
           Grown(f, size) == [f EXCEPT !.lead = 0, !.size_p = size,
                                       !.room = size - Len(f.data)]
           Part(m) ==
             IF m < out THEN {Outcome(F(m), K(m), FALSE, 0)}
             ELSE {Stored(Grown(F(m), Size(F(m), cache)), K(m), bs) :
                     cache \in CachesW}
<1>1. Good(b, k) /\ Sound(b) /\ Kernel(k) /\ InPlace(b, k.pos)
      /\ b.data \in Seq(Bytes) /\ "a" \notin b.can /\ b.offset \in Nat
  BY DEF Faithful, Good, Sound
<1>2. out \in 0 .. Len(b.data) /\ Len(b.data) \in Nat
  <2> DEFINE n == Len(b.data)
  <2>1. n \in Nat /\ Mod \in Nat \ {0} /\ MinW \in Nat
    BY <1>1, EmptyType, BufferAssumption
  <2>2. n % Mod \in 0 .. n
    <3> HIDE DEF n
    <3>1. n % Mod \in Nat /\ n \div Mod \in Nat
          /\ n = Mod * (n \div Mod) + (n % Mod)
      BY <2>1
    <3>2. Mod * (n \div Mod) \in Nat
      BY <2>1, <3>1
    <3> QED
      BY <2>1, <3>1, <3>2
  <2> DEFINE left == n % Mod
  <2> HIDE DEF n, left
  <2>3. n - left \in 0 .. n /\ n \in Nat
    BY <2>1, <2>2 DEF left
  <2>4. out = IF n - left >= MinW THEN n - left ELSE 0
    BY DEF n, left
  <2>5. out \in 0 .. n
    BY <2>3, <2>4
  <2> QED
    BY <2>3, <2>5 DEF n
<1>3. MakeRoom(b, k, bs) = UNION {Part(m) : m \in WriteCounts(out)}
  BY DEF MakeRoom
<1> HIDE DEF out
<1>4. o \in Part(out)
  <2> HIDE DEF Part
  <2> QED
    BY <1>3, AllWritten
<1> DEFINE f == F(out)
           kf == K(out)
<1>5. PICK cache \in CachesW :
        o = Stored(Grown(f, Size(f, cache)), kf, bs)
  <2>1. ~ (out < out)
    BY <1>2
  <2> HIDE DEF F, K, Grown, Size
  <2> QED
    BY <1>4, <2>1
<1> HIDE DEF Part
<1>6. /\ tail \in Seq(Bytes) /\ head \in Seq(Bytes) /\ Len(head) = out
      /\ head \o tail = b.data
  <2> DEFINE d == b.data
  <2>1. d \in Seq(Bytes) /\ out \in 0 .. Len(d) /\ Len(d) \in Nat
    BY <1>1, <1>2
  <2>2. out \in Nat /\ out <= Len(d)
    BY <2>1
  <2> HIDE DEF d
  <2>3. From(d, out) \in Seq(Bytes)
    BY <2>1, FromType
  <2>4. Upto(d, out) \in Seq(Bytes) /\ Len(Upto(d, out)) = out
    BY <2>1, UptoType
  <2>5. Upto(d, out) \o From(d, out) = d
    BY <2>1, <2>2, HeadTail
  <2> QED
    BY <2>3, <2>4, <2>5 DEF d
<1> DEFINE g == Grown(f, Size(f, cache))
<1>7. o.b = [g EXCEPT !.data = @ \o bs, !.room = @ - Len(bs)] /\ o.k = kf
      /\ o.ok = TRUE /\ o.ret = Len(bs)
  <2>1. o = Stored(g, kf, bs)
    BY <1>5
  <2> HIDE DEF g, kf
  <2> QED
    BY <2>1 DEF Stored, Outcome
<1>8. /\ g.mode = "write" /\ g.offset = b.offset + out /\ g.data = tail
      /\ g.buffered = b.buffered /\ DOMAIN g = DOMAIN b
  BY <1>1 DEF Sound
<1> HIDE DEF g
<1>9. /\ o.b.mode = "write" /\ o.b.offset = b.offset + Len(head)
      /\ o.b.data = tail \o bs /\ o.b.buffered = b.buffered
  <2>1. DOMAIN g = {"mode", "can", "offset", "data", "used", "unread", "room",
                    "lead", "size_p", "buffered"}
    BY <1>1, <1>8 DEF Sound
  <2> DEFINE y == tail \o bs
  <2>2. o.b = [g EXCEPT !.data = y, !.room = @ - Len(bs)]
    BY <1>7, <1>8, <2>1
  <2> HIDE DEF y
  <2>3. /\ o.b.mode = g.mode /\ o.b.offset = g.offset /\ o.b.data = y
        /\ o.b.buffered = g.buffered
    BY <2>1, <2>2
  <2> QED
    BY <1>6, <1>8, <2>3 DEF y
<1>10. o.k.bytes = Overlay(k.bytes, b.offset, head)
  <2>1. k.pos = b.offset
    BY <1>1 DEF InPlace, Kernel
  <2>2. kf = Written(b, k, head)
    OBVIOUS
  <2> HIDE DEF kf, head
  <2> QED
    BY <1>1, <1>7, <2>1, <2>2, WrittenBytes
<1> DEFINE y == tail \o bs
<1> HIDE DEF f, kf, F, K, head, tail
<1>11. y \in Seq(Bytes)
  BY <1>6, JoinedType
<1>12. head \o y = b.data \o bs
  <2> DEFINE d == b.data
  <2>1. d = head \o tail /\ head \in Seq(Bytes) /\ tail \in Seq(Bytes)
    BY <1>6
  <2> HIDE DEF d
  <2>2. head \o (tail \o bs) = (head \o tail) \o bs
    BY <2>1
  <2>3. head \o y = d \o bs
    BY <2>1, <2>2
  <2> QED
    BY <2>3 DEF d
<1>13. o.b.data = y
  BY <1>9
<1> HIDE DEF y
<1>14. Takes(o, b, k, bs)
  BY <1>1, <1>6, <1>7, <1>9, <1>10, <1>11, <1>12, <1>13, Rearranged
<1> QED
  BY <1>7, <1>14

LEMMA GwritebBufTakes ==
  ASSUME ~ IOErrors, NEW b, NEW k, Faithful(b, k), b.mode = "write",
         b.buffered, NEW bs \in Seq(Bytes), NEW o \in GwritebBuf(b, k, bs)
  PROVE  Takes(o, b, k, bs) /\ o.ret = Len(bs)
<1> DEFINE e == IF b.data = <<>> THEN [b EXCEPT !.lead = 0, !.room = b.size_p]
                ELSE b
<1>1. Good(b, k) /\ Sound(b) /\ Kernel(k) /\ InPlace(b, k.pos) /\ RoomKnown(b)
      /\ "a" \notin b.can
  BY DEF Faithful, Good, Sound
<1>2. o \in IF e.room >= Len(bs) THEN {Stored(e, k, bs)} ELSE MakeRoom(e, k, bs)
  BY DEF GwritebBuf
<1>3. /\ Good(e, k)
      /\ e.can = b.can /\ e.mode = "write" /\ e.buffered = b.buffered
      /\ e.offset = b.offset /\ e.data = b.data
  <2>1. CASE b.data # <<>>
    <3>1. e = b
      BY <2>1
    <3> HIDE DEF e
    <3> QED
      BY <1>1, <2>1, <3>1
  <2>2. CASE b.data = <<>>
    <3>1. /\ DOMAIN e = DOMAIN b /\ e.can = b.can /\ e.mode = "write"
          /\ e.offset = b.offset /\ e.data = <<>> /\ e.lead = 0
          /\ e.room = b.size_p /\ e.size_p = b.size_p /\ e.used = b.used
          /\ e.unread = b.unread /\ e.buffered = b.buffered
      BY <1>1, <2>2 DEF Sound
    <3> HIDE DEF e
    <3>2. e.room = Vacancy(e) /\ 0 <= Vacancy(e)
      BY <1>1, <3>1, EmptyType DEF Vacancy, Sound
    <3>3. Sound(e)
      BY <1>1, <2>2, <3>1, <3>2, EmptyType DEF Sound, RoomKnown
    <3> QED
      BY <1>1, <2>2, <3>1, <3>2, <3>3 DEF Good, InPlace
  <2> QED
    BY <2>1, <2>2
<1> HIDE DEF e
<1>4. Faithful(e, k)
  BY <1>1, <1>3 DEF Faithful, Coherent
<1>5. Takes(o, e, k, bs) /\ o.ret = Len(bs)
  <2>1. CASE e.room >= Len(bs)
    <3>1. o = Stored(e, k, bs)
      BY <1>2, <2>1
    <3> QED
      BY <1>3, <3>1, StoredTakes
  <2>2. CASE ~ (e.room >= Len(bs))
    BY <1>2, <1>3, <1>4, <2>2, MakeRoomTakes
  <2> QED
    BY <2>1, <2>2
<1>6. Known(e, k) = Known(b, k) /\ Getpos(e) = Getpos(b)
  BY <1>3 DEF Known, Getpos
<1> QED
  BY <1>3, <1>5, <1>6 DEF Takes

(* A non-buffered stream: the bytes are left for the next call.            *)
LEMMA GwritebNonTakes ==
  ASSUME ~ IOErrors, NEW b, NEW k, Faithful(b, k), b.mode = "write",
         ~ b.buffered, NEW bs \in Seq(Bytes), NEW o \in GwritebNon(b, k, bs)
  PROVE  Takes(o, b, k, bs) /\ o.ret = Len(bs)
<1> DEFINE none == <<>>
<1>1. PICK r \in WriteLeft(b, k) :
        o = IF r.ok
            THEN [r EXCEPT !.b.data = bs, !.b.lead = 0, !.ret = Len(bs)]
            ELSE r
  BY DEF GwritebNon
<1>2. /\ Takes(r, b, k, none) /\ Faithful(r.b, r.k) /\ r.b.data = <<>>
      /\ r.b.mode = "write"
  BY WriteLeftStill
<1>3. /\ Good(b, k) /\ Good(r.b, r.k) /\ Sound(r.b) /\ r.ok = TRUE
      /\ DOMAIN r = {"b", "k", "ok", "ret"}
  <2>1. Good(b, k) /\ Good(r.b, r.k) /\ Sound(r.b) /\ r.ok = TRUE
    BY <1>2 DEF Faithful, Good, Takes
  <2>2. Fits(r, b)
    BY <2>1, WriteLeftFits
  <2> QED
    BY <2>1, <2>2 DEF Fits
<1> DEFINE x == [r.b EXCEPT !.data = bs, !.lead = 0]
<1>4. o.b = x /\ o.k = r.k /\ o.ok = TRUE /\ o.ret = Len(bs)
  BY <1>1, <1>3
<1>5. /\ x.mode = "write" /\ x.offset = r.b.offset /\ x.data = bs
      /\ x.buffered = r.b.buffered
  BY <1>2, <1>3 DEF Sound
<1> HIDE DEF x
<1>6. <<>> \o bs = bs
  OBVIOUS
<1>7. Takes(o, r.b, r.k, bs)
  <2>1. x.data = r.b.data \o bs
    BY <1>2, <1>5, <1>6
  <2> QED
    BY <1>2, <1>3, <1>4, <1>5, <2>1, Joined
<1>8. none \in Seq(Bytes) /\ none \o bs = bs
  BY <1>6, EmptyType
<1> HIDE DEF none
<1>9. Takes(o, b, k, none \o bs)
  BY <1>2, <1>3, <1>7, <1>8, TakesAfter
<1> QED
  BY <1>4, <1>8, <1>9

LEMMA FpGwritebWrites ==
  ASSUME ~ IOErrors, NEW b, NEW k, Faithful(b, k), NEW bs \in Seq(Bytes),
         NEW o \in FpGwriteb(b, k, bs)
  PROVE  Writes(o, b, k, bs)
<1>1. CASE o = Outcome(b, k, FALSE, 0)
  <2>1. o.b = b /\ o.k = k /\ o.ok = FALSE
    BY <1>1 DEF Outcome
  <2> QED
    BY <2>1 DEF Writes, Still, Keeps, Faithful
<1>2. CASE o # Outcome(b, k, FALSE, 0)
  <2> DEFINE Part(r) == IF ~ r.ok THEN {r}
                        ELSE IF b.buffered THEN GwritebBuf(r.b, r.k, bs)
                        ELSE GwritebNon(r.b, r.k, bs)
  <2>1. PICK r \in Turn(b, k, "write") : o \in Part(r)
    <3>1. FpGwriteb(b, k, bs)
            = IF "w" \notin b.can THEN {Outcome(b, k, FALSE, 0)}
              ELSE UNION {Part(r) : r \in Turn(b, k, "write")}
      BY DEF FpGwriteb
    <3> HIDE DEF Part
    <3> QED
      BY <1>2, <3>1
  <2>2. /\ Still(r, b, k) /\ r.ok = TRUE /\ Faithful(r.b, r.k)
        /\ r.b.mode = "write"
    BY TurnStill
  <2>3. r.b.buffered = b.buffered
    BY <2>2 DEF Still, Keeps
  <2>4. Takes(o, r.b, r.k, bs) /\ o.ret = Len(bs)
    <3>1. CASE b.buffered
      <4>1. o \in GwritebBuf(r.b, r.k, bs) /\ r.b.buffered
        BY <2>1, <2>2, <2>3, <3>1
      <4> QED
        BY <2>2, <4>1, GwritebBufTakes
    <3>2. CASE ~ b.buffered
      BY <2>1, <2>2, <2>3, <3>2, GwritebNonTakes
    <3> QED
      BY <3>1, <3>2
  <2>5. Takes(o, b, k, bs)
    BY <2>2, <2>4, WritesAfter
  <2> QED
    BY <2>4, <2>5 DEF Writes
<1> QED
  BY <1>1, <1>2

(* Room is only counted in write state.                                    *)
LEMMA RoomTakes ==
  ASSUME NEW b, NEW k, Faithful(b, k), NEW bs \in Seq(Bytes),
         b.room > Len(bs) \/ b.room < 0
  PROVE  Writes(Stored(b, k, bs), b, k, bs)
<1>1. Good(b, k) /\ Sound(b) /\ Len(bs) \in Nat /\ b.room \in Int
  BY EmptyType DEF Faithful, Good, Sound
<1>2. b.mode = "write"
  <2>1. CASE b.mode = "write" /\ b.buffered
    BY <2>1
  <2>2. CASE ~ (b.mode = "write" /\ b.buffered)
    BY <1>1, <2>2 DEF Sound
  <2> QED
    BY <2>1, <2>2
<1> QED
  BY <1>1, <1>2, StoredTakes DEF Writes

LEMMA GwritebWrites ==
  ASSUME ~ IOErrors, NEW b, NEW k, Faithful(b, k), NEW bs \in Seq(Bytes),
         NEW o \in Gwriteb(b, k, bs)
  PROVE  Writes(o, b, k, bs)
<1>1. CASE b.room > Len(bs) \/ b.room < 0
  BY <1>1, RoomTakes DEF Gwriteb
<1>2. CASE ~ (b.room > Len(bs) \/ b.room < 0)
  BY <1>2, FpGwritebWrites DEF Gwriteb
<1> QED
  BY <1>1, <1>2

LEMMA GputcWrites ==
  ASSUME ~ IOErrors, NEW b, NEW k, Faithful(b, k), NEW c \in Bytes,
         NEW o \in Gputc(b, k, c)
  PROVE  Writes(o, b, k, <<c>>)
<1> DEFINE bs == <<c>>
<1>1. bs \in Seq(Bytes) /\ Len(bs) = 1
  OBVIOUS
<1>2. o \in IF b.room > 1 THEN {Stored(b, k, bs)} ELSE FpGwriteb(b, k, bs)
  BY DEF Gputc
<1> HIDE DEF bs
<1>3. Writes(o, b, k, bs)
  <2>1. CASE b.room > 1
    BY <1>1, <1>2, <2>1, RoomTakes
  <2>2. CASE ~ (b.room > 1)
    BY <1>1, <1>2, <2>2, FpGwritebWrites
  <2> QED
    BY <2>1, <2>2
<1> QED
  BY <1>3 DEF bs

-----------------------------------------------------------------------------
(* Seeks and buffering                                                     *)

Seeks(o, b, k, pos) ==
  /\ Keeps(o, b, k)
  /\ \/ o.ok = TRUE /\ Getpos(o.b) = pos /\ pos >= 0
     \/ o.ok = FALSE /\ Getpos(o.b) = Getpos(b)

LEMMA GsetposSeeks ==
  ASSUME ~ IOErrors, NEW b, NEW k, Faithful(b, k), NEW pos \in Int,
         NEW o \in Gsetpos(b, k, pos)
  PROVE  Seeks(o, b, k, pos)
<1>1. /\ Good(b, k) /\ Sound(b) /\ Kernel(k) /\ Coherent(b, k)
      /\ Len(b.data) \in Nat
  BY EmptyType DEF Faithful, Good, Sound
<1> DEFINE Here == b.mode = "write" /\ Getpos(b) = pos
           Within == b.mode = "read" /\ pos \in b.offset .. b.offset + Len(b.data)
           x == [b EXCEPT !.used = pos - b.offset, !.unread = <<>>]
<1>2. CASE Here
  <2>1. o.b = b /\ o.k = k /\ o.ok = TRUE
    BY <1>2 DEF Gsetpos, Outcome
  <2>2. Getpos(b) \in Nat
    BY <1>1, GetposType
  <2> QED
    BY <1>1, <1>2, <2>1, <2>2 DEF Seeks, Keeps
<1>3. CASE Within
  <2>1. o.b = x /\ o.k = k /\ o.ok = TRUE
    <3>1. o = Outcome(x, k, TRUE, 0)
      BY <1>3 DEF Gsetpos
    <3> HIDE DEF x
    <3> QED
      BY <3>1 DEF Outcome
  <2>2. /\ x.mode = "read" /\ x.offset = b.offset /\ x.data = b.data
        /\ x.used = pos - b.offset /\ x.unread = <<>>
        /\ x.buffered = b.buffered
    BY <1>1, <1>3 DEF Sound
  <2> HIDE DEF x
  <2>3. b.offset \in Nat /\ pos - b.offset \in Nat /\ pos >= 0
        /\ b.offset + (pos - b.offset) = pos
    BY <1>1, <1>3 DEF Sound
  <2>4. Getpos(x) = x.offset + x.used
    <3>1. x.data \in Seq(Bytes) /\ x.offset \in Nat /\ x.used \in Nat
      BY <1>1, <2>2, <2>3 DEF Sound
    <3> QED
      BY <2>2, <3>1, GetposCases
  <2>5. Getpos(x) = pos
    BY <2>2, <2>3, <2>4
  <2>6. Known(x, k) = Known(b, k) /\ Coherent(x, k)
    BY <1>1, <1>3, <2>2 DEF Known, Coherent
  <2> QED
    BY <2>1, <2>2, <2>3, <2>5, <2>6 DEF Seeks, Keeps
<1>4. CASE ~ Here /\ ~ Within
  <2>1. PICK f \in Gflush(b, k) : o = SeekTo(f, pos)
    BY <1>4 DEF Gsetpos
  <2>2. /\ Still(f, b, k) /\ f.k.bytes = Known(b, k) /\ f.ok = TRUE
        /\ Flushed(f, b)
    BY <1>1, GflushStill, GflushFits
  <2>3. /\ DOMAIN f = {"b", "k", "ok", "ret"}
        /\ Sound(f.b) /\ Kernel(f.k) /\ f.b.data = <<>> /\ f.b.used = 0
    BY <2>2 DEF Flushed, Fits, Good
  <2>4. CASE pos < 0
    <3>1. o = [f EXCEPT !.ok = FALSE]
      BY <2>1, <2>2, <2>4 DEF SeekTo
    <3>2. o.ok = FALSE /\ o.b = f.b /\ o.k = f.k
      BY <2>3, <3>1
    <3> QED
      BY <2>2, <3>2 DEF Seeks, Still, Keeps
  <2>5. CASE ~ (pos < 0)
    <3> DEFINE y == [f.b EXCEPT !.offset = pos]
               ky == [f.k EXCEPT !.pos = pos]
    <3>1. o = [f EXCEPT !.b.offset = pos, !.k.pos = pos]
      BY <2>1, <2>2, <2>5 DEF SeekTo
    <3>2. o.b = y /\ o.k = ky /\ o.ok = TRUE
      BY <2>2, <2>3, <3>1
    <3>3. /\ y.mode = f.b.mode /\ y.offset = pos /\ y.data = <<>>
          /\ y.used = 0 /\ y.unread = <<>> /\ y.buffered = f.b.buffered
          /\ y.mode \in {"idle", "read", "write"} /\ pos \in Nat
      BY <2>3, <2>5 DEF Sound
    <3>4. ky.bytes = f.k.bytes /\ ky.bytes \in Seq(Bytes)
      BY <2>3 DEF Kernel
    <3> HIDE DEF y, ky
    <3>5. Getpos(y) = pos
      BY <3>3, GetposEmpty
    <3>6. Known(y, ky) = Known(b, k)
      BY <2>2, <3>3, <3>4, NothingOverlaid DEF Known
    <3>7. Coherent(y, ky)
      BY <3>3, <3>4, EmptyCoherent
    <3> QED
      BY <2>2, <3>2, <3>3, <3>5, <3>6, <3>7 DEF Seeks, Still, Keeps
  <2> QED
    BY <2>4, <2>5
<1> QED
  BY <1>2, <1>3, <1>4

(* gsetvbuf is refused, or finds the descriptor where the stream is.       *)
LEMMA GsetvbufSets ==
  ASSUME NEW b, NEW k, Faithful(b, k), NEW buffered \in BOOLEAN,
         NEW o \in Gsetvbuf(b, k, buffered)
  PROVE  \/ /\ o.ok = TRUE /\ o.b.buffered = buffered /\ o.ret = 0
            /\ Coherent(o.b, o.k) /\ Known(o.b, o.k) = Known(b, k)
            /\ Getpos(o.b) = Getpos(b)
         \/ o.ok = FALSE /\ Still(o, b, k)
<1>1. /\ Good(b, k) /\ Sound(b) /\ InPlace(b, k.pos) /\ Coherent(b, k)
      /\ "a" \notin b.can
  BY DEF Faithful, Good
<1>2. CASE b.mode = "idle"
  <2> DEFINE x == [b EXCEPT !.buffered = buffered, !.offset = k.pos]
  <2>1. o.b = x /\ o.k = k /\ o.ok = TRUE /\ o.ret = 0
    <3>1. o = Outcome(x, k, TRUE, 0)
      BY <1>2 DEF Gsetvbuf
    <3> HIDE DEF x
    <3> QED
      BY <3>1 DEF Outcome
  <2>2. x.mode = "idle" /\ x.offset = k.pos /\ x.buffered = buffered
    BY <1>1, <1>2 DEF Sound
  <2> HIDE DEF x
  <2>3. k.pos = b.offset
    BY <1>1, <1>2 DEF InPlace, Sound, Good, Kernel
  <2>4. Getpos(x) = Getpos(b) /\ Known(x, k) = Known(b, k) /\ Coherent(x, k)
    BY <1>2, <2>2, <2>3 DEF Getpos, Known, Coherent
  <2> QED
    BY <2>1, <2>2, <2>4
<1>3. CASE b.mode # "idle"
  <2>1. o.b = b /\ o.k = k /\ o.ok = FALSE
    BY <1>3 DEF Gsetvbuf, Outcome
  <2> QED
    BY <1>1, <2>1 DEF Still, Keeps
<1> QED
  BY <1>2, <1>3

-----------------------------------------------------------------------------
(* Files that are only read and appended to                                *)

(* A stream that cannot change what is in its file: its descriptor has     *)
(* O_APPEND, or it cannot be written at all.                               *)
Preserving(b) == "a" \in b.can \/ ("w" \notin b.can /\ b.mode # "write")

(* The bytes d begin with the bytes c.                                     *)
Extends(c, d) == Len(c) <= Len(d) /\ Upto(d, Len(c)) = c

LEMMA ExtendsItself ==
  ASSUME NEW c \in Seq(Bytes)
  PROVE  Extends(c, c)
BY DEF Extends, Upto

LEMMA ExtendsBytes ==
  ASSUME NEW c \in Seq(Bytes), NEW d \in Seq(Bytes)
  PROVE  Extends(c, d) <=> /\ Len(c) <= Len(d)
                           /\ \A i \in 1 .. Len(c) : d[i] = c[i]
<1>1. ASSUME Extends(c, d), NEW i \in 1 .. Len(c)
      PROVE  d[i] = c[i]
  BY <1>1 DEF Extends, Upto
<1>2. ASSUME Len(c) <= Len(d), \A i \in 1 .. Len(c) : d[i] = c[i]
      PROVE  Upto(d, Len(c)) = c
  <2>1. Upto(d, Len(c)) \in Seq(Bytes) /\ Len(Upto(d, Len(c))) = Len(c)
    BY <1>2, UptoType, EmptyType
  <2>2. \A i \in 1 .. Len(c) : Upto(d, Len(c))[i] = c[i]
    BY <1>2 DEF Upto
  <2> QED
    BY <2>1, <2>2, SameSequence
<1> QED
  BY <1>1, <1>2 DEF Extends

LEMMA ExtendsFurther ==
  ASSUME NEW c \in Seq(Bytes), NEW d \in Seq(Bytes), NEW e \in Seq(Bytes),
         Extends(c, d), Extends(d, e)
  PROVE  Extends(c, e)
<1>1. /\ Len(c) <= Len(d) /\ \A i \in 1 .. Len(c) : d[i] = c[i]
      /\ Len(d) <= Len(e) /\ \A i \in 1 .. Len(d) : e[i] = d[i]
  BY ExtendsBytes
<1>2. Len(c) \in Nat /\ Len(d) \in Nat /\ Len(e) \in Nat
  BY EmptyType
<1>3. Len(c) <= Len(e) /\ \A i \in 1 .. Len(c) : e[i] = c[i]
  BY <1>1, <1>2
<1> QED
  BY <1>3, ExtendsBytes

(* write() through a descriptor with O_APPEND.                             *)
LEMMA WrittenExtends ==
  ASSUME NEW b, NEW k, Kernel(k), NEW bs \in Seq(Bytes), "a" \in b.can
  PROVE  Extends(k.bytes, Written(b, k, bs).bytes)
<1> DEFINE c == k.bytes
<1>1. c \in Seq(Bytes) /\ Len(c) \in Nat /\ Len(bs) \in Nat
  BY EmptyType DEF Kernel
<1>2. CASE bs = <<>>
  BY <1>1, <1>2, ExtendsItself DEF Written
<1>3. CASE bs # <<>>
  <2> DEFINE d == Overlay(c, Len(c), bs)
  <2>1. Written(b, k, bs).bytes = d
    BY <1>3 DEF Written
  <2> HIDE DEF c
  <2>2. d \in Seq(Bytes)
    BY <1>1, OverlayType
  <2>3. d = [i \in 1 .. Greater(Len(c), Len(c) + Len(bs)) |->
               IF i > Len(c) /\ i <= Len(c) + Len(bs) THEN bs[i - Len(c)]
               ELSE IF i <= Len(c) THEN c[i] ELSE Zero]
    BY <1>3 DEF Overlay
  <2>4. Greater(Len(c), Len(c) + Len(bs)) = Len(c) + Len(bs)
    BY <1>1 DEF Greater
  <2> DEFINE n == Len(c)
             m == Len(bs)
  <2>5. n \in Nat /\ m \in Nat
    BY <1>1
  <2>6. /\ DOMAIN d = 1 .. n + m
        /\ \A i \in 1 .. n : d[i] = c[i]
    <3> HIDE DEF d
    <3>1. d = [i \in 1 .. n + m |->
                 IF i > n /\ i <= n + m THEN bs[i - n]
                 ELSE IF i <= n THEN c[i] ELSE Zero]
      BY <2>3, <2>4
    <3> HIDE DEF n, m
    <3> QED
      BY <2>5, <3>1
  <2> HIDE DEF d
  <2>7. Len(d) = n + m
    <3>1. Len(d) \in Nat /\ DOMAIN d = 1 .. Len(d)
      BY <2>2
    <3> HIDE DEF n, m
    <3> QED
      BY <2>5, <2>6, <3>1
  <2>8. Extends(c, d)
    BY <1>1, <2>2, <2>5, <2>6, <2>7, ExtendsBytes
  <2> QED
    BY <2>1, <2>8 DEF c
<1> QED
  BY <1>2, <1>3

(* An outcome that leaves what was in the file, and the stream as it was   *)
(* in this respect.                                                        *)
Spares(o, b, k) == Extends(k.bytes, o.k.bytes) /\ Preserving(o.b)

(* What leaves the file alone and does not turn the stream to writing.     *)
LEMMA SparesSame ==
  ASSUME NEW o, NEW b, NEW k, Kernel(k), Preserving(b), o.k.bytes = k.bytes,
         o.b.can = b.can, o.b.mode # "write" \/ o.b.mode = b.mode
  PROVE  Spares(o, b, k)
BY ExtendsItself DEF Spares, Preserving, Kernel

(* One part of a call after another.                                       *)
LEMMA SparesAfter ==
  ASSUME NEW r, NEW b, NEW k, NEW o, Kernel(k), Kernel(r.k), Kernel(o.k),
         Spares(r, b, k), Spares(o, r.b, r.k)
  PROVE  Spares(o, b, k)
BY ExtendsFurther DEF Spares, Kernel

(* Of a stream that appends it is enough to look at the file.              *)
LEMMA SparesAppending ==
  ASSUME NEW o, NEW b, NEW k, "a" \in b.can, o.b.can = b.can,
         Extends(k.bytes, o.k.bytes)
  PROVE  Spares(o, b, k)
BY DEF Spares, Preserving

LEMMA GflushSpares ==
  ASSUME ~ IOErrors, NEW b, NEW k, Good(b, k), Preserving(b),
         NEW o \in Gflush(b, k)
  PROVE  Spares(o, b, k)
<1>1. Flushed(o, b)
  BY GflushFits
<1>2. o.b.can = b.can /\ o.b.mode = b.mode /\ Kernel(k) /\ Sound(b)
  BY <1>1 DEF Flushed, Fits, Good
<1>3. CASE b.mode = "write"
  <2> DEFINE m == Len(b.data)
  <2>1. o.k = Written(b, k, Upto(b.data, m))
    BY <1>3 DEF Gflush, Gflushw, WriteCounts, Outcome
  <2>2. Upto(b.data, m) = b.data /\ b.data \in Seq(Bytes)
    BY <1>2, AllType DEF Sound
  <2>3. "a" \in b.can
    BY <1>3 DEF Preserving
  <2> HIDE DEF m
  <2>4. Extends(k.bytes, o.k.bytes)
    BY <1>2, <2>1, <2>2, <2>3, WrittenExtends
  <2> QED
    BY <1>2, <2>3, <2>4, SparesAppending
<1>4. CASE b.mode = "read"
  <2>1. o.k.bytes = k.bytes
    BY <1>2, <1>4 DEF Gflush, Gflushr, Outcome, Moved, Kernel
  <2> QED
    BY <1>2, <2>1, SparesSame
<1>5. CASE b.mode = "idle"
  <2>1. o.k.bytes = k.bytes
    BY <1>5 DEF Gflush, Outcome
  <2> QED
    BY <1>2, <2>1, SparesSame
<1> QED
  BY <1>2, <1>3, <1>4, <1>5 DEF Sound

(* Only a stream that can be written is turned to writing.                 *)
LEMMA TurnSpares ==
  ASSUME ~ IOErrors, NEW b, NEW k, Good(b, k), Preserving(b),
         NEW mode \in {"read", "write"}, mode = "read" \/ "a" \in b.can,
         NEW o \in Turn(b, k, mode)
  PROVE  Spares(o, b, k)
<1>1. Fits(o, b) /\ o.ok /\ o.b.mode = mode /\ Kernel(k)
  BY TurnFits DEF Good
<1>2. Preserving(o.b)
  BY <1>1 DEF Preserving, Fits
<1>3. CASE b.mode = mode
  <2>1. o.k = k
    BY <1>3 DEF Turn, Outcome
  <2> QED
    BY <1>1, <1>2, <2>1, ExtendsItself DEF Spares, Kernel
<1>4. CASE b.mode # mode
  <2>1. PICK f \in Gflush(b, k) :
          o = IF f.ok
              THEN [f EXCEPT !.b = [@ EXCEPT !.mode = mode, !.data = <<>>,
                                             !.used = 0, !.room = 0, !.lead = 0]]
              ELSE f
    BY <1>4 DEF Turn
  <2>2. Flushed(f, b) /\ Spares(f, b, k)
    BY GflushFits, GflushSpares
  <2>3. o.k = f.k
    BY <2>1, <2>2 DEF Flushed, Fits
  <2> QED
    BY <1>2, <2>2, <2>3 DEF Spares
<1> QED
  BY <1>3, <1>4

(* Reading leaves the file alone once the stream is turned to it.          *)
LEMMA ReadPlainSpares ==
  ASSUME NEW b, NEW k, Good(b, k), b.mode = "read", NEW n \in Nat,
         NEW o \in ReadPlain(b, k, n), Preserving(b)
  PROVE  Spares(o, b, k)
<1>1. Sound(b) /\ Kernel(k) /\ b.unread = <<>>
  BY DEF Good, Sound
<1>2. PICK m \in ReadCounts(k, n) :
        o = Outcome([b EXCEPT !.offset = @ + m], Moved(k, k.pos + m), TRUE,
                    Ahead(k, m))
  BY <1>1 DEF ReadPlain
<1>3. o.b.can = b.can /\ o.b.mode = b.mode /\ o.k.bytes = k.bytes
  BY <1>1, <1>2 DEF Outcome, Moved, Sound, Kernel
<1> QED
  BY <1>1, <1>3, SparesSame

LEMMA RefillSpares ==
  ASSUME NEW b, NEW k, Good(b, k), b.mode = "read", Preserving(b),
         NEW n, NEW got, NEW o \in Refill(b, k, n, got)
  PROVE  Spares(o, b, k)
<1> DEFINE e == [b EXCEPT !.offset = @ + b.used, !.data = <<>>, !.used = 0]
<1>1. Sound(b) /\ Kernel(k)
  BY DEF Good
<1>2. DOMAIN e = DOMAIN b /\ e.can = b.can /\ e.mode = b.mode
  BY <1>1 DEF Sound
<1>3. PICK cache \in CachesR :
        o \in IF n >= BigR \/ cache = 0
              THEN {Outcome([e EXCEPT !.offset = @ + m], Moved(k, k.pos + m),
                            TRUE, got \o Ahead(k, m)) : m \in ReadCounts(k, n)}
              ELSE LET want == RoundUp(Greater(n, cache))
                   IN  {Outcome([e EXCEPT !.data = Ahead(k, m),
                                   !.used = Lesser(n, m), !.lead = 0,
                                   !.size_p = Greater(@, want)],
                                Moved(k, k.pos + m), TRUE,
                                got \o Ahead(k, Lesser(n, m))) :
                          m \in ReadCounts(k, want)}
  BY DEF Refill
<1> HIDE DEF e
<1>4. CASE n >= BigR \/ cache = 0
  <2>1. PICK m : o = Outcome([e EXCEPT !.offset = @ + m],
                             Moved(k, k.pos + m), TRUE, got \o Ahead(k, m))
    BY <1>3, <1>4
  <2>2. o.b.can = e.can /\ o.b.mode = e.mode /\ o.k.bytes = k.bytes
    BY <1>1, <1>2, <2>1 DEF Outcome, Moved, Sound, Kernel
  <2> QED
    BY <1>1, <1>2, <2>2, SparesSame
<1>5. CASE ~ (n >= BigR \/ cache = 0)
  <2> DEFINE want == RoundUp(Greater(n, cache))
  <2>1. PICK m : o = Outcome([e EXCEPT !.data = Ahead(k, m),
                                   !.used = Lesser(n, m), !.lead = 0,
                                   !.size_p = Greater(@, want)],
                             Moved(k, k.pos + m), TRUE,
                             got \o Ahead(k, Lesser(n, m)))
    BY <1>3, <1>5
  <2> HIDE DEF want
  <2>2. o.b.can = e.can /\ o.b.mode = e.mode /\ o.k.bytes = k.bytes
    BY <1>1, <1>2, <2>1 DEF Outcome, Moved, Sound, Kernel
  <2> QED
    BY <1>1, <1>2, <2>2, SparesSame
<1> QED
  BY <1>4, <1>5

LEMMA ReadBehindSpares ==
  ASSUME NEW b, NEW k, Good(b, k), b.mode = "read", Preserving(b),
         NEW n, NEW o \in ReadBehind(b, k, n)
  PROVE  Spares(o, b, k)
<1>1. Sound(b) /\ Kernel(k)
  BY DEF Good
<1> DEFINE left == From(b.data, b.used)
           need == n - InCaches(b)
           Want(cache) == IF cache = 0 THEN need
                          ELSE RoundUp(Len(left) + Greater(need, cache))
                                 - Len(left)
           Size(cache) == Greater(b.size_p, RoundUp(Len(left) + Want(cache)))
           After(m, cache) ==
             LET all == left \o Ahead(k, m)
                 have == Lesser(n, Len(b.unread) + Len(all))
             IN  Outcome([b EXCEPT !.offset = @ + b.used, !.data = all,
                                   !.used = have - Len(b.unread),
                                   !.unread = <<>>, !.lead = 0,
                                   !.size_p = Size(cache)],
                         Moved(k, k.pos + m), TRUE,
                         Upto(b.unread \o all, have))
<1>2. PICK cache \in CachesR :
        \E m \in ReadCounts(k, Want(cache)) : o = After(m, cache)
  <2>1. ReadBehind(b, k, n)
          = UNION {{After(m, cache) : m \in ReadCounts(k, Want(cache))} :
                     cache \in CachesR}
    BY DEF ReadBehind
  <2> HIDE DEF After
  <2> QED
    BY <2>1
<1>3. PICK m : o = After(m, cache)
  BY <1>2
<1> HIDE DEF left, Size
<1>4. o.b.can = b.can /\ o.b.mode = b.mode /\ o.k.bytes = k.bytes
  BY <1>1, <1>3 DEF Outcome, Moved, Sound, Kernel
<1> QED
  BY <1>1, <1>4, SparesSame

LEMMA ConsumedSpares ==
  ASSUME NEW b, NEW n, Sound(b)
  PROVE  Consumed(b, n).can = b.can /\ Consumed(b, n).mode = b.mode
BY DEF Consumed, Sound

(* greadc and greadb, in either mode of buffering: what is still to be     *)
(* written is written first.                                               *)
LEMMA GreadcSpares ==
  ASSUME ~ IOErrors, NEW b, NEW k, Good(b, k), Preserving(b), NEW n \in Nat,
         NEW o \in Greadc(b, k, n)
  PROVE  Spares(o, b, k)
<1>1. CASE o = Outcome(b, k, FALSE, <<>>)
  BY <1>1, SparesSame DEF Outcome, Good
<1>2. CASE o # Outcome(b, k, FALSE, <<>>)
  <2> DEFINE Part(r) ==
               IF ~ r.ok THEN {[r EXCEPT !.ret = <<>>]}
               ELSE IF ~ b.buffered THEN ReadPlain(r.b, r.k, n)
               ELSE IF n <= InCaches(r.b)
               THEN {Outcome(Consumed(r.b, n), r.k, TRUE, Served(r.b, n))}
               ELSE Refill(Consumed(r.b, InCaches(r.b)), r.k,
                           n - InCaches(r.b), Served(r.b, InCaches(r.b)))
  <2>1. PICK r \in Turn(b, k, "read") : o \in Part(r)
    <3>1. Greadc(b, k, n)
            = IF "r" \notin b.can /\ b.mode # "read"
              THEN {Outcome(b, k, FALSE, <<>>)}
              ELSE UNION {Part(r) : r \in Turn(b, k, "read")}
      BY DEF Greadc, Reading
    <3> HIDE DEF Part
    <3> QED
      BY <1>2, <3>1
  <2>2. Fits(r, b) /\ r.ok /\ r.b.mode = "read" /\ Spares(r, b, k)
    BY TurnFits, TurnSpares
  <2>3. /\ Good(r.b, r.k) /\ r.b.can = b.can /\ Preserving(r.b)
        /\ Sound(r.b) /\ Kernel(r.k)
    BY <2>2 DEF Fits, Good, Spares
  <2>4. Spares(o, r.b, r.k)
    <3>1. CASE ~ b.buffered
      BY <2>1, <2>2, <2>3, <3>1, ReadPlainSpares
    <3>2. CASE b.buffered /\ n <= InCaches(r.b)
      <4>1. o = Outcome(Consumed(r.b, n), r.k, TRUE, Served(r.b, n))
        BY <2>1, <2>2, <3>2
      <4>2. /\ o.b.can = r.b.can /\ o.b.mode = r.b.mode
            /\ o.k.bytes = r.k.bytes
        BY <2>3, <4>1, ConsumedSpares DEF Outcome
      <4> QED
        BY <2>3, <4>2, SparesSame
    <3>3. CASE b.buffered /\ ~ (n <= InCaches(r.b))
      <4> DEFINE have == InCaches(r.b)
                 c == Consumed(r.b, have)
      <4>1. have \in Nat /\ have = Len(r.b.data) - r.b.used
        BY <2>3, EmptyType, SMTT(30) DEF Sound, InCaches
      <4>2. Good(c, r.k) /\ c.can = b.can /\ c.mode = "read"
        BY <2>2, <2>3, <4>1, ConsumedGood
      <4>3. o \in Refill(c, r.k, n - have, Served(r.b, have))
        BY <2>1, <2>2, <3>3
      <4> HIDE DEF c, have
      <4>4. Preserving(c)
        BY <2>2, <2>3, <4>2 DEF Preserving
      <4>5. Spares(o, c, r.k)
        BY <4>2, <4>3, <4>4, RefillSpares
      <4> QED
        BY <4>5 DEF Spares
    <3> QED
      BY <3>1, <3>2, <3>3
  <2>5. Kernel(o.k) /\ Kernel(k)
    BY GreadcFits DEF Fits, Good
  <2> HIDE DEF Part
  <2> QED
    BY <2>2, <2>3, <2>4, <2>5, SparesAfter
<1> QED
  BY <1>1, <1>2

LEMMA GreadbSpares ==
  ASSUME ~ IOErrors, NEW b, NEW k, Good(b, k), Preserving(b), NEW n \in Nat,
         NEW o \in Greadb(b, k, n)
  PROVE  Spares(o, b, k)
<1>1. CASE o = Outcome(b, k, FALSE, <<>>)
  BY <1>1, SparesSame DEF Outcome, Good
<1>2. CASE o # Outcome(b, k, FALSE, <<>>)
  <2> DEFINE Part(r) ==
               IF ~ r.ok THEN {[r EXCEPT !.ret = <<>>]}
               ELSE IF ~ b.buffered THEN ReadPlain(r.b, r.k, n)
               ELSE IF n <= InCaches(r.b)
               THEN {Outcome(Consumed(r.b, n), r.k, TRUE, Served(r.b, n))}
               ELSE ReadBehind(r.b, r.k, n)
  <2>1. PICK r \in Turn(b, k, "read") : o \in Part(r)
    <3>1. Greadb(b, k, n)
            = IF "r" \notin b.can /\ b.mode # "read"
              THEN {Outcome(b, k, FALSE, <<>>)}
              ELSE UNION {Part(r) : r \in Turn(b, k, "read")}
      BY DEF Greadb, Reading
    <3> HIDE DEF Part
    <3> QED
      BY <1>2, <3>1
  <2>2. Fits(r, b) /\ r.ok /\ r.b.mode = "read" /\ Spares(r, b, k)
    BY TurnFits, TurnSpares
  <2>3. /\ Good(r.b, r.k) /\ r.b.can = b.can /\ Preserving(r.b)
        /\ Sound(r.b) /\ Kernel(r.k)
    BY <2>2 DEF Fits, Good, Spares
  <2>4. Spares(o, r.b, r.k)
    <3>1. CASE ~ b.buffered
      BY <2>1, <2>2, <2>3, <3>1, ReadPlainSpares
    <3>2. CASE b.buffered /\ n <= InCaches(r.b)
      <4>1. o = Outcome(Consumed(r.b, n), r.k, TRUE, Served(r.b, n))
        BY <2>1, <2>2, <3>2
      <4>2. /\ o.b.can = r.b.can /\ o.b.mode = r.b.mode
            /\ o.k.bytes = r.k.bytes
        BY <2>3, <4>1, ConsumedSpares DEF Outcome
      <4> QED
        BY <2>3, <4>2, SparesSame
    <3>3. CASE b.buffered /\ ~ (n <= InCaches(r.b))
      BY <2>1, <2>2, <2>3, <3>3, ReadBehindSpares
    <3> QED
      BY <3>1, <3>2, <3>3
  <2>5. Kernel(o.k) /\ Kernel(k)
    BY GreadbFits DEF Fits, Good
  <2> HIDE DEF Part
  <2> QED
    BY <2>2, <2>3, <2>4, <2>5, SparesAfter
<1> QED
  BY <1>1, <1>2

(* What a stream in write state writes goes behind what is there.          *)
LEMMA WriteEmptyExtends ==
  ASSUME ~ IOErrors, NEW b, NEW k, Kernel(k), "a" \in b.can,
         NEW bs \in Seq(Bytes), NEW n, NEW o \in WriteEmpty(b, k, bs, n)
  PROVE  Extends(k.bytes, o.k.bytes)
<1>1. CASE Len(bs) >= BigW
  <2> DEFINE After(m) ==
               Outcome([b EXCEPT !.offset = @ + m, !.lead = 0,
                                 !.room = IF b.size_p > 0 THEN b.size_p ELSE @],
                       Written(b, k, Upto(bs, m)), m = Len(bs), n + m)
  <2>1. o \in {After(m) : m \in WriteCounts(Len(bs))}
    BY <1>1 DEF WriteEmpty
  <2>2. o = After(Len(bs))
    <3> HIDE DEF After
    <3> QED
      BY <2>1, AllWritten
  <2>3. o.k = Written(b, k, bs)
    BY <2>2, AllType DEF Outcome
  <2> QED
    BY <2>3, WrittenExtends
<1>2. CASE ~ (Len(bs) >= BigW)
  <2>1. PICK x, ret : o = Outcome(x, k, TRUE, ret)
    BY <1>2, Zenon DEF WriteEmpty
  <2>2. o.k = k
    BY <2>1 DEF Outcome
  <2> QED
    BY <2>2, ExtendsItself DEF Kernel
<1> QED
  BY <1>1, <1>2

LEMMA WriteBehindExtends ==
  ASSUME ~ IOErrors, NEW b, NEW k, Good(b, k), b.mode = "write", b.buffered,
         b.data # <<>>, "a" \in b.can, NEW bs \in Seq(Bytes),
         NEW o \in WriteBehind(b, k, bs)
  PROVE  Extends(k.bytes, o.k.bytes)
<1> DEFINE need == Len(b.data)
           block == (Mod - (need % Mod))
                      + (IF need < BigW THEN BigW - need ELSE 0)
           want == Lesser(Lesser(block, Len(bs)), b.size_p - (b.lead + need))
           all == b.data \o Upto(bs, want)
           c == [b EXCEPT !.data = all, !.room = b.room - want]
           F(m) == [c EXCEPT !.offset = @ + m, !.data = From(@, m),
                             !.lead = @ + m]
           Part(m) ==
             IF m < Len(all)
             THEN {Outcome(F(m), Written(b, k, Upto(all, m)), FALSE, want)}
             ELSE WriteEmpty(F(m), Written(b, k, all), From(bs, want), want)
<1>1. Sound(b) /\ Kernel(k) /\ RoomKnown(b)
  BY DEF Good, Sound
<1>2. /\ need \in Nat /\ Len(bs) \in Nat
      /\ b.room = b.size_p - b.lead - need /\ b.room \in Nat
      /\ b.lead \in Nat /\ b.size_p \in Nat
  BY <1>1, EmptyType DEF Sound, RoomKnown, Vacancy
<1>3. WriteBehind(b, k, bs)
        = IF want = Len(bs) /\ b.room - want # 0
          THEN {Outcome(c, k, TRUE, want)}
          ELSE UNION {Part(m) : m \in WriteCounts(Len(all))}
  BY DEF WriteBehind
<1>4. want \in Nat /\ want <= Len(bs)
  <2> HIDE DEF need
  <2>1. block \in Nat
    BY <1>2, BufferAssumption
  <2> HIDE DEF block
  <2> QED
    BY <1>2, <2>1 DEF Lesser
<1> HIDE DEF want
<1>5. all \in Seq(Bytes) /\ Len(all) \in Nat
  <2>1. Upto(bs, want) \in Seq(Bytes)
    BY <1>2, <1>4, UptoType
  <2> QED
    BY <1>1, <2>1, JoinedType, EmptyType DEF Sound
<1>6. DOMAIN c = DOMAIN b /\ c.can = b.can
  BY <1>1 DEF Sound
<1> HIDE DEF all, c, need
<1>7. CASE o = Outcome(c, k, TRUE, want)
  BY <1>1, <1>7, ExtendsItself DEF Outcome, Kernel
<1>8. CASE o # Outcome(c, k, TRUE, want)
  <2> DEFINE m == Len(all)
             f == F(m)
             kf == Written(b, k, all)
  <2>1. m \in Nat /\ WriteCounts(Len(all)) = {m}
    BY <1>5, AllWritten
  <2>2. o \in UNION {Part(n) : n \in WriteCounts(Len(all))}
    <3> HIDE DEF Part
    <3> QED
      BY <1>3, <1>8
  <2>3. o \in Part(m)
    <3> HIDE DEF Part
    <3> QED
      BY <2>1, <2>2
  <2>4. o \in WriteEmpty(f, kf, From(bs, want), want)
    <3>1. ~ (m < Len(all))
      BY <2>1
    <3> HIDE DEF F, m
    <3>2. Part(m) = WriteEmpty(F(m), Written(b, k, all), From(bs, want), want)
      BY <3>1
    <3> QED
      BY <2>3, <3>2
  <2>5. f.can = b.can
    BY <1>1, <1>6 DEF Sound
  <2> HIDE DEF f, Part
  <2>6. Kernel(kf) /\ Extends(k.bytes, kf.bytes)
    BY <1>1, <1>5, WrittenKernel, WrittenExtends
  <2>7. From(bs, want) \in Seq(Bytes)
    BY <1>2, <1>4, FromType
  <2> HIDE DEF kf
  <2>8. Extends(kf.bytes, o.k.bytes)
    BY <2>4, <2>5, <2>6, <2>7, WriteEmptyExtends
  <2>9. Kernel(o.k)
    BY WriteBehindFits DEF Fits, Good
  <2> QED
    BY <1>1, <2>6, <2>8, <2>9, ExtendsFurther DEF Kernel
<1> QED
  BY <1>7, <1>8

LEMMA WriteLeftExtends ==
  ASSUME ~ IOErrors, NEW b, NEW k, Good(b, k), "a" \in b.can,
         NEW o \in WriteLeft(b, k)
  PROVE  Extends(k.bytes, o.k.bytes)
<1>1. b.data \in Seq(Bytes) /\ Kernel(k)
  BY DEF Good, Sound
<1>2. o.k = Written(b, k, Upto(b.data, Len(b.data)))
  <2> DEFINE After(m) ==
               Outcome([b EXCEPT !.offset = @ + m,
                                 !.data = IF m = 0 THEN @ ELSE <<>>,
                                 !.lead = IF m = 0 THEN @ ELSE 0],
                       Written(b, k, Upto(b.data, m)), m = Len(b.data), 0)
  <2>1. o \in {After(m) : m \in WriteCounts(Len(b.data))}
    BY DEF WriteLeft
  <2>2. o = After(Len(b.data))
    <3> HIDE DEF After
    <3> QED
      BY <2>1, AllWritten
  <2> QED
    BY <2>2 DEF Outcome
<1>3. o.k = Written(b, k, b.data)
  BY <1>1, <1>2, AllType
<1> QED
  BY <1>1, <1>3, WrittenExtends

LEMMA WritePlainExtends ==
  ASSUME ~ IOErrors, NEW b, NEW k, Good(b, k), b.mode = "write", ~ b.buffered,
         "a" \in b.can, NEW bs \in Seq(Bytes), NEW o \in WritePlain(b, k, bs)
  PROVE  Extends(k.bytes, o.k.bytes)
<1> DEFINE After(r, i) == Outcome([r.b EXCEPT !.offset = @ + i],
                                  Written(r.b, r.k, Upto(bs, i)),
                                  i = Len(bs), i)
           Part(r) == IF ~ r.ok THEN {r}
                      ELSE {After(r, m) : m \in WriteCounts(Len(bs))}
<1>1. PICK r \in WriteLeft(b, k) : o \in Part(r)
  <2>1. WritePlain(b, k, bs) = UNION {Part(r) : r \in WriteLeft(b, k)}
    BY DEF WritePlain
  <2> HIDE DEF Part
  <2> QED
    BY <2>1
<1>2. Fits(r, b) /\ Extends(k.bytes, r.k.bytes)
  BY WriteLeftFits, WriteLeftExtends
<1>3. Kernel(k) /\ Kernel(r.k) /\ r.b.can = b.can
  BY <1>2 DEF Fits, Good
<1>4. CASE ~ r.ok
  BY <1>1, <1>2, <1>4
<1>5. CASE r.ok
  <2>1. o \in {After(r, m) : m \in WriteCounts(Len(bs))}
    BY <1>1, <1>5
  <2>2. o = After(r, Len(bs))
    <3> HIDE DEF After
    <3> QED
      BY <2>1, AllWritten
  <2>3. o.k = Written(r.b, r.k, bs)
    BY <2>2, AllType DEF Outcome
  <2> DEFINE c == r.b
             kc == r.k
  <2>4. Kernel(kc) /\ "a" \in c.can /\ o.k = Written(c, kc, bs)
    BY <1>3, <2>3
  <2> HIDE DEF c, kc
  <2>5. Extends(kc.bytes, o.k.bytes) /\ Kernel(o.k)
    BY <2>4, WrittenExtends, WrittenKernel
  <2> QED
    BY <1>2, <1>3, <2>5, ExtendsFurther DEF Kernel, kc
<1> QED
  BY <1>4, <1>5

(* gwritec: a stream that cannot be written is not.                        *)
LEMMA GwritecSpares ==
  ASSUME ~ IOErrors, NEW b, NEW k, Good(b, k), Preserving(b),
         NEW bs \in Seq(Bytes), NEW o \in Gwritec(b, k, bs)
  PROVE  Spares(o, b, k)
<1>1. Kernel(k) /\ Fits(o, b)
  BY GwritecFits DEF Good
<1>2. CASE o = Outcome(b, k, FALSE, 0)
  BY <1>1, <1>2, SparesSame DEF Outcome
<1>3. CASE o # Outcome(b, k, FALSE, 0)
  <2> DEFINE Part(r) ==
               IF ~ r.ok THEN {r}
               ELSE IF ~ b.buffered THEN WritePlain(r.b, r.k, bs)
               ELSE IF FastWrite(r.b, Len(bs))
               THEN {Outcome([r.b EXCEPT !.data = @ \o bs,
                                         !.room = @ - Len(bs)],
                             r.k, TRUE, Len(bs))}
               ELSE IF r.b.data # <<>> THEN WriteBehind(r.b, r.k, bs)
               ELSE WriteEmpty(r.b, r.k, bs, 0)
  <2>1. Gwritec(b, k, bs)
          = IF "w" \notin b.can THEN {Outcome(b, k, FALSE, 0)}
            ELSE UNION {Part(r) : r \in Turn(b, k, "write")}
    BY DEF Gwritec
  <2>2. "a" \in b.can
    <3> HIDE DEF Part
    <3> QED
      BY <1>3, <2>1 DEF Preserving
  <2>3. PICK r \in Turn(b, k, "write") : o \in Part(r)
    <3> HIDE DEF Part
    <3> QED
      BY <1>3, <2>1
  <2>4. /\ Fits(r, b) /\ r.ok /\ r.b.mode = "write"
        /\ r.b.buffered = b.buffered /\ Spares(r, b, k)
    BY <2>2, TurnFits, TurnSpares
  <2>5. Good(r.b, r.k) /\ r.b.can = b.can /\ Kernel(r.k)
    BY <2>4 DEF Fits, Good
  <2>6. Extends(r.k.bytes, o.k.bytes)
    <3>1. CASE ~ b.buffered
      BY <2>2, <2>3, <2>4, <2>5, <3>1, WritePlainExtends
    <3>2. CASE b.buffered /\ FastWrite(r.b, Len(bs))
      <4>1. o.k = r.k
        BY <2>3, <2>4, <3>2 DEF Outcome
      <4> QED
        BY <2>5, <4>1, ExtendsItself DEF Kernel
    <3>3. CASE b.buffered /\ ~ FastWrite(r.b, Len(bs)) /\ r.b.data # <<>>
      BY <2>2, <2>3, <2>4, <2>5, <3>3, WriteBehindExtends
    <3>4. CASE b.buffered /\ ~ FastWrite(r.b, Len(bs)) /\ r.b.data = <<>>
      <4>1. o \in WriteEmpty(r.b, r.k, bs, 0)
        BY <2>3, <2>4, <3>4
      <4> QED
        BY <2>2, <2>5, <4>1, WriteEmptyExtends
    <3> QED
      BY <3>1, <3>2, <3>3, <3>4
  <2> HIDE DEF Part
  <2>7. Extends(k.bytes, o.k.bytes)
    BY <1>1, <2>4, <2>5, <2>6, ExtendsFurther DEF Spares, Kernel, Fits, Good
  <2> QED
    BY <1>1, <2>2, <2>7, SparesAppending DEF Fits
<1> QED
  BY <1>2, <1>3

LEMMA MakeRoomExtends ==
  ASSUME ~ IOErrors, NEW b, NEW k, Good(b, k), "a" \in b.can,
         NEW bs \in Seq(Bytes), NEW o \in MakeRoom(b, k, bs)
  PROVE  Extends(k.bytes, o.k.bytes)
<1> DEFINE whole == Len(b.data) - (Len(b.data) % Mod)
           out == IF whole >= MinW THEN whole ELSE 0
           F(m) == [b EXCEPT !.offset = @ + m, !.data = From(@, m),
                             !.lead = @ + m]
           K(m) == Written(b, k, Upto(b.data, m))
           Least(f) == Greater(Len(f.data) + Len(bs), MinBlocks * Mod)
           Size(f, cache) ==
             Greater(f.size_p, RoundUp(Greater(Least(f), cache)))
           Grown(f, size) == [f EXCEPT !.lead = 0, !.size_p = size,
                                       !.room = size - Len(f.data)]
           Part(m) ==
             IF m < out THEN {Outcome(F(m), K(m), FALSE, 0)}
             ELSE {Stored(Grown(F(m), Size(F(m), cache)), K(m), bs) :
                     cache \in CachesW}
<1>1. Kernel(k) /\ b.data \in Seq(Bytes)
  BY DEF Good, Sound
<1>2. out \in 0 .. Len(b.data)
  <2> DEFINE n == Len(b.data)
  <2>1. n \in Nat /\ Mod \in Nat \ {0} /\ MinW \in Nat
    BY <1>1, EmptyType, BufferAssumption
  <2>2. n % Mod \in 0 .. n
    <3> HIDE DEF n
    <3>1. n % Mod \in Nat /\ n \div Mod \in Nat
          /\ n = Mod * (n \div Mod) + (n % Mod)
      BY <2>1
    <3>2. Mod * (n \div Mod) \in Nat
      BY <2>1, <3>1
    <3> QED
      BY <2>1, <3>1, <3>2
  <2>3. whole \in 0 .. n
    <3>1. whole = n - (n % Mod)
      OBVIOUS
    <3> HIDE DEF n, whole
    <3> QED
      BY <2>1, <2>2, <3>1
  <2> HIDE DEF whole, n
  <2>4. out \in 0 .. n
    BY <2>1, <2>3
  <2> QED
    BY <2>4 DEF n
<1>3. MakeRoom(b, k, bs) = UNION {Part(m) : m \in WriteCounts(out)}
  BY DEF MakeRoom
<1> HIDE DEF out
<1>4. o \in Part(out)
  <2> HIDE DEF Part
  <2> QED
    BY <1>3, AllWritten
<1>5. o.k = K(out)
  <2>1. CASE out < out
    <3> HIDE DEF F, K, Grown, Size
    <3> QED
      BY <1>4, <2>1 DEF Outcome
  <2>2. CASE ~ (out < out)
    <3> HIDE DEF F, K, Grown, Size
    <3>1. PICK g : o = Stored(g, K(out), bs)
      BY <1>4, <2>2
    <3> QED
      BY <3>1 DEF Stored, Outcome
  <2> QED
    BY <2>1, <2>2
<1> DEFINE head == Upto(b.data, out)
<1>6. head \in Seq(Bytes)
  BY <1>1, <1>2, UptoType
<1>7. o.k = Written(b, k, head)
  BY <1>5
<1> HIDE DEF head, F, K, Grown, Size, Part, Least
<1> QED
  BY <1>1, <1>6, <1>7, WrittenExtends

LEMMA GwritebBufExtends ==
  ASSUME ~ IOErrors, NEW b, NEW k, Good(b, k), b.mode = "write", b.buffered,
         "a" \in b.can, NEW bs \in Seq(Bytes), NEW o \in GwritebBuf(b, k, bs)
  PROVE  Extends(k.bytes, o.k.bytes)
<1> DEFINE e == IF b.data = <<>> THEN [b EXCEPT !.lead = 0, !.room = b.size_p]
                ELSE b
<1>1. Sound(b) /\ Kernel(k) /\ InPlace(b, k.pos) /\ RoomKnown(b)
  BY DEF Good, Sound
<1>2. o \in IF e.room >= Len(bs) THEN {Stored(e, k, bs)} ELSE MakeRoom(e, k, bs)
  BY DEF GwritebBuf
<1>3. Good(e, k) /\ e.can = b.can
  <2>1. CASE b.data # <<>>
    <3>1. e = b
      BY <2>1
    <3> HIDE DEF e
    <3> QED
      BY <3>1
  <2>2. CASE b.data = <<>>
    <3>1. /\ DOMAIN e = DOMAIN b /\ e.can = b.can /\ e.mode = "write"
          /\ e.offset = b.offset /\ e.data = <<>> /\ e.lead = 0
          /\ e.room = b.size_p /\ e.size_p = b.size_p /\ e.used = b.used
          /\ e.unread = b.unread /\ e.buffered
      BY <1>1, <2>2 DEF Sound
    <3> HIDE DEF e
    <3>2. e.room = Vacancy(e) /\ 0 <= Vacancy(e)
      BY <1>1, <3>1, EmptyType DEF Vacancy, Sound
    <3>3. Sound(e)
      BY <1>1, <2>2, <3>1, <3>2, EmptyType DEF Sound, RoomKnown
    <3> QED
      BY <1>1, <3>1, <3>3 DEF Good, InPlace
  <2> QED
    BY <2>1, <2>2
<1> HIDE DEF e
<1>4. CASE e.room >= Len(bs)
  <2>1. o.k = k
    BY <1>2, <1>4 DEF Stored, Outcome
  <2> QED
    BY <1>1, <2>1, ExtendsItself DEF Kernel
<1>5. CASE ~ (e.room >= Len(bs))
  BY <1>2, <1>3, <1>5, MakeRoomExtends
<1> QED
  BY <1>4, <1>5

LEMMA GwritebNonExtends ==
  ASSUME ~ IOErrors, NEW b, NEW k, Good(b, k), b.mode = "write", ~ b.buffered,
         "a" \in b.can, NEW bs \in Seq(Bytes), NEW o \in GwritebNon(b, k, bs)
  PROVE  Extends(k.bytes, o.k.bytes)
<1>1. PICK r \in WriteLeft(b, k) :
        o = IF r.ok
            THEN [r EXCEPT !.b.data = bs, !.b.lead = 0, !.ret = Len(bs)]
            ELSE r
  BY DEF GwritebNon
<1>2. Fits(r, b) /\ Extends(k.bytes, r.k.bytes)
  BY WriteLeftFits, WriteLeftExtends
<1>3. o.k = r.k
  BY <1>1, <1>2 DEF Fits
<1> QED
  BY <1>2, <1>3

LEMMA FpGwritebSpares ==
  ASSUME ~ IOErrors, NEW b, NEW k, Good(b, k), Preserving(b),
         NEW bs \in Seq(Bytes), NEW o \in FpGwriteb(b, k, bs)
  PROVE  Spares(o, b, k)
<1>1. Kernel(k) /\ Fits(o, b)
  BY FpGwritebFits DEF Good
<1>2. CASE o = Outcome(b, k, FALSE, 0)
  BY <1>1, <1>2, SparesSame DEF Outcome
<1>3. CASE o # Outcome(b, k, FALSE, 0)
  <2> DEFINE Part(r) == IF ~ r.ok THEN {r}
                        ELSE IF b.buffered THEN GwritebBuf(r.b, r.k, bs)
                        ELSE GwritebNon(r.b, r.k, bs)
  <2>1. FpGwriteb(b, k, bs)
          = IF "w" \notin b.can THEN {Outcome(b, k, FALSE, 0)}
            ELSE UNION {Part(r) : r \in Turn(b, k, "write")}
    BY DEF FpGwriteb
  <2>2. "a" \in b.can
    <3> HIDE DEF Part
    <3> QED
      BY <1>3, <2>1 DEF Preserving
  <2>3. PICK r \in Turn(b, k, "write") : o \in Part(r)
    <3> HIDE DEF Part
    <3> QED
      BY <1>3, <2>1
  <2>4. /\ Fits(r, b) /\ r.ok /\ r.b.mode = "write"
        /\ r.b.buffered = b.buffered /\ Spares(r, b, k)
    BY <2>2, TurnFits, TurnSpares
  <2>5. Good(r.b, r.k) /\ r.b.can = b.can /\ Kernel(r.k)
    BY <2>4 DEF Fits, Good
  <2>6. Extends(r.k.bytes, o.k.bytes)
    <3>1. CASE b.buffered
      BY <2>2, <2>3, <2>4, <2>5, <3>1, GwritebBufExtends
    <3>2. CASE ~ b.buffered
      BY <2>2, <2>3, <2>4, <2>5, <3>2, GwritebNonExtends
    <3> QED
      BY <3>1, <3>2
  <2> HIDE DEF Part
  <2>7. Extends(k.bytes, o.k.bytes)
    BY <1>1, <2>4, <2>5, <2>6, ExtendsFurther DEF Spares, Kernel, Fits, Good
  <2> QED
    BY <1>1, <2>2, <2>7, SparesAppending DEF Fits
<1> QED
  BY <1>2, <1>3

(* Bytes stored in the buffer of a stream wait for its flush.              *)
LEMMA StoredSpares ==
  ASSUME NEW b, NEW k, Good(b, k), Preserving(b), NEW bs
  PROVE  Spares(Stored(b, k, bs), b, k)
<1> DEFINE o == Stored(b, k, bs)
<1>1. Sound(b) /\ Kernel(k)
  BY DEF Good
<1>2. o.k = k /\ o.b.can = b.can /\ o.b.mode = b.mode
  BY <1>1 DEF Stored, Outcome, Sound
<1> HIDE DEF o
<1>3. Spares(o, b, k)
  BY <1>1, <1>2, SparesSame
<1> QED
  BY <1>3 DEF o

LEMMA GwritebSpares ==
  ASSUME ~ IOErrors, NEW b, NEW k, Good(b, k), Preserving(b),
         NEW bs \in Seq(Bytes), NEW o \in Gwriteb(b, k, bs)
  PROVE  Spares(o, b, k)
<1>1. CASE b.room > Len(bs) \/ b.room < 0
  BY <1>1, StoredSpares DEF Gwriteb
<1>2. CASE ~ (b.room > Len(bs) \/ b.room < 0)
  BY <1>2, FpGwritebSpares DEF Gwriteb
<1> QED
  BY <1>1, <1>2

LEMMA GputcSpares ==
  ASSUME ~ IOErrors, NEW b, NEW k, Good(b, k), Preserving(b), NEW c \in Bytes,
         NEW o \in Gputc(b, k, c)
  PROVE  Spares(o, b, k)
<1> DEFINE bs == <<c>>
<1>1. bs \in Seq(Bytes)
  OBVIOUS
<1>2. o \in IF b.room > 1 THEN {Stored(b, k, bs)} ELSE FpGwriteb(b, k, bs)
  BY DEF Gputc
<1> HIDE DEF bs
<1>3. CASE b.room > 1
  BY <1>2, <1>3, StoredSpares
<1>4. CASE ~ (b.room > 1)
  BY <1>1, <1>2, <1>4, FpGwritebSpares
<1> QED
  BY <1>3, <1>4

LEMMA GsetposSpares ==
  ASSUME ~ IOErrors, NEW b, NEW k, Good(b, k), Preserving(b), NEW pos \in Int,
         NEW o \in Gsetpos(b, k, pos)
  PROVE  Spares(o, b, k)
<1>1. Sound(b) /\ Kernel(k) /\ Fits(o, b)
  BY GsetposFits DEF Good
<1> DEFINE Here == b.mode = "write" /\ Getpos(b) = pos
           Within == b.mode = "read" /\ pos \in b.offset .. b.offset + Len(b.data)
<1>2. CASE Here \/ Within
  <2>1. o.k = k /\ o.b.mode = b.mode
    <3>1. CASE Here
      BY <3>1 DEF Gsetpos, Outcome
    <3>2. CASE Within
      <4>1. o = Outcome([b EXCEPT !.used = pos - b.offset, !.unread = <<>>],
                        k, TRUE, 0)
        BY <3>2 DEF Gsetpos
      <4> QED
        BY <1>1, <4>1 DEF Outcome, Sound
    <3> QED
      BY <1>2, <3>1, <3>2
  <2> QED
    BY <1>1, <2>1, SparesSame DEF Fits
<1>3. CASE ~ Here /\ ~ Within
  <2>1. PICK f \in Gflush(b, k) : o = SeekTo(f, pos)
    BY <1>3 DEF Gsetpos
  <2>2. Flushed(f, b) /\ Spares(f, b, k)
    BY GflushFits, GflushSpares
  <2>3. /\ DOMAIN f = {"b", "k", "ok", "ret"} /\ f.ok
        /\ Sound(f.b) /\ Kernel(f.k)
    BY <2>2 DEF Flushed, Fits, Good
  <2>4. o.k.bytes = f.k.bytes /\ o.b.mode = f.b.mode /\ o.b.can = f.b.can
    <3>1. CASE pos < 0
      <4>1. o = [f EXCEPT !.ok = FALSE]
        BY <2>1, <2>3, <3>1 DEF SeekTo
      <4> QED
        BY <2>3, <4>1
    <3>2. CASE ~ (pos < 0)
      <4> DEFINE y == [f.b EXCEPT !.offset = pos]
                 ky == [f.k EXCEPT !.pos = pos]
      <4>1. o = [f EXCEPT !.b.offset = pos, !.k.pos = pos]
        BY <2>1, <2>3, <3>2 DEF SeekTo
      <4>2. o.b = y /\ o.k = ky
        BY <2>3, <4>1
      <4>3. y.mode = f.b.mode /\ y.can = f.b.can /\ ky.bytes = f.k.bytes
        BY <2>3 DEF Sound, Kernel
      <4> HIDE DEF y, ky
      <4> QED
        BY <4>2, <4>3
    <3> QED
      BY <3>1, <3>2
  <2> QED
    BY <2>2, <2>4 DEF Spares, Preserving
<1> QED
  BY <1>2, <1>3

LEMMA GsetvbufSpares ==
  ASSUME NEW b, NEW k, Good(b, k), Preserving(b), NEW buffered \in BOOLEAN,
         NEW o \in Gsetvbuf(b, k, buffered)
  PROVE  Spares(o, b, k)
<1>1. Sound(b) /\ Kernel(k)
  BY DEF Good
<1>2. o.k = k /\ o.b.can = b.can /\ o.b.mode = b.mode
  <2>1. CASE b.mode = "idle"
    <3>1. o = Outcome([b EXCEPT !.buffered = buffered, !.offset = k.pos],
                      k, TRUE, 0)
      BY <2>1 DEF Gsetvbuf
    <3> QED
      BY <1>1, <3>1 DEF Outcome, Sound
  <2>2. CASE b.mode # "idle"
    BY <2>2 DEF Gsetvbuf, Outcome
  <2> QED
    BY <2>1, <2>2
<1> QED
  BY <1>1, <1>2, SparesSame
=============================================================================
