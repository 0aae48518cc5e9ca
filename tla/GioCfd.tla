------------------------------- MODULE GioCfd -------------------------------
(***************************************************************************)
(* The cached file descriptors (cfd) of libgio: any number of logically    *)
(* open GFILE streams share the few descriptors that gio.open_max allows.  *)
(* A stream opened with the mode prefix "c" on a regular file may lose its *)
(* descriptor at the open of another one (GIO_tmp_close) and gets a new    *)
(* one at its next access (GIO_cfd_check, GIO_open).                       *)
(*                                                                         *)
(* The module models descriptors only; GioStreams adds positions, buffers  *)
(* and file contents to the same actions.                                  *)
(*                                                                         *)
(* Abstractions: gio.open_chain is the set of streams on the list (its     *)
(* links are in GioChain); last_access_count keeps the order of the serial *)
(* numbers taken from gio.access_age, not their values; a GFILE freed or   *)
(* left on closed_chain and a new GFILE may have the same name in Streams. *)
(***************************************************************************)
EXTENDS Integers, FiniteSets

CONSTANTS
  Streams,      \* GFILE structures
  NoStream,     \* the null GFILE pointer
  Files,        \* files of the file system
  NoFile,       \* marks a descriptor that is not open in the kernel
  NameOf,       \* NameOf[s]: the file stream s is opened on
  Regular,      \* the regular files among Files (S_ISREG)
  Fds,          \* descriptors the kernel grants to the process
  InitOpenMax,  \* gio.init_open_max
  OpenMaxArgs,  \* arguments of gopenmax(GIO_OPEN_MAX_SET), bounds open_max
  MaxGdopen,    \* bound on the calls of gdopen
  OpenMayFail   \* TRUE: the kernel may refuse an open (ENOENT, EACCES, ...)

ASSUME StreamsAssumption == IsFiniteSet(Streams) /\ NoStream \notin Streams
ASSUME FilesAssumption ==
  /\ NoFile \notin Files
  /\ NameOf \in [Streams -> Files]
  /\ Regular \subseteq Files
ASSUME NumbersAssumption ==
  /\ Fds \subseteq Nat
  /\ InitOpenMax \in Nat
  /\ OpenMaxArgs \subseteq Nat
  /\ MaxGdopen \in Nat
  /\ OpenMayFail \in BOOLEAN

VARIABLES
  life,               \* "free", "open", or "closed" (GIO_STATE_CLOSED)
  open_chain,         \* streams linked from gio.open_chain
  really_open,        \* cfd.really_open
  tmp_close_ok,       \* cfd.tmp_close_ok
  fd,                 \* GFILE.fd, not reset when the descriptor is closed
  last_access_count,  \* cfd.last_access_count, order only; 0: never accessed
  num_fd_open,        \* gio.num_fd_open
  open_max,           \* gio.open_max
  fdfile,             \* kernel: the file each descriptor is open on
  gdopens,            \* history: calls of gdopen that succeeded
  open_max_high       \* history: the largest value open_max has had

streamVars == <<life, open_chain, really_open, tmp_close_ok, fd,
                last_access_count>>
rootVars == <<num_fd_open, open_max>>
histVars == <<gdopens, open_max_high>>
cfdVars == <<streamVars, rootVars, fdfile, histVars>>

Ranks == 0 .. Cardinality(Streams)

CfdTypeOK ==
  /\ life \in [Streams -> {"free", "open", "closed"}]
  /\ open_chain \subseteq Streams
  /\ really_open \in [Streams -> BOOLEAN]
  /\ tmp_close_ok \in [Streams -> BOOLEAN]
  /\ fd \in [Streams -> Fds \cup {-1}]
  /\ last_access_count \in [Streams -> Ranks]
  /\ num_fd_open \in Int
  /\ open_max \in Int
  /\ fdfile \in [Fds -> Files \cup {NoFile}]
  /\ gdopens \in Nat
  /\ open_max_high \in Int

CfdInit ==
  /\ life = [s \in Streams |-> "free"]
  /\ open_chain = {}
  /\ really_open = [s \in Streams |-> FALSE]
  /\ tmp_close_ok = [s \in Streams |-> FALSE]
  /\ fd = [s \in Streams |-> -1]
  /\ last_access_count = [s \in Streams |-> 0]
  /\ num_fd_open = 0
  /\ open_max = InitOpenMax
  /\ fdfile = [n \in Fds |-> NoFile]
  /\ gdopens = 0
  /\ open_max_high = InitOpenMax

-----------------------------------------------------------------------------
(* Descriptors: choosing a victim, closing it, opening a descriptor.       *)

(* cfd.last_access_count = gio.access_age++: s becomes the latest.         *)
Touch(s) ==
  [t \in Streams |->
     IF t = s THEN Cardinality(Streams)
     ELSE IF last_access_count[t] > last_access_count[s]
          THEN last_access_count[t] - 1
          ELSE last_access_count[t]]

(* GIO_cfd_init: s has never been accessed; the ranks close up.            *)
Untouched(s) ==
  [t \in Streams |->
     IF t = s THEN 0
     ELSE IF last_access_count[t] # 0
             /\ last_access_count[t] < last_access_count[s]
          THEN last_access_count[t] + 1
          ELSE last_access_count[t]]

FreeFds(table) == {n \in Fds : table[n] = NoFile}

(* The streams GIO_tmp_close_one may close, and the one it picks.          *)
Closable == {t \in open_chain : really_open[t] /\ tmp_close_ok[t]}

Oldest ==
  {v \in Closable :
     \A t \in Closable : last_access_count[v] <= last_access_count[t]}

(* Mutant of Victims: the limit is tested with > for >=.                   *)
VictimsLate ==
  IF (num_fd_open > open_max \/ FreeFds(fdfile) = {}) /\ Closable # {}
  THEN Oldest
  ELSE {NoStream}

(* GIO_open closes one stream when the limit is reached or, at EMFILE,     *)
(* when the kernel has no descriptor left; NoStream: nothing is closed.    *)
Victims ==
  IF (num_fd_open >= open_max \/ FreeFds(fdfile) = {}) /\ Closable # {}
  THEN Oldest
  ELSE {NoStream}

(* open() fails with EMFILE unless the limit has just freed a descriptor.  *)
Emfile ==
  /\ FreeFds(fdfile) = {}
  /\ num_fd_open < open_max \/ Closable = {}

(* Mutant of TableWithout: GIO_tmp_close forgets close(fp->fd).            *)
TableKept(v) == fdfile

(* The kernel table after GIO_tmp_close(v).                                *)
TableWithout(v) ==
  IF v = NoStream THEN fdfile ELSE [fdfile EXCEPT ![fd[v]] = NoFile]

SetOpenMax(n) ==
  /\ open_max' = n
  /\ open_max_high' = IF n > open_max_high THEN n ELSE open_max_high

(* GIO_open(s), v the stream closed on the way: success takes the lowest   *)
(* free descriptor.                                                        *)
GIO_open_ok(s, v) ==
  /\ v \in Victims
  /\ \E n \in FreeFds(TableWithout(v)) :
       /\ \A m \in FreeFds(TableWithout(v)) : n <= m
       /\ fd' = [fd EXCEPT ![s] = n]
       /\ fdfile' = [TableWithout(v) EXCEPT ![n] = NameOf[s]]
  /\ really_open' =
       [t \in Streams |-> t = s \/ (t # v /\ really_open[t])]
  /\ num_fd_open' = IF v = NoStream THEN num_fd_open + 1 ELSE num_fd_open
  /\ SetOpenMax(IF Emfile THEN num_fd_open ELSE open_max)
  /\ last_access_count' = Touch(s)

(* GIO_open(s) returns -1, after v has been closed: because the kernel     *)
(* opened nothing, or because the new descriptor could not be moved to the *)
(* stream's offset and was closed again.                                   *)
OpenRefused(v) ==
  /\ FreeFds(TableWithout(v)) = {} \/ OpenMayFail
  /\ fd' = fd

OpenLost(s, v) ==
  \E n \in FreeFds(TableWithout(v)) :
    /\ \A m \in FreeFds(TableWithout(v)) : n <= m
    /\ fd' = [fd EXCEPT ![s] = n]

(* Mutant of GIO_open_failed: the victim is still counted when the open    *)
(* that it was closed for fails.                                           *)
GIO_open_failed_miscounted(s, v) ==
  /\ v \in Victims
  /\ OpenRefused(v) \/ OpenLost(s, v)
  /\ fdfile' = TableWithout(v)
  /\ really_open' = [t \in Streams |-> t # v /\ really_open[t]]
  /\ num_fd_open' = num_fd_open
  /\ SetOpenMax(IF Emfile THEN num_fd_open ELSE open_max)

GIO_open_failed(s, v) ==
  /\ v \in Victims
  /\ OpenRefused(v) \/ OpenLost(s, v)
  /\ fdfile' = TableWithout(v)
  /\ really_open' = [t \in Streams |-> t # v /\ really_open[t]]
  /\ num_fd_open' = IF v = NoStream THEN num_fd_open ELSE num_fd_open - 1
  /\ SetOpenMax(IF Emfile THEN num_fd_open ELSE open_max)

-----------------------------------------------------------------------------
(* The operations of the library, as far as descriptors are concerned.     *)

(* A GFILE the caller does not hold: malloc may hand it out.               *)
Unused(s) == life[s] \in {"free", "closed"} /\ s \notin open_chain

(* Mutant of GopenOk: the new stream is not linked to gio.open_chain.      *)
GopenOkUnlinked(s, cached, v) ==
  /\ Unused(s)
  /\ GIO_open_ok(s, v)
  /\ life' = [life EXCEPT ![s] = "open"]
  /\ tmp_close_ok' =
       [tmp_close_ok EXCEPT ![s] = cached /\ NameOf[s] \in Regular]
  /\ UNCHANGED <<open_chain, gdopens>>

GopenOk(s, cached, v) ==
  /\ Unused(s)
  /\ GIO_open_ok(s, v)
  /\ life' = [life EXCEPT ![s] = "open"]
  /\ tmp_close_ok' =
       [tmp_close_ok EXCEPT ![s] = cached /\ NameOf[s] \in Regular]
  /\ open_chain' = open_chain \cup {s}
  /\ UNCHANGED gdopens

GopenFailed(s, v) ==
  /\ Unused(s)
  /\ GIO_open_failed(s, v)
  /\ UNCHANGED <<life, tmp_close_ok, open_chain, last_access_count, gdopens>>

(* The application opens a descriptor of its own and gives it to gdopen.   *)
Gdopen(s) ==
  /\ Unused(s)
  /\ gdopens < MaxGdopen
  /\ \E n \in FreeFds(fdfile) :
       /\ \A m \in FreeFds(fdfile) : n <= m
       /\ fd' = [fd EXCEPT ![s] = n]
       /\ fdfile' = [fdfile EXCEPT ![n] = NameOf[s]]
  /\ life' = [life EXCEPT ![s] = "open"]
  /\ really_open' = [really_open EXCEPT ![s] = TRUE]
  /\ tmp_close_ok' = [tmp_close_ok EXCEPT ![s] = FALSE]
  /\ open_chain' = open_chain \cup {s}
  /\ last_access_count' = Untouched(s)
  /\ gdopens' = gdopens + 1
  /\ UNCHANGED <<num_fd_open, open_max, open_max_high>>

(* gclose of a stream that has its descriptor.                             *)
GcloseReal(s) ==
  /\ life[s] = "open"
  /\ really_open[s]
  /\ life' = [life EXCEPT ![s] = "closed"]
  /\ really_open' = [really_open EXCEPT ![s] = FALSE]
  /\ fdfile' = [fdfile EXCEPT ![fd[s]] = NoFile]
  /\ num_fd_open' = num_fd_open - 1
  /\ open_chain' = open_chain \ {s}
  /\ UNCHANGED <<tmp_close_ok, fd, last_access_count, open_max, histVars>>

(* gclose of a temporarily closed stream returns before it is unlinked.    *)
GcloseTmp(s) ==
  /\ life[s] = "open"
  /\ ~ really_open[s]
  /\ life' = [life EXCEPT ![s] = "closed"]
  /\ UNCHANGED <<open_chain, really_open, tmp_close_ok, fd,
                 last_access_count, rootVars, fdfile, histVars>>

(* GIO_cfd_check, the entry of every checked call: the descriptor is there *)
CheckReal(s) ==
  /\ life[s] = "open"
  /\ really_open[s]
  /\ last_access_count' = Touch(s)
  /\ UNCHANGED <<life, open_chain, really_open, tmp_close_ok, fd,
                 rootVars, fdfile, histVars>>

(* or it is opened again, *)
CheckReopen(s, v) ==
  /\ life[s] = "open"
  /\ ~ really_open[s]
  /\ GIO_open_ok(s, v)
  /\ UNCHANGED <<life, open_chain, tmp_close_ok, gdopens>>

(* or that fails, and the call returns an error.                           *)
CheckFailed(s, v) ==
  /\ life[s] = "open"
  /\ ~ really_open[s]
  /\ GIO_open_failed(s, v)
  /\ last_access_count' = Touch(s)
  /\ UNCHANGED <<life, open_chain, tmp_close_ok, gdopens>>

(* gfileno opens the descriptor but is no access when it is there.         *)
GfilenoFailed(s, v) ==
  /\ life[s] = "open"
  /\ ~ really_open[s]
  /\ GIO_open_failed(s, v)
  /\ \/ OpenRefused(v) /\ UNCHANGED last_access_count
     \/ OpenLost(s, v) /\ last_access_count' = Touch(s)
  /\ UNCHANGED <<life, open_chain, tmp_close_ok, gdopens>>

(* gopenmax: SET to n, INCR by one or minus one, RESET.                    *)
Gopenmax ==
  /\ \E n \in OpenMaxArgs \cup {open_max + 1, open_max - 1, InitOpenMax} :
       /\ n >= 0
       /\ \E m \in OpenMaxArgs \cup {InitOpenMax} : n <= m
       /\ SetOpenMax(n)
  /\ UNCHANGED <<streamVars, num_fd_open, fdfile, gdopens>>

CfdNext ==
  \/ \E s \in Streams, v \in Streams \cup {NoStream} :
       \/ \E cached \in BOOLEAN : GopenOk(s, cached, v)
       \/ GopenFailed(s, v)
       \/ CheckReopen(s, v)
       \/ CheckFailed(s, v)
       \/ GfilenoFailed(s, v)
  \/ \E s \in Streams :
       \/ Gdopen(s)
       \/ GcloseReal(s)
       \/ GcloseTmp(s)
       \/ CheckReal(s)
  \/ Gopenmax

CfdSpec == CfdInit /\ [][CfdNext]_cfdVars

-----------------------------------------------------------------------------
(* Properties                                                              *)

ReallyOpen == {s \in Streams : really_open[s]}

(* A stream that is really open holds a descriptor that the kernel has     *)
(* open on the stream's own file, no two streams hold the same one, and    *)
(* the kernel has no descriptor open that no stream holds: GIO_open and    *)
(* GIO_tmp_close neither lend a descriptor twice nor leak one.             *)
FdOwnership ==
  /\ \A s \in ReallyOpen : fd[s] \in Fds /\ fdfile[fd[s]] = NameOf[s]
  /\ \A s, t \in ReallyOpen : fd[s] = fd[t] => s = t
  /\ \A n \in Fds : fdfile[n] # NoFile => \E s \in ReallyOpen : fd[s] = n

(* gio.num_fd_open counts the really open streams, less one for every call *)
(* of gdopen: gdopen does not count the descriptor it adopts, but GIO_close *)
(* counts it out.                                                          *)
OpenCount == num_fd_open = Cardinality(ReallyOpen) - gdopens

(* The soft limit: more descriptors than open_max ever allowed are counted *)
(* only while at most one stream could be closed to give one back.         *)
SoftLimit ==
  num_fd_open <= open_max_high \/ \A s, t \in Closable : s = t

(* Only streams the caller has not closed hold a descriptor, and each of   *)
(* them can be found by gclose and by GIO_tmp_close_one.                   *)
OpenOnChain ==
  /\ \A s \in ReallyOpen : life[s] = "open"
  /\ \A s \in Streams : life[s] = "open" => s \in open_chain

(* A stream loses its descriptor behind the application only when really   *)
(* as many streams as the limit allows have one, or the kernel has none    *)
(* left.  GIO_open decides by gio.num_fd_open, which must not have run     *)
(* ahead of the truth in any open that failed or any close before.         *)
ClosedForNeed ==
  [][\A t \in Streams :
       really_open[t] /\ ~ really_open'[t] /\ life'[t] = "open"
         => Cardinality(ReallyOpen) >= open_max \/ FreeFds(fdfile) = {}]_cfdVars

=============================================================================
