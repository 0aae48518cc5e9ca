---------------------------- MODULE GioCfdProofs ----------------------------
(***************************************************************************)
(* Theorems about the descriptor cache, for any number of streams, files   *)
(* and descriptors and any values of the limits.                           *)
(***************************************************************************)
EXTENDS GioCfd, FiniteSetTheorems, TLAPS

(* The inductive invariant.  Ownership needs to know that a stream that is *)
(* off the list holds no descriptor, or gopen could be handed a GFILE that *)
(* still has one; the soft limit needs that open_max_high bounds open_max. *)
CfdInv ==
  /\ CfdTypeOK
  /\ FdOwnership
  /\ OpenOnChain
  /\ open_max <= open_max_high
  /\ SoftLimit

(* An access keeps the rank of every stream within the number of streams.  *)
LEMMA TouchType ==
  ASSUME CfdTypeOK, NEW s \in Streams
  PROVE  Touch(s) \in [Streams -> Ranks]
<1>1. Cardinality(Streams) \in Nat
  BY StreamsAssumption, FS_CardinalityType
<1> QED
  BY <1>1 DEF Touch, Ranks, CfdTypeOK

(* So does a stream that begins anew: what is below another rank can go up. *)
LEMMA UntouchedType ==
  ASSUME CfdTypeOK, NEW s \in Streams
  PROVE  Untouched(s) \in [Streams -> Ranks]
<1>1. Cardinality(Streams) \in Nat
  BY StreamsAssumption, FS_CardinalityType
<1> QED
  BY <1>1 DEF Untouched, Ranks, CfdTypeOK

(* A victim is a stream that is really open; NoStream stands for none.     *)
LEMMA VictimIsOpen ==
  ASSUME CfdTypeOK, NEW v \in Victims
  PROVE  \/ v = NoStream
         \/ v \in Streams /\ v \in Closable /\ really_open[v] /\ v # NoStream
BY StreamsAssumption DEF Victims, Oldest, Closable, CfdTypeOK

(* Closing a victim takes its descriptor, and no other, out of the kernel  *)
(* table.                                                                  *)
LEMMA TableWithoutVictim ==
  ASSUME CfdTypeOK, FdOwnership, NEW v \in Victims
  PROVE  /\ TableWithout(v) \in [Fds -> Files \cup {NoFile}]
         /\ v = NoStream => TableWithout(v) = fdfile
         /\ v # NoStream =>
              \A n \in Fds :
                TableWithout(v)[n] = IF n = fd[v] THEN NoFile ELSE fdfile[n]
<1>1. CASE v = NoStream
  BY <1>1 DEF TableWithout, CfdTypeOK
<1>2. CASE v # NoStream
  <2>1. v \in Streams /\ really_open[v]
    BY <1>2, VictimIsOpen
  <2>2. fd[v] \in Fds
    BY <2>1 DEF FdOwnership, ReallyOpen
  <2> QED
    BY <1>2, <2>1, <2>2 DEF TableWithout, CfdTypeOK
<1> QED
  BY <1>1, <1>2

-----------------------------------------------------------------------------
(* What an open, successful or not, does to the invariant.                 *)

(* A successful GIO_open keeps every descriptor with one owner.            *)
LEMMA OpenOkOwnership ==
  ASSUME CfdTypeOK, FdOwnership,
         NEW s \in Streams, NEW v, ~ really_open[s], GIO_open_ok(s, v)
  PROVE  FdOwnership'
<1> DEFINE T == TableWithout(v)
<1>1. v \in Victims
  BY DEF GIO_open_ok
<1>2. PICK n \in FreeFds(T) :
        /\ fd' = [fd EXCEPT ![s] = n]
        /\ fdfile' = [T EXCEPT ![n] = NameOf[s]]
  BY DEF GIO_open_ok
<1>3. n \in Fds /\ T[n] = NoFile
  BY DEF FreeFds
<1>4. T \in [Fds -> Files \cup {NoFile}]
  BY <1>1, TableWithoutVictim
<1>5. fd \in [Streams -> Fds \cup {-1}]
  BY DEF CfdTypeOK
<1>6. \A t \in Streams : really_open'[t] <=> t = s \/ (t # v /\ really_open[t])
  BY DEF GIO_open_ok
<1>7. fd'[s] = n /\ \A t \in Streams : t # s => fd'[t] = fd[t]
  BY <1>2, <1>5
<1>8. fdfile'[n] = NameOf[s] /\ \A m \in Fds : m # n => fdfile'[m] = T[m]
  BY <1>2, <1>3, <1>4
<1>9. ASSUME NEW t \in Streams, t # v, really_open[t]
      PROVE  fd[t] \in Fds /\ T[fd[t]] = NameOf[t] /\ fd[t] # n
  <2>1. fd[t] \in Fds /\ fdfile[fd[t]] = NameOf[t]
    BY <1>9 DEF FdOwnership, ReallyOpen
  <2>2. NameOf[t] # NoFile
    BY FilesAssumption
  <2>3. T[fd[t]] = NameOf[t]
    <3>1. CASE v = NoStream
      BY <3>1, <2>1, <1>1, TableWithoutVictim
    <3>2. CASE v # NoStream
      <4>1. v \in Streams /\ really_open[v]
        BY <1>1, <3>2, VictimIsOpen
      <4>2. fd[t] # fd[v]
        BY <4>1, <1>9 DEF FdOwnership, ReallyOpen
      <4> QED
        BY <1>1, <3>2, <4>2, <2>1, TableWithoutVictim
    <3> QED
      BY <3>1, <3>2
  <2> QED
    BY <2>1, <2>2, <2>3, <1>3
<1>10. \A t \in ReallyOpen' : fd'[t] \in Fds /\ fdfile'[fd'[t]] = NameOf[t]
  BY <1>3, <1>6, <1>7, <1>8, <1>9 DEF ReallyOpen
<1>11. \A t, u \in ReallyOpen' : fd'[t] = fd'[u] => t = u
  <2> SUFFICES ASSUME NEW t \in Streams, NEW u \in Streams,
                      really_open'[t], really_open'[u], fd'[t] = fd'[u]
               PROVE  t = u
    BY DEF ReallyOpen
  <2>1. CASE t = s \/ u = s
    BY <2>1, <1>6, <1>7, <1>9
  <2>2. CASE t # s /\ u # s
    BY <2>2, <1>6, <1>7 DEF FdOwnership, ReallyOpen
  <2> QED
    BY <2>1, <2>2
<1>12. \A m \in Fds : fdfile'[m] # NoFile => \E t \in ReallyOpen' : fd'[t] = m
  <2> SUFFICES ASSUME NEW m \in Fds, fdfile'[m] # NoFile
               PROVE  \E t \in Streams : really_open'[t] /\ fd'[t] = m
    BY DEF ReallyOpen
  <2>1. CASE m = n
    BY <2>1, <1>6, <1>7
  <2>2. CASE m # n
    <3>1. T[m] # NoFile
      BY <2>2, <1>8
    <3>2. fdfile[m] # NoFile /\ (v # NoStream => m # fd[v])
      BY <3>1, <1>1, TableWithoutVictim
    <3>3. PICK t \in Streams : really_open[t] /\ fd[t] = m
      BY <3>2 DEF FdOwnership, ReallyOpen
    <3>4. t # v
      BY <3>2, <3>3, StreamsAssumption
    <3>5. t # s
      BY <3>3
    <3> QED
      BY <3>3, <3>4, <3>5, <1>6, <1>7
  <2> QED
    BY <2>1, <2>2
<1> QED
  BY <1>10, <1>11, <1>12 DEF FdOwnership

(* So does a GIO_open that fails after it has closed its victim.           *)
LEMMA OpenFailedOwnership ==
  ASSUME CfdTypeOK, FdOwnership, NEW s \in Streams, NEW v,
         ~ really_open[s], GIO_open_failed(s, v)
  PROVE  FdOwnership'
<1>1. v \in Victims
  BY DEF GIO_open_failed
<1>2. /\ fdfile' = TableWithout(v)
      /\ \A t \in Streams : really_open'[t] <=> t # v /\ really_open[t]
  BY DEF GIO_open_failed
<1>3. ReallyOpen' = ReallyOpen \ {v}
  BY <1>2 DEF ReallyOpen
<1>6. \A t \in ReallyOpen : fd'[t] = fd[t]
  BY DEF GIO_open_failed, OpenRefused, OpenLost, ReallyOpen, CfdTypeOK
<1>4. CASE v = NoStream
  <2>1. ReallyOpen' = ReallyOpen
    BY <1>3, <1>4, StreamsAssumption DEF ReallyOpen
  <2>2. fdfile' = fdfile
    BY <1>1, <1>2, <1>4, TableWithoutVictim
  <2> QED
    BY <2>1, <2>2, <1>6 DEF FdOwnership
<1>5. CASE v # NoStream
  <2>1. v \in ReallyOpen
    BY <1>1, <1>5, VictimIsOpen DEF ReallyOpen
  <2>2. \A m \in Fds : fdfile'[m] = IF m = fd[v] THEN NoFile ELSE fdfile[m]
    BY <1>1, <1>2, <1>5, TableWithoutVictim
  <2>3. \A t \in ReallyOpen' : t # v /\ t \in ReallyOpen /\ fd[t] # fd[v]
    BY <1>3, <2>1 DEF FdOwnership
  <2> QED
    BY <2>1, <2>2, <2>3, <1>3, <1>6 DEF FdOwnership
<1> QED
  BY <1>4, <1>5

(* GIO_open, successful or not, keeps the types.                           *)
LEMMA OpenType ==
  ASSUME CfdTypeOK, FdOwnership, NEW s \in Streams, NEW v,
         \/ GIO_open_ok(s, v)
         \/ GIO_open_failed(s, v)
  PROVE  /\ fd' \in [Streams -> Fds \cup {-1}]
         /\ fdfile' \in [Fds -> Files \cup {NoFile}]
         /\ really_open' \in [Streams -> BOOLEAN]
         /\ num_fd_open' \in Int
         /\ open_max' \in Int
         /\ open_max_high' \in Int
         /\ GIO_open_ok(s, v) => last_access_count' \in [Streams -> Ranks]
<1>1. v \in Victims
  BY DEF GIO_open_ok, GIO_open_failed
<1>2. TableWithout(v) \in [Fds -> Files \cup {NoFile}]
  BY <1>1, TableWithoutVictim
<1>3. open_max' \in Int /\ open_max_high' \in Int
  BY DEF GIO_open_ok, GIO_open_failed, SetOpenMax, CfdTypeOK
<1>4. CASE GIO_open_ok(s, v)
  <2>1. PICK n \in FreeFds(TableWithout(v)) :
          /\ fd' = [fd EXCEPT ![s] = n]
          /\ fdfile' = [TableWithout(v) EXCEPT ![n] = NameOf[s]]
    BY <1>4 DEF GIO_open_ok
  <2>2. n \in Fds
    BY DEF FreeFds
  <2>3. fd' \in [Streams -> Fds \cup {-1}]
    BY <2>1, <2>2 DEF CfdTypeOK
  <2>4. fdfile' \in [Fds -> Files \cup {NoFile}]
    BY <2>1, <1>2, FilesAssumption
  <2>5. really_open' \in [Streams -> BOOLEAN]
    <3>1. \A t \in Streams : (t = s \/ (t # v /\ really_open[t])) \in BOOLEAN
      OBVIOUS
    <3> QED
      BY <1>4, <3>1 DEF GIO_open_ok
  <2>6. last_access_count' \in [Streams -> Ranks]
    BY <1>4, TouchType DEF GIO_open_ok
  <2>7. num_fd_open' \in Int
    BY <1>4 DEF GIO_open_ok, CfdTypeOK
  <2> QED
    BY <2>3, <2>4, <2>5, <2>6, <2>7, <1>3
<1>5. CASE GIO_open_failed(s, v) /\ ~ GIO_open_ok(s, v)
  <2>1. really_open' \in [Streams -> BOOLEAN]
    <3>1. \A t \in Streams : (t # v /\ really_open[t]) \in BOOLEAN
      OBVIOUS
    <3> QED
      BY <1>5, <3>1 DEF GIO_open_failed
  <2>2. num_fd_open' \in Int
    BY <1>5 DEF GIO_open_failed, CfdTypeOK
  <2>3. fd' \in [Streams -> Fds \cup {-1}]
    BY <1>5 DEF GIO_open_failed, OpenRefused, OpenLost, FreeFds, CfdTypeOK
  <2> QED
    BY <1>2, <1>3, <1>5, <2>1, <2>2, <2>3 DEF GIO_open_failed
<1> QED
  BY <1>4, <1>5

(* A successful GIO_open respects the soft limit: it counts one more       *)
(* descriptor only below the limit or when nothing could be closed.        *)
LEMMA OpenOkLimit ==
  ASSUME CfdTypeOK, open_max <= open_max_high, SoftLimit,
         NEW s \in Streams, NEW v, GIO_open_ok(s, v),
         \A t \in open_chain' : t = s \/ t \in open_chain,
         \A t \in Streams : t # s => tmp_close_ok'[t] = tmp_close_ok[t]
  PROVE  open_max' <= open_max_high' /\ SoftLimit'
<1>1. v \in Victims
  BY DEF GIO_open_ok
<1>2. \A t \in Closable' : t \in Streams => t = s \/ (t \in Closable /\ t # v)
  BY DEF Closable, GIO_open_ok
<1>3. Closable \subseteq Streams
  BY DEF Closable, CfdTypeOK
<1>4. Closable' \subseteq Streams
  BY <1>3 DEF Closable, CfdTypeOK
<1>5. open_max' <= open_max_high' /\ open_max_high <= open_max_high'
  BY DEF GIO_open_ok, SetOpenMax, CfdTypeOK
<1>6. CASE v # NoStream
  <2>1. num_fd_open' = num_fd_open
    BY <1>6 DEF GIO_open_ok
  <2>2. v \in Closable
    BY <1>1, <1>6, VictimIsOpen
  <2>3. CASE num_fd_open <= open_max_high
    BY <2>1, <2>3, <1>5 DEF SoftLimit, CfdTypeOK, GIO_open_ok, SetOpenMax
  <2>4. CASE \A t, u \in Closable : t = u
    BY <2>2, <2>4, <1>2, <1>4, <1>5 DEF SoftLimit
  <2> QED
    BY <2>3, <2>4, <1>5 DEF SoftLimit
<1>7. CASE v = NoStream
  <2>1. num_fd_open' = num_fd_open + 1
    BY <1>7 DEF GIO_open_ok
  <2>2. num_fd_open < open_max \/ Closable = {}
    BY <1>1, <1>7, VictimIsOpen, StreamsAssumption
       DEF Victims, Oldest, Closable, CfdTypeOK
  <2>3. CASE num_fd_open < open_max
    BY <2>1, <2>3, <1>5 DEF SoftLimit, CfdTypeOK, GIO_open_ok, SetOpenMax
  <2>4. CASE Closable = {}
    BY <2>4, <1>2, <1>4, <1>5 DEF SoftLimit
  <2> QED
    BY <2>2, <2>3, <2>4
<1> QED
  BY <1>6, <1>7

(* A failed one too: it closes a stream or leaves the count alone.         *)
LEMMA OpenFailedLimit ==
  ASSUME CfdTypeOK, open_max <= open_max_high, SoftLimit,
         NEW s, NEW v, GIO_open_failed(s, v),
         UNCHANGED <<open_chain, tmp_close_ok>>
  PROVE  open_max' <= open_max_high' /\ SoftLimit'
<1>1. Closable \subseteq Streams
  BY DEF Closable, CfdTypeOK
<1>2. Closable' \subseteq Closable
  BY DEF Closable, GIO_open_failed, CfdTypeOK
<1>3. open_max' <= open_max_high' /\ open_max_high <= open_max_high'
  BY DEF GIO_open_failed, SetOpenMax, CfdTypeOK
<1>4. num_fd_open' <= num_fd_open
  BY DEF GIO_open_failed, CfdTypeOK
<1>5. num_fd_open' \in Int /\ open_max_high' \in Int
  BY DEF GIO_open_failed, SetOpenMax, CfdTypeOK
<1> QED
  BY <1>2, <1>3, <1>4, <1>5 DEF SoftLimit, CfdTypeOK

-----------------------------------------------------------------------------
(* The invariant is inductive.                                             *)

LEMMA CfdInitInv == CfdInit => CfdInv
<1> SUFFICES ASSUME CfdInit PROVE CfdInv
  OBVIOUS
<1>1. CfdTypeOK
  <2>1. 0 \in Ranks
    BY StreamsAssumption, FS_CardinalityType DEF Ranks
  <2> QED
    BY <2>1, NumbersAssumption DEF CfdInit, CfdTypeOK
<1>2. ReallyOpen = {} /\ Closable = {}
  BY DEF CfdInit, ReallyOpen, Closable
<1> QED
  BY <1>1, <1>2, NumbersAssumption
     DEF CfdInit, CfdInv, FdOwnership, OpenOnChain, SoftLimit

LEMMA CfdNextInv == CfdInv /\ [CfdNext]_cfdVars => CfdInv'
<1> SUFFICES ASSUME CfdInv, [CfdNext]_cfdVars PROVE CfdInv'
  OBVIOUS
<1> USE DEF CfdInv
<1>1. ASSUME NEW s \in Streams, NEW v \in Streams \cup {NoStream},
             NEW cached \in BOOLEAN, GopenOk(s, cached, v)
      PROVE  CfdInv'
  <2>1. ~ really_open[s] /\ GIO_open_ok(s, v)
    BY <1>1 DEF GopenOk, Unused, OpenOnChain, ReallyOpen
  <2>2. CfdTypeOK'
    BY <1>1, <2>1, OpenType, NumbersAssumption DEF GopenOk, CfdTypeOK
  <2>3. FdOwnership'
    BY <2>1, OpenOkOwnership
  <2>4. open_max' <= open_max_high' /\ SoftLimit'
    BY <1>1, <2>1, OpenOkLimit DEF GopenOk, CfdTypeOK
  <2>5. OpenOnChain'
    BY <1>1, <2>1 DEF GopenOk, GIO_open_ok, OpenOnChain, ReallyOpen, CfdTypeOK
  <2> QED
    BY <2>2, <2>3, <2>4, <2>5
<1>2. ASSUME NEW s \in Streams, NEW v \in Streams \cup {NoStream},
             \/ GopenFailed(s, v)
             \/ CheckFailed(s, v)
             \/ GfilenoFailed(s, v)
      PROVE  CfdInv'
  <2>1. /\ ~ really_open[s]
        /\ GIO_open_failed(s, v)
        /\ UNCHANGED <<life, open_chain, tmp_close_ok, gdopens>>
        /\ last_access_count' = last_access_count
           \/ last_access_count' = Touch(s)
    BY <1>2 DEF GopenFailed, CheckFailed, GfilenoFailed, Unused, OpenOnChain,
                ReallyOpen
  <2>2. CfdTypeOK'
    BY <2>1, OpenType, TouchType DEF CfdTypeOK
  <2>3. FdOwnership'
    BY <2>1, OpenFailedOwnership
  <2>4. open_max' <= open_max_high' /\ SoftLimit'
    BY <2>1, OpenFailedLimit
  <2>5. OpenOnChain'
    BY <2>1 DEF GIO_open_failed, OpenOnChain, ReallyOpen, CfdTypeOK
  <2> QED
    BY <2>2, <2>3, <2>4, <2>5
<1>3. ASSUME NEW s \in Streams, NEW v \in Streams \cup {NoStream},
             CheckReopen(s, v)
      PROVE  CfdInv'
  <2>1. ~ really_open[s] /\ GIO_open_ok(s, v) /\ life[s] = "open"
    BY <1>3 DEF CheckReopen
  <2>2. CfdTypeOK'
    BY <1>3, <2>1, OpenType DEF CheckReopen, CfdTypeOK
  <2>3. FdOwnership'
    BY <2>1, OpenOkOwnership
  <2>4. open_max' <= open_max_high' /\ SoftLimit'
    BY <1>3, <2>1, OpenOkLimit DEF CheckReopen
  <2>5. OpenOnChain'
    <3>1. \A t \in ReallyOpen' : t = s \/ t \in ReallyOpen
      BY <2>1 DEF GIO_open_ok, ReallyOpen
    <3> QED
      BY <1>3, <2>1, <3>1 DEF CheckReopen, OpenOnChain
  <2> QED
    BY <2>2, <2>3, <2>4, <2>5
<1>4. ASSUME NEW s \in Streams, Gdopen(s)
      PROVE  CfdInv'
  <2>1. PICK n \in FreeFds(fdfile) :
          /\ fd' = [fd EXCEPT ![s] = n]
          /\ fdfile' = [fdfile EXCEPT ![n] = NameOf[s]]
    BY <1>4 DEF Gdopen
  <2>2. n \in Fds /\ fdfile[n] = NoFile
    BY DEF FreeFds
  <2>3. ~ really_open[s]
    BY <1>4 DEF Gdopen, Unused, OpenOnChain, ReallyOpen
  <2>4. ReallyOpen' = ReallyOpen \cup {s}
    BY <1>4 DEF Gdopen, ReallyOpen, CfdTypeOK
  <2>5. CfdTypeOK'
    <3>1. last_access_count' \in [Streams -> Ranks]
      BY <1>4, UntouchedType DEF Gdopen
    <3>2. fd' \in [Streams -> Fds \cup {-1}]
      BY <2>1, <2>2 DEF CfdTypeOK
    <3>3. fdfile' \in [Fds -> Files \cup {NoFile}]
      BY <2>1, <2>2, FilesAssumption DEF CfdTypeOK
    <3> QED
      BY <1>4, <3>1, <3>2, <3>3 DEF Gdopen, CfdTypeOK
  <2>6. FdOwnership'
    <3>1. \A t \in ReallyOpen : t # s /\ fd[t] # n /\ fd'[t] = fd[t]
      <4> TAKE t \in ReallyOpen
      <4>1. t # s /\ t \in Streams
        BY <2>3 DEF ReallyOpen
      <4>2. fdfile[fd[t]] = NameOf[t] /\ NameOf[t] # NoFile
        BY <4>1, FilesAssumption DEF FdOwnership
      <4> QED
        BY <2>1, <2>2, <4>1, <4>2 DEF CfdTypeOK
    <3>2. fd'[s] = n /\ fdfile'[n] = NameOf[s]
      BY <2>1, <2>2 DEF CfdTypeOK
    <3>3. \A m \in Fds : m # n => fdfile'[m] = fdfile[m]
      BY <2>1, <2>2 DEF CfdTypeOK
    <3> QED
      BY <2>2, <2>4, <3>1, <3>2, <3>3 DEF FdOwnership
  <2>7. SoftLimit'
    <3>1. /\ really_open' = [really_open EXCEPT ![s] = TRUE]
          /\ tmp_close_ok' = [tmp_close_ok EXCEPT ![s] = FALSE]
          /\ open_chain' = open_chain \cup {s}
      BY <1>4 DEF Gdopen
    <3>2. \A t \in Closable' : t # s /\ t \in Closable
      BY <3>1 DEF Closable, CfdTypeOK
    <3> QED
      BY <1>4, <3>2 DEF Gdopen, SoftLimit
  <2>8. OpenOnChain'
    BY <1>4 DEF Gdopen, OpenOnChain, ReallyOpen, CfdTypeOK
  <2> QED
    BY <1>4, <2>5, <2>6, <2>7, <2>8 DEF Gdopen
<1>5. ASSUME NEW s \in Streams, GcloseReal(s)
      PROVE  CfdInv'
  <2>1. fd[s] \in Fds
    BY <1>5 DEF GcloseReal, FdOwnership, ReallyOpen
  <2>2. ReallyOpen' = ReallyOpen \ {s} /\ s \in ReallyOpen
    BY <1>5 DEF GcloseReal, ReallyOpen, CfdTypeOK
  <2>3. CfdTypeOK'
    BY <1>5, <2>1 DEF GcloseReal, CfdTypeOK, histVars
  <2>4. FdOwnership'
    <3>1. fd' = fd /\ \A m \in Fds :
                        fdfile'[m] = IF m = fd[s] THEN NoFile ELSE fdfile[m]
      BY <1>5, <2>1 DEF GcloseReal, CfdTypeOK
    <3>2. \A t \in ReallyOpen' : t \in ReallyOpen /\ fd[t] # fd[s]
      BY <2>2 DEF FdOwnership
    <3> QED
      BY <2>2, <3>1, <3>2 DEF FdOwnership
  <2>5. SoftLimit'
    <3>1. Closable' \subseteq Closable
      BY <1>5 DEF GcloseReal, Closable, CfdTypeOK
    <3> QED
      BY <1>5, <3>1 DEF GcloseReal, SoftLimit, CfdTypeOK, histVars
  <2>6. OpenOnChain'
    BY <1>5, <2>2 DEF GcloseReal, OpenOnChain, ReallyOpen, CfdTypeOK
  <2> QED
    BY <1>5, <2>3, <2>4, <2>5, <2>6 DEF GcloseReal, histVars
<1>6. ASSUME NEW s \in Streams, GcloseTmp(s)
      PROVE  CfdInv'
  <2>1. ReallyOpen' = ReallyOpen /\ Closable' = Closable
    BY <1>6 DEF GcloseTmp, ReallyOpen, Closable
  <2> QED
    BY <1>6, <2>1
       DEF GcloseTmp, CfdTypeOK, FdOwnership, OpenOnChain, SoftLimit,
           ReallyOpen, rootVars, histVars
<1>7. ASSUME NEW s \in Streams, CheckReal(s)
      PROVE  CfdInv'
  <2>1. ReallyOpen' = ReallyOpen /\ Closable' = Closable
    BY <1>7 DEF CheckReal, ReallyOpen, Closable
  <2> QED
    BY <1>7, <2>1, TouchType
       DEF CheckReal, CfdTypeOK, FdOwnership, OpenOnChain, SoftLimit,
           rootVars, histVars
<1>8. CASE Gopenmax
  <2>1. /\ UNCHANGED <<streamVars, num_fd_open, fdfile, gdopens>>
        /\ open_max' \in Int /\ open_max_high' \in Int
        /\ open_max' <= open_max_high' /\ open_max_high <= open_max_high'
    BY <1>8, NumbersAssumption DEF Gopenmax, SetOpenMax, CfdTypeOK
  <2>2. ReallyOpen' = ReallyOpen /\ Closable' = Closable
    BY <2>1 DEF streamVars, ReallyOpen, Closable
  <2> QED
    BY <2>1, <2>2
       DEF streamVars, CfdTypeOK, FdOwnership, OpenOnChain, SoftLimit
<1>9. CASE UNCHANGED cfdVars
  <2>1. ReallyOpen' = ReallyOpen /\ Closable' = Closable
    BY <1>9 DEF cfdVars, streamVars, ReallyOpen, Closable
  <2> QED
    BY <1>9, <2>1
       DEF cfdVars, streamVars, rootVars, histVars, CfdTypeOK, FdOwnership,
           OpenOnChain, SoftLimit
<1> QED
  BY <1>1, <1>2, <1>3, <1>4, <1>5, <1>6, <1>7, <1>8, <1>9 DEF CfdNext

(* CfdInv holds in every reachable state.                                  *)
LEMMA CfdInvariant == CfdSpec => []CfdInv
BY CfdInitInv, CfdNextInv, PTL DEF CfdSpec

(* The variables of the descriptor cache keep their types: among them, a   *)
(* victim's descriptor is always one the kernel table has.                 *)
THEOREM CfdTypeCorrect == CfdSpec => []CfdTypeOK
<1>1. CfdInv => CfdTypeOK
  BY DEF CfdInv
<1> QED
  BY <1>1, CfdInvariant, PTL

(* GIO_open, GIO_tmp_close, gclose and gdopen never let two streams share  *)
(* a descriptor, never leave a stream with a descriptor of another file,   *)
(* and never leak one.                                                     *)
THEOREM CfdOwnership == CfdSpec => []FdOwnership
<1>1. CfdInv => FdOwnership
  BY DEF CfdInv
<1> QED
  BY <1>1, CfdInvariant, PTL

(* The soft limit on gio.num_fd_open is exceeded only while there is at    *)
(* most one stream GIO_tmp_close_one could close.                          *)
THEOREM CfdSoftLimit == CfdSpec => []SoftLimit
<1>1. CfdInv => SoftLimit
  BY DEF CfdInv
<1> QED
  BY <1>1, CfdInvariant, PTL

-----------------------------------------------------------------------------
(* The count of open descriptors.                                          *)

(* Opening s after closing v changes the number of really open streams by  *)
(* what GIO_open adds to gio.num_fd_open.                                  *)
LEMMA OpenOkCount ==
  ASSUME CfdTypeOK, FdOwnership, OpenCount,
         NEW s \in Streams, NEW v, ~ really_open[s], GIO_open_ok(s, v),
         UNCHANGED gdopens
  PROVE  OpenCount'
<1>1. v \in Victims
  BY DEF GIO_open_ok
<1>2. ReallyOpen' = (ReallyOpen \ {v}) \cup {s}
  BY DEF GIO_open_ok, ReallyOpen
<1>3. IsFiniteSet(ReallyOpen) /\ Cardinality(ReallyOpen) \in Nat
  BY StreamsAssumption, FS_Subset, FS_CardinalityType DEF ReallyOpen
<1>4. s \notin ReallyOpen
  BY DEF ReallyOpen
<1>5. CASE v = NoStream
  <2>1. v \notin ReallyOpen
    BY <1>5, StreamsAssumption DEF ReallyOpen
  <2>2. ReallyOpen' = ReallyOpen \cup {s}
    BY <1>2, <2>1
  <2>3. Cardinality(ReallyOpen') = Cardinality(ReallyOpen) + 1
    BY <2>2, <1>3, <1>4, FS_AddElement
  <2> QED
    BY <2>3, <1>3, <1>5 DEF OpenCount, GIO_open_ok, CfdTypeOK
<1>6. CASE v # NoStream
  <2>1. v \in ReallyOpen
    BY <1>1, <1>6, VictimIsOpen DEF ReallyOpen
  <2>2. /\ IsFiniteSet(ReallyOpen \ {v})
        /\ Cardinality(ReallyOpen \ {v}) = Cardinality(ReallyOpen) - 1
    BY <1>3, <2>1, FS_RemoveElement
  <2>3. Cardinality(ReallyOpen') = Cardinality(ReallyOpen \ {v}) + 1
    BY <1>2, <2>2, <1>4, FS_AddElement
  <2> QED
    BY <2>2, <2>3, <1>3, <1>6 DEF OpenCount, GIO_open_ok, CfdTypeOK
<1> QED
  BY <1>5, <1>6

(* A failed open counts out exactly the stream it has closed.              *)
LEMMA OpenFailedCount ==
  ASSUME CfdTypeOK, FdOwnership, OpenCount,
         NEW s, NEW v, GIO_open_failed(s, v), UNCHANGED gdopens
  PROVE  OpenCount'
<1>1. v \in Victims
  BY DEF GIO_open_failed
<1>2. ReallyOpen' = ReallyOpen \ {v}
  BY DEF GIO_open_failed, ReallyOpen
<1>3. IsFiniteSet(ReallyOpen) /\ Cardinality(ReallyOpen) \in Nat
  BY StreamsAssumption, FS_Subset, FS_CardinalityType DEF ReallyOpen
<1>4. CASE v = NoStream
  <2>1. ReallyOpen' = ReallyOpen
    BY <1>2, <1>4, StreamsAssumption DEF ReallyOpen
  <2> QED
    BY <2>1, <1>4 DEF OpenCount, GIO_open_failed
<1>5. CASE v # NoStream
  <2>1. v \in ReallyOpen
    BY <1>1, <1>5, VictimIsOpen DEF ReallyOpen
  <2>2. Cardinality(ReallyOpen') = Cardinality(ReallyOpen) - 1
    BY <1>2, <1>3, <2>1, FS_RemoveElement
  <2> QED
    BY <2>2, <1>3, <1>5 DEF OpenCount, GIO_open_failed, CfdTypeOK
<1> QED
  BY <1>4, <1>5

LEMMA CfdNextCount == CfdInv /\ OpenCount /\ [CfdNext]_cfdVars => OpenCount'
<1> SUFFICES ASSUME CfdInv, OpenCount, [CfdNext]_cfdVars PROVE OpenCount'
  OBVIOUS
<1> USE DEF CfdInv
<1>0. IsFiniteSet(ReallyOpen) /\ Cardinality(ReallyOpen) \in Nat
  BY StreamsAssumption, FS_Subset, FS_CardinalityType DEF ReallyOpen
<1>1. ASSUME NEW s \in Streams, NEW v \in Streams \cup {NoStream},
             \/ \E cached \in BOOLEAN : GopenOk(s, cached, v)
             \/ CheckReopen(s, v)
      PROVE  OpenCount'
  <2>1. ~ really_open[s] /\ GIO_open_ok(s, v) /\ UNCHANGED gdopens
    BY <1>1 DEF GopenOk, CheckReopen, Unused, OpenOnChain, ReallyOpen
  <2> QED
    BY <2>1, OpenOkCount
<1>2. ASSUME NEW s \in Streams, NEW v \in Streams \cup {NoStream},
             \/ GopenFailed(s, v)
             \/ CheckFailed(s, v)
             \/ GfilenoFailed(s, v)
      PROVE  OpenCount'
  <2>1. GIO_open_failed(s, v) /\ UNCHANGED gdopens
    BY <1>2 DEF GopenFailed, CheckFailed, GfilenoFailed
  <2> QED
    BY <2>1, OpenFailedCount
<1>3. ASSUME NEW s \in Streams, Gdopen(s)
      PROVE  OpenCount'
  <2>1. s \notin ReallyOpen
    BY <1>3 DEF Gdopen, Unused, OpenOnChain
  <2>2. ReallyOpen' = ReallyOpen \cup {s}
    BY <1>3 DEF Gdopen, ReallyOpen, CfdTypeOK
  <2>3. Cardinality(ReallyOpen') = Cardinality(ReallyOpen) + 1
    BY <1>0, <2>1, <2>2, FS_AddElement
  <2> QED
    BY <1>0, <1>3, <2>3 DEF Gdopen, OpenCount, CfdTypeOK
<1>4. ASSUME NEW s \in Streams, GcloseReal(s)
      PROVE  OpenCount'
  <2>1. ReallyOpen' = ReallyOpen \ {s} /\ s \in ReallyOpen
    BY <1>4 DEF GcloseReal, ReallyOpen, CfdTypeOK
  <2>2. Cardinality(ReallyOpen') = Cardinality(ReallyOpen) - 1
    BY <1>0, <2>1, FS_RemoveElement
  <2> QED
    BY <1>0, <1>4, <2>2 DEF GcloseReal, OpenCount, CfdTypeOK, histVars
<1>5. ASSUME \/ \E s \in Streams : GcloseTmp(s) \/ CheckReal(s)
             \/ Gopenmax
             \/ UNCHANGED cfdVars
      PROVE  OpenCount'
  <2>1. ReallyOpen' = ReallyOpen /\ UNCHANGED <<num_fd_open, gdopens>>
    BY <1>5 DEF GcloseTmp, CheckReal, Gopenmax, ReallyOpen, cfdVars,
                streamVars, rootVars, histVars
  <2> QED
    BY <2>1 DEF OpenCount
<1> QED
  BY <1>1, <1>2, <1>3, <1>4, <1>5 DEF CfdNext

(* gio.num_fd_open is exactly the number of really open streams less the   *)
(* number of gdopen calls; without gdopen, it is the number its comment    *)
(* promises.                                                               *)
THEOREM CfdOpenCount == CfdSpec => []OpenCount
<1>1. CfdInit => OpenCount
  <2> SUFFICES ASSUME CfdInit PROVE OpenCount
    OBVIOUS
  <2>1. ReallyOpen = {}
    BY DEF CfdInit, ReallyOpen
  <2> QED
    BY <2>1, FS_EmptySet DEF CfdInit, OpenCount
<1> QED
  BY <1>1, CfdNextCount, CfdInvariant, PTL DEF CfdSpec

(* What may be closed to free a descriptor is found: every stream that the *)
(* code counts as open is on gio.open_chain.                               *)
THEOREM CfdOpenChain == CfdSpec => []OpenOnChain
  BY CfdInvariant, PTL DEF CfdInv

-----------------------------------------------------------------------------
(* What is closed for another stream.                                      *)

(* Whoever asks for a victim counts at least open_max streams, or finds no *)
(* descriptor left; what is counted is no more than what is open, as every *)
(* gdopen makes the count too low.                                         *)
LEMMA VictimNeeded ==
  ASSUME CfdTypeOK, OpenCount, NEW v \in Victims, v # NoStream
  PROVE  Cardinality(ReallyOpen) >= open_max \/ FreeFds(fdfile) = {}
<1>1. Cardinality(ReallyOpen) \in Nat
  BY StreamsAssumption, FS_Subset, FS_CardinalityType DEF ReallyOpen
<1>2. num_fd_open >= open_max \/ FreeFds(fdfile) = {}
  BY DEF Victims
<1>3. gdopens \in Nat /\ num_fd_open \in Int /\ open_max \in Int
  BY DEF CfdTypeOK
<1> DEFINE n == Cardinality(ReallyOpen)
<1>4. n \in Nat /\ num_fd_open = n - gdopens
  BY <1>1 DEF OpenCount
<1> HIDE DEF n
<1>5. num_fd_open >= open_max => n >= open_max
  BY <1>3, <1>4
<1> QED
  BY <1>2, <1>5 DEF n

(* What the property says of one step.                                     *)
NeedStep ==
  \A t \in Streams :
    really_open[t] /\ ~ really_open'[t] /\ life'[t] = "open"
      => Cardinality(ReallyOpen) >= open_max \/ FreeFds(fdfile) = {}

LEMMA CfdNextNeed == CfdInv /\ OpenCount /\ [CfdNext]_cfdVars => NeedStep
<1> SUFFICES ASSUME CfdInv, OpenCount, [CfdNext]_cfdVars,
                    NEW t \in Streams,
                    really_open[t], ~ really_open'[t], life'[t] = "open"
             PROVE  Cardinality(ReallyOpen) >= open_max \/ FreeFds(fdfile) = {}
  BY DEF NeedStep
<1> USE DEF CfdInv
<1>1. ASSUME NEW v \in Victims, t = v
      PROVE  Cardinality(ReallyOpen) >= open_max \/ FreeFds(fdfile) = {}
  <2>1. v # NoStream
    BY <1>1, StreamsAssumption
  <2> QED
    BY <1>1, <2>1, VictimNeeded
<1>2. ASSUME NEW s \in Streams, NEW v \in Streams \cup {NoStream},
             GIO_open_ok(s, v) \/ GIO_open_failed(s, v)
      PROVE  Cardinality(ReallyOpen) >= open_max \/ FreeFds(fdfile) = {}
  <2>1. v \in Victims /\ t = v
    BY <1>2 DEF GIO_open_ok, GIO_open_failed
  <2> QED
    BY <1>1, <2>1
<1>3. ASSUME NEW s \in Streams,
             Gdopen(s) \/ GcloseReal(s) \/ GcloseTmp(s) \/ CheckReal(s)
      PROVE  FALSE
  BY <1>3 DEF Gdopen, GcloseReal, GcloseTmp, CheckReal, CfdTypeOK
<1>4. CASE Gopenmax \/ UNCHANGED cfdVars
  BY <1>4 DEF Gopenmax, cfdVars, streamVars
<1> QED
  BY <1>2, <1>3, <1>4
     DEF CfdNext, GopenOk, GopenFailed, CheckReopen, CheckFailed, GfilenoFailed

(* No stream is closed behind the application while, really, fewer than    *)
(* open_max have a descriptor and the kernel has one left, whatever opens  *)
(* have failed and whatever descriptors have been adopted before.          *)
THEOREM CfdClosedForNeed == CfdSpec => ClosedForNeed
<1>1. CfdInv /\ OpenCount /\ [CfdNext]_cfdVars => [NeedStep]_cfdVars
  BY CfdNextNeed
<1> QED
  BY <1>1, CfdInvariant, CfdOpenCount, PTL DEF CfdSpec, ClosedForNeed, NeedStep
=============================================================================
