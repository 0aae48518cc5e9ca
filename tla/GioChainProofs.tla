--------------------------- MODULE GioChainProofs ---------------------------
(***************************************************************************)
(* greopen of a stream that gclose takes off the list is a gclose and a    *)
(* gopen: GioChain implements GioCfd, and what is proved there holds with  *)
(* greopen as well.  Then, that the links are a list of the streams that   *)
(* GioCfd has in open_chain: the invariant names the sequence of them.     *)
(***************************************************************************)
EXTENDS GioChain, GioCfdProofs, WellFoundedInduction

(* Between its gclose and its GIO_open, greopen holds a stream that is     *)
(* closed and on no list.                                                  *)
ReopenInv ==
  reopening # NoStream
    => reopening \in Streams /\ life[reopening] = "closed"
       /\ reopening \notin open_chain

LEMMA ReopenInitInv == ChainInit => ReopenInv
BY DEF ChainInit, ReopenInv

(* A stream that gclose has dealt with is closed.                          *)
LEMMA GcloseStep ==
  ASSUME CfdTypeOK, NEW s \in Streams, GcloseLinked(s)
  PROVE  CfdNext /\ life'[s] = "closed"
BY DEF GcloseLinked, GcloseReal, GcloseTmp, CfdNext, CfdTypeOK

LEMMA CallStep ==
  ASSUME CfdTypeOK, CfdCall
  PROVE  CfdNext
<1>1. ASSUME NEW s \in Streams, NEW v \in Streams \cup {NoStream},
             NEW cached \in BOOLEAN, GopenOk(s, cached, v)
      PROVE  CfdNext
  BY <1>1 DEF CfdNext
<1>2. ASSUME NEW s \in Streams, NEW v \in Streams \cup {NoStream},
             \/ GopenFailed(s, v) \/ CheckReopen(s, v)
             \/ CheckFailed(s, v) \/ GfilenoFailed(s, v)
      PROVE  CfdNext
  BY <1>2 DEF CfdNext
<1>3. ASSUME NEW s \in Streams, Gdopen(s) \/ CheckReal(s)
      PROVE  CfdNext
  BY <1>3 DEF CfdNext
<1>4. ASSUME Gopenmax
      PROVE  CfdNext
  BY <1>4 DEF CfdNext
<1> QED
  BY <1>1, <1>2, <1>3, <1>4, GcloseStep DEF CfdCall

(* Every step is a step of GioCfd or leaves the descriptors alone.         *)
LEMMA ChainStep ==
  ASSUME ~ GreopenAny, CfdTypeOK, ReopenInv, [ChainNext]_chainVars
  PROVE  [CfdNext]_cfdVars /\ ReopenInv'
<1>1. ASSUME NEW s \in Streams, NEW v \in Streams \cup {NoStream},
             NEW cached \in BOOLEAN, GreopenOk(s, cached, v)
      PROVE  CfdNext /\ ReopenInv'
  <2>1. Unused(s)
    BY <1>1, StreamsAssumption DEF GreopenOk, ReopenInv, Unused
  <2>2. GopenOk(s, cached, v)
    BY <1>1, <2>1 DEF GreopenOk, GopenOk
  <2> QED
    BY <1>1, <2>2 DEF CfdNext, GreopenOk, ReopenInv
<1>2. ASSUME NEW s \in Streams, NEW v \in Streams \cup {NoStream},
             GreopenFailed(s, v)
      PROVE  CfdNext /\ ReopenInv'
  <2>1. Unused(s)
    BY <1>2, StreamsAssumption DEF GreopenFailed, ReopenInv, Unused
  <2>2. GopenFailed(s, v)
    BY <1>2, <2>1 DEF GreopenFailed, GopenFailed
  <2> QED
    BY <1>2, <2>2 DEF CfdNext, GreopenFailed, ReopenInv
<1>3. ASSUME NEW s \in Streams, GreopenClose(s)
      PROVE  [CfdNext]_cfdVars /\ ReopenInv'
  <2>1. s \notin open_chain' /\ reopening' = s
    BY <1>3 DEF GreopenClose
  <2>2. CASE GcloseLinked(s)
    BY <2>1, <2>2, GcloseStep DEF ReopenInv
  <2>3. CASE life[s] = "closed" /\ UNCHANGED cfdVars
    BY <2>1, <2>3 DEF ReopenInv, cfdVars, streamVars
  <2> QED
    BY <1>3, <2>2, <2>3 DEF GreopenClose
<1>4. CASE CfdCall /\ reopening = NoStream /\ UNCHANGED reopening
  BY <1>4, CallStep DEF ReopenInv
<1>5. CASE FlushAll \/ FlushStep \/ UNCHANGED chainVars
  <2>1. UNCHANGED <<cfdVars, reopening>>
    BY <1>5 DEF FlushAll, FlushStep, chainVars
  <2> QED
    BY <2>1 DEF ReopenInv, cfdVars, streamVars
<1> QED
  BY <1>1, <1>2, <1>3, <1>4, <1>5 DEF ChainNext

(* As long as greopen is given no stream that is temporarily closed, the   *)
(* links, the walks and greopen itself use descriptors as GioCfd says.     *)
THEOREM ChainImplementsCfd ==
  ASSUME ~ GreopenAny
  PROVE  ChainSpec => CfdSpec
<1> DEFINE Inv == CfdInv /\ ReopenInv
<1>1. ChainInit => CfdInit /\ Inv
  BY ReopenInitInv, CfdInitInv DEF ChainInit
<1>2. Inv /\ [ChainNext]_chainVars => [CfdNext]_cfdVars /\ Inv'
  BY ChainStep, CfdNextInv DEF CfdInv
<1> QED
  BY <1>1, <1>2, PTL DEF ChainSpec, CfdSpec

(* With greopen, too, no descriptor is lent twice or leaked.               *)
THEOREM ChainOwnership ==
  ASSUME ~ GreopenAny
  PROVE  ChainSpec => []FdOwnership
BY ChainImplementsCfd, CfdOwnership, PTL

-----------------------------------------------------------------------------
(* The links                                                               *)

(* Of the numbers with a property there is a least one.                    *)
LEMMA LeastNumber ==
  ASSUME NEW T \in SUBSET Nat, T # {}
  PROVE  \E m \in T : \A k \in T : m <= k
<1> DEFINE R == OpToRel(<, Nat)
<1>1. IsWellFoundedOn(R, Nat)
  BY NatLessThanWellFounded
<1>2. \A x, y \in Nat : <<y, x>> \in R <=> y < x
  BY DEF OpToRel
<1> HIDE DEF R
<1>3. PICK m \in T : \A k \in T : ~ (<<k, m>> \in R)
  BY <1>1, WFMin
<1>4. \A k \in T : ~ (k < m)
  BY <1>2, <1>3
<1> QED
  BY <1>4

(* The streams on the list, one after the other.                           *)
Along(n, p) ==
  /\ \A i, j \in 1 .. n : p[i] = p[j] => i = j
  /\ open_chain = {p[i] : i \in 1 .. n}
  /\ head = IF n = 0 THEN NoStream ELSE p[1]
  /\ \A i \in 1 .. n : chain[p[i]] = IF i = n THEN NoStream ELSE p[i + 1]

Chained ==
  /\ chain \in [Streams -> Streams \cup {NoStream}]
  /\ \E n \in Nat : \E p \in [1 .. n -> Streams] : Along(n, p)

(* What a walk from node to node is.                                       *)
Walks(node) ==
  node = [i \in 1 .. Cardinality(Streams) + 1 |->
            IF i = 1 THEN head
            ELSE IF node[i - 1] = NoStream THEN NoStream
            ELSE chain[node[i - 1]]]

(* A recursive function is one that satisfies its equation, if any does.   *)
LEMMA NodeWalks ==
  ASSUME NEW node, Walks(node)
  PROVE  Walks(Node)
BY DEF Node, Walks

(* Two walks along the same links are the same: there is no first node at  *)
(* which they differ.                                                      *)
LEMMA OneWalk ==
  ASSUME NEW f, NEW g, Walks(f), Walks(g)
  PROVE  f = g
<1> DEFINE last == Cardinality(Streams) + 1
           T == {i \in 1 .. last : f[i] # g[i]}
<1>1. last \in Nat
  BY StreamsAssumption, FS_CardinalityType
<1> HIDE DEF last
<1>2. /\ DOMAIN f = 1 .. last /\ DOMAIN g = 1 .. last
      /\ f = [i \in DOMAIN f |-> f[i]] /\ g = [i \in DOMAIN g |-> g[i]]
  BY DEF Walks, last
<1>3. \A i \in 1 .. last :
        /\ f[i] = IF i = 1 THEN head
                  ELSE IF f[i - 1] = NoStream THEN NoStream
                  ELSE chain[f[i - 1]]
        /\ g[i] = IF i = 1 THEN head
                  ELSE IF g[i - 1] = NoStream THEN NoStream
                  ELSE chain[g[i - 1]]
  BY DEF Walks, last
<1>4. T = {}
  <2> SUFFICES ASSUME T # {} PROVE FALSE
    OBVIOUS
  <2>1. T \in SUBSET Nat
    OBVIOUS
  <2>2. PICK m \in T : \A k \in T : m <= k
    BY <2>1, LeastNumber
  <2>3. m \in 1 .. last /\ f[m] # g[m] /\ m # 1
    BY <1>3
  <2>4. m - 1 \in 1 .. last /\ m - 1 \notin T
    BY <1>1, <2>2, <2>3
  <2>5. f[m - 1] = g[m - 1]
    BY <2>4
  <2> QED
    BY <1>3, <2>3, <2>5
<1> QED
  BY <1>2, <1>4

(* A sequence of distinct streams is walked to its end, which comes before *)
(* there are more nodes than streams.                                      *)
LEMMA WalkAlong ==
  ASSUME NEW n \in Nat, NEW p \in [1 .. n -> Streams], Along(n, p)
  PROVE  LinksMatch
<1> DEFINE size == Cardinality(Streams)
           last == size + 1
           g == [i \in 1 .. last |-> IF i <= n THEN p[i] ELSE NoStream]
<1>1. size \in Nat
  BY StreamsAssumption, FS_CardinalityType
<1>2. n <= size
  <2>1. IsFiniteSet(1 .. n) /\ Cardinality(1 .. n) = n
    BY FS_Interval
  <2>2. p \in Injection(1 .. n, Streams)
    BY DEF Along, Injection, IsInjective
  <2> QED
    BY <2>1, <2>2, StreamsAssumption, FS_Injection
<1>3. \A i \in 1 .. last : g[i] = IF i <= n THEN p[i] ELSE NoStream
  OBVIOUS
<1>4. Walks(g)
  <2> SUFFICES ASSUME NEW i \in 1 .. last
               PROVE  g[i] = IF i = 1 THEN head
                             ELSE IF g[i - 1] = NoStream THEN NoStream
                             ELSE chain[g[i - 1]]
    BY DEF Walks
  <2> HIDE DEF g
  <2>1. CASE i = 1
    BY <1>1, <1>3, <2>1 DEF Along
  <2>2. CASE i # 1
    <3>1. i - 1 \in 1 .. last
      BY <1>1, <2>2
    <3>2. CASE i - 1 <= n
      <4>1. i - 1 \in 1 .. n /\ g[i - 1] = p[i - 1] /\ p[i - 1] \in Streams
        BY <1>1, <1>3, <3>1, <3>2
      <4>2. g[i - 1] # NoStream
        BY <4>1, StreamsAssumption
      <4>3. chain[g[i - 1]] = IF i - 1 = n THEN NoStream ELSE p[i]
        BY <4>1 DEF Along
      <4> QED
        BY <1>1, <1>3, <2>2, <3>2, <4>2, <4>3
    <3>3. CASE ~ (i - 1 <= n)
      BY <1>1, <1>3, <2>2, <3>1, <3>3
    <3> QED
      BY <3>2, <3>3
  <2> QED
    BY <2>1, <2>2
<1> HIDE DEF g
<1>5. Node = g
  BY <1>4, NodeWalks, OneWalk
<1>6. DOMAIN g = 1 .. last
  BY DEF g
<1>7. Node[last] = NoStream
  BY <1>1, <1>2, <1>3, <1>5
<1>8. Linked = open_chain
  <2>1. Linked = {g[i] : i \in 1 .. last} \ {NoStream}
    BY <1>5, <1>6 DEF Linked
  <2>2. \A i \in 1 .. n : i \in 1 .. last /\ g[i] = p[i] /\ p[i] # NoStream
    <3>1. \A i \in 1 .. n : i \in 1 .. last /\ p[i] \in Streams
      BY <1>1, <1>2
    <3> QED
      BY <1>3, <3>1, StreamsAssumption
  <2>3. \A i \in 1 .. last : g[i] # NoStream => i \in 1 .. n
    BY <1>1, <1>3
  <2>4. open_chain = {p[i] : i \in 1 .. n}
    BY DEF Along
  <2> QED
    BY <2>1, <2>2, <2>3, <2>4
<1> QED
  BY <1>7, <1>8 DEF LinksMatch

(* GIO_chain puts a stream before the others.                              *)
LEMMA LinkKeeps ==
  ASSUME NEW s \in Streams, Chained, s \notin open_chain, GIO_chain(s),
         open_chain' = open_chain \cup {s}
  PROVE  Chained'
<1>1. PICK n \in Nat : \E p \in [1 .. n -> Streams] : Along(n, p)
  BY DEF Chained
<1>2. PICK p \in [1 .. n -> Streams] : Along(n, p)
  BY <1>1
<1> DEFINE q == [i \in 1 .. n + 1 |-> IF i = 1 THEN s ELSE p[i - 1]]
<1>3. \A i \in 1 .. n + 1 : q[i] = IF i = 1 THEN s ELSE p[i - 1]
  OBVIOUS
<1>4. \A i \in 2 .. n + 1 : i - 1 \in 1 .. n /\ q[i] = p[i - 1]
  BY <1>3
<1>5. q \in [1 .. n + 1 -> Streams]
  BY <1>4
<1>6. \A i \in 1 .. n : p[i] \in Streams /\ p[i] \in open_chain /\ p[i] # s
  BY <1>2 DEF Along
<1>7. /\ chain \in [Streams -> Streams \cup {NoStream}]
      /\ chain' = [chain EXCEPT ![s] = head] /\ head' = s
  BY DEF Chained, GIO_chain
<1> HIDE DEF q
<1>8. \A i, j \in 1 .. n + 1 : q[i] = q[j] => i = j
  <2> SUFFICES ASSUME NEW i \in 1 .. n + 1, NEW j \in 1 .. n + 1, q[i] = q[j]
               PROVE  i = j
    OBVIOUS
  <2>1. CASE i = 1 /\ j = 1
    BY <2>1
  <2>2. CASE i = 1 /\ j # 1
    BY <1>3, <1>4, <1>6, <2>2
  <2>3. CASE i # 1 /\ j = 1
    BY <1>3, <1>4, <1>6, <2>3
  <2>4. CASE i # 1 /\ j # 1
    <3>1. i \in 2 .. n + 1 /\ j \in 2 .. n + 1
      BY <2>4
    <3>2. i - 1 \in 1 .. n /\ j - 1 \in 1 .. n /\ p[i - 1] = p[j - 1]
      BY <1>4, <3>1
    <3>3. i - 1 = j - 1
      BY <1>2, <3>2 DEF Along
    <3> QED
      BY <3>3
  <2> QED
    BY <2>1, <2>2, <2>3, <2>4
<1>9. open_chain' = {q[i] : i \in 1 .. n + 1}
  <2>1. \A x \in open_chain' : \E i \in 1 .. n + 1 : x = q[i]
    <3> SUFFICES ASSUME NEW x \in open_chain'
                 PROVE  \E i \in 1 .. n + 1 : x = q[i]
      OBVIOUS
    <3>1. CASE x = s
      <4>1. q[1] = s /\ 1 \in 1 .. n + 1
        BY <1>3
      <4> QED
        BY <3>1, <4>1
    <3>2. CASE x # s
      <4>1. PICK i \in 1 .. n : x = p[i]
        BY <1>2, <3>2 DEF Along
      <4>2. i + 1 \in 2 .. n + 1 /\ (i + 1) - 1 = i
        OBVIOUS
      <4>3. q[i + 1] = x
        BY <1>4, <4>1, <4>2
      <4> QED
        BY <4>2, <4>3
    <3> QED
      BY <3>1, <3>2
  <2>2. \A i \in 1 .. n + 1 : q[i] \in open_chain'
    BY <1>3, <1>4, <1>6
  <2> QED
    BY <2>1, <2>2
<1>10. \A i \in 1 .. n + 1 : chain'[q[i]] = IF i = n + 1 THEN NoStream ELSE q[i + 1]
  <2> SUFFICES ASSUME NEW i \in 1 .. n + 1
               PROVE  chain'[q[i]] = IF i = n + 1 THEN NoStream ELSE q[i + 1]
    OBVIOUS
  <2>1. CASE i = 1
    <3>1. chain'[q[i]] = head
      BY <1>3, <1>7, <2>1
    <3>2. CASE n = 0
      BY <1>2, <2>1, <3>1, <3>2 DEF Along
    <3>3. CASE n # 0
      <4>1. head = p[1] /\ 2 \in 2 .. n + 1 /\ 2 - 1 = 1
        BY <1>2, <3>3 DEF Along
      <4>2. q[2] = p[1]
        BY <1>4, <4>1
      <4> QED
        BY <2>1, <3>1, <3>3, <4>1, <4>2
    <3> QED
      BY <3>2, <3>3
  <2>2. CASE i # 1
    <3>1. i - 1 \in 1 .. n /\ q[i] = p[i - 1]
      BY <1>4, <2>2
    <3>2. chain'[q[i]] = chain[p[i - 1]]
      BY <1>6, <1>7, <3>1
    <3>3. chain[p[i - 1]] = IF i - 1 = n THEN NoStream ELSE p[i]
      BY <1>2, <3>1 DEF Along
    <3>4. i # n + 1 => q[i + 1] = p[i]
      <4>1. i # n + 1 => i + 1 \in 2 .. n + 1 /\ (i + 1) - 1 = i
        BY <2>2
      <4> QED
        BY <1>4, <4>1
    <3> QED
      BY <3>2, <3>3, <3>4
  <2> QED
    BY <2>1, <2>2
<1>11. n + 1 \in Nat /\ n + 1 # 0 /\ head' = q[1]
  BY <1>3, <1>7
<1>12. Along(n + 1, q)'
  BY <1>8, <1>9, <1>10, <1>11 DEF Along
<1>13. chain' \in [Streams -> Streams \cup {NoStream}]
  <2>1. head \in Streams \cup {NoStream}
    BY <1>2 DEF Along
  <2> QED
    BY <1>7, <2>1
<1> QED
  BY <1>5, <1>11, <1>12, <1>13 DEF Chained

(* gclose2 takes one out of their midst.                                   *)
LEMMA UnlinkKeeps ==
  ASSUME NEW s \in Streams, Chained, Unlinked(s),
         open_chain' = open_chain \ {s}
  PROVE  Chained'
<1>1. PICK n \in Nat : \E p \in [1 .. n -> Streams] : Along(n, p)
  BY DEF Chained
<1>2. PICK p \in [1 .. n -> Streams] : Along(n, p)
  BY <1>1
<1>3. Linked = open_chain
  BY <1>2, WalkAlong DEF LinksMatch
<1>4. chain \in [Streams -> Streams \cup {NoStream}]
  BY DEF Chained
<1>5. \A i \in 1 .. n : p[i] \in Streams /\ p[i] # NoStream
  BY StreamsAssumption
(* s is at some place k + 1; when it is not the first, the one before it   *)
(* is linked to the one behind it.                                         *)
<1>6. \E k \in 0 .. n - 1 :
        /\ p[k + 1] = s
        /\ head' = IF k = 0 THEN chain[s] ELSE head
        /\ chain' = IF k = 0 THEN chain ELSE [chain EXCEPT ![p[k]] = chain[s]]
  <2>1. CASE s = head /\ head' = chain[s] /\ UNCHANGED chain
    <3>1. n # 0 /\ p[1] = s
      BY <1>2, <2>1, StreamsAssumption DEF Along
    <3>2. 0 \in 0 .. n - 1 /\ p[0 + 1] = s
      BY <3>1
    <3> QED
      BY <2>1, <3>2
  <2>2. ASSUME NEW t \in Linked, s # head, chain[t] = s,
               chain' = [chain EXCEPT ![t] = chain[s]], UNCHANGED head
        PROVE  \E k \in 0 .. n - 1 :
                 /\ p[k + 1] = s
                 /\ head' = IF k = 0 THEN chain[s] ELSE head
                 /\ chain' = IF k = 0 THEN chain
                             ELSE [chain EXCEPT ![p[k]] = chain[s]]
    <3>1. PICK k \in 1 .. n : t = p[k]
      BY <1>2, <1>3, <2>2 DEF Along
    <3>2. s = IF k = n THEN NoStream ELSE p[k + 1]
      BY <1>2, <2>2, <3>1 DEF Along
    <3>3. k # n /\ s = p[k + 1]
      BY <3>2, StreamsAssumption
    <3>4. k \in 0 .. n - 1 /\ k # 0
      BY <3>3
    <3> QED
      BY <2>2, <3>1, <3>3, <3>4
  <2> QED
    BY <2>1, <2>2 DEF Unlinked
<1>7. PICK k \in 0 .. n - 1 :
        /\ p[k + 1] = s
        /\ head' = IF k = 0 THEN chain[s] ELSE head
        /\ chain' = IF k = 0 THEN chain ELSE [chain EXCEPT ![p[k]] = chain[s]]
  BY <1>6
<1> DEFINE m == n - 1
           At(i) == IF i <= k THEN i ELSE i + 1
           q == [i \in 1 .. m |-> p[At(i)]]
<1>8. m \in Nat /\ n = m + 1 /\ k + 1 \in 1 .. n
  OBVIOUS
<1>9. \A i \in 1 .. m : At(i) \in 1 .. n /\ At(i) # k + 1 /\ q[i] = p[At(i)]
  OBVIOUS
<1>10. \A j \in 1 .. n : j # k + 1 => \E i \in 1 .. m : At(i) = j
  <2> SUFFICES ASSUME NEW j \in 1 .. n, j # k + 1
               PROVE  \E i \in 1 .. m : At(i) = j
    OBVIOUS
  <2>1. CASE j <= k
    <3>1. j \in 1 .. m /\ At(j) = j
      BY <2>1
    <3> QED
      BY <3>1
  <2>2. CASE ~ (j <= k)
    <3>1. j - 1 \in 1 .. m /\ At(j - 1) = j
      BY <2>2
    <3> QED
      BY <3>1
  <2> QED
    BY <2>1, <2>2
<1>11. \A i, j \in 1 .. m : At(i) = At(j) => i = j
  OBVIOUS
<1>12. q \in [1 .. m -> Streams]
  BY <1>5, <1>9
<1>13. \A i \in 1 .. m : i # m =>
         /\ i + 1 \in 1 .. m
         /\ At(i + 1) = IF i = k THEN k + 2 ELSE At(i) + 1
  OBVIOUS
<1>14. \A i, j \in 1 .. n : p[i] = p[j] => i = j
  BY <1>2 DEF Along
<1>15. \A i \in 1 .. n : chain[p[i]] = IF i = n THEN NoStream ELSE p[i + 1]
  BY <1>2 DEF Along
<1>16. open_chain = {p[i] : i \in 1 .. n}
  BY <1>2 DEF Along
<1>17. \A i \in 1 .. m : i <= k => At(i) = i
  OBVIOUS
<1>18. \A i \in 1 .. m : (At(i) = n => i = m) /\ (i = m => At(i) = n \/ i = k)
  OBVIOUS
<1> HIDE DEF At, q, m
<1>19. \A i, j \in 1 .. m : q[i] = q[j] => i = j
  BY <1>9, <1>11, <1>14
<1>20. open_chain' = {q[i] : i \in 1 .. m}
  <2>1. \A x \in open_chain' : \E i \in 1 .. m : x = q[i]
    <3> SUFFICES ASSUME NEW x \in open_chain'
                 PROVE  \E i \in 1 .. m : x = q[i]
      OBVIOUS
    <3>1. PICK j \in 1 .. n : x = p[j]
      BY <1>16
    <3>2. j # k + 1
      BY <1>7, <3>1
    <3>3. PICK i \in 1 .. m : At(i) = j
      BY <1>10, <3>2
    <3> QED
      BY <1>9, <3>1, <3>3
  <2>2. \A i \in 1 .. m : q[i] \in open_chain'
    <3> SUFFICES ASSUME NEW i \in 1 .. m PROVE q[i] \in open_chain'
      OBVIOUS
    <3>1. At(i) \in 1 .. n /\ At(i) # k + 1 /\ q[i] = p[At(i)]
      BY <1>9
    <3>2. q[i] # s
      BY <1>7, <1>8, <1>14, <3>1
    <3> QED
      BY <1>16, <3>1, <3>2
  <2> QED
    BY <2>1, <2>2
<1>21. chain[s] = IF k + 1 = n THEN NoStream ELSE p[k + 2]
  <2>1. chain[p[k + 1]] = IF k + 1 = n THEN NoStream ELSE p[(k + 1) + 1]
    BY <1>8, <1>15
  <2>2. (k + 1) + 1 = k + 2
    OBVIOUS
  <2> QED
    BY <1>7, <2>1, <2>2
<1>22. head' = IF m = 0 THEN NoStream ELSE q[1]
  <2>1. CASE k = 0 /\ m = 0
    BY <1>7, <1>8, <1>21, <2>1
  <2>2. CASE k = 0 /\ m # 0
    <3>1. 1 \in 1 .. m /\ At(1) = 2 /\ k + 1 # n /\ k + 2 = 2
      BY <1>8, <2>2 DEF At
    <3> QED
      BY <1>7, <1>9, <1>21, <2>2, <3>1
  <2>3. CASE k # 0
    <3>1. 1 \in 1 .. m /\ At(1) = 1 /\ n # 0
      BY <1>8, <2>3 DEF At
    <3>2. head = p[1]
      BY <1>2, <3>1 DEF Along
    <3> QED
      BY <1>7, <1>8, <1>9, <2>3, <3>1, <3>2
  <2> QED
    BY <2>1, <2>2, <2>3
<1>23. \A i \in 1 .. m : chain'[q[i]] = IF i = m THEN NoStream ELSE q[i + 1]
  <2> SUFFICES ASSUME NEW i \in 1 .. m
               PROVE  chain'[q[i]] = IF i = m THEN NoStream ELSE q[i + 1]
    OBVIOUS
  <2>1. q[i] = p[At(i)] /\ At(i) \in 1 .. n
    BY <1>9
  <2>2. CASE i = k
    <3>1. k # 0 /\ At(i) = k /\ q[i] = p[k] /\ p[k] \in Streams
      BY <1>5, <1>17, <2>1, <2>2
    <3>2. chain'[q[i]] = chain[s]
      BY <1>4, <1>7, <3>1
    <3>3. CASE i = m
      BY <1>8, <1>21, <2>2, <3>2, <3>3
    <3>4. CASE i # m
      <4>1. q[i + 1] = p[k + 2] /\ k + 1 # n
        <5>1. i + 1 \in 1 .. m /\ At(i + 1) = k + 2
          BY <1>13, <2>2, <3>4
        <5>2. q[i + 1] = p[At(i + 1)]
          BY <1>9, <5>1
        <5> QED
          BY <1>8, <2>2, <3>4, <5>1, <5>2
      <4> QED
        BY <1>21, <3>2, <3>4, <4>1
    <3> QED
      BY <3>3, <3>4
  <2>3. CASE i # k
    <3>1. chain'[q[i]] = chain[p[At(i)]]
      <4>1. CASE k = 0
        BY <1>7, <2>1, <4>1
      <4>2. CASE k # 0
        <5>1. k \in 1 .. n /\ k \in 1 .. m /\ At(k) = k
          BY <1>8, <1>17, <4>2
        <5>2. p[At(i)] # p[k]
          BY <1>11, <1>14, <2>1, <2>3, <5>1
        <5> QED
          BY <1>4, <1>5, <1>7, <2>1, <4>2, <5>1, <5>2
      <4> QED
        BY <4>1, <4>2
    <3>2. chain[p[At(i)]] = IF At(i) = n THEN NoStream ELSE p[At(i) + 1]
      BY <1>15, <2>1
    <3>3. CASE i = m
      BY <1>18, <2>3, <3>1, <3>2, <3>3
    <3>4. CASE i # m
      <4>1. q[i + 1] = p[At(i) + 1] /\ At(i) # n
        BY <1>9, <1>13, <1>18, <2>3, <3>4
      <4> QED
        BY <3>1, <3>2, <3>4, <4>1
    <3> QED
      BY <3>3, <3>4
  <2> QED
    BY <2>2, <2>3
<1>24. Along(m, q)'
  BY <1>19, <1>20, <1>22, <1>23 DEF Along
<1>25. chain' \in [Streams -> Streams \cup {NoStream}]
  BY <1>4, <1>7
<1> QED
  BY <1>8, <1>12, <1>24, <1>25 DEF Chained

LEMMA StillChained ==
  ASSUME Chained, UNCHANGED <<open_chain, links>>
  PROVE  Chained'
BY DEF Chained, Along, links

LEMMA GcloseChained ==
  ASSUME Chained, NEW s \in Streams, GcloseLinked(s)
  PROVE  Chained'
<1>1. CASE GcloseReal(s) /\ Unlinked(s)
  BY <1>1, UnlinkKeeps DEF GcloseReal
<1>2. CASE GcloseTmp(s) /\ UNCHANGED links
  BY <1>2, StillChained DEF GcloseTmp
<1> QED
  BY <1>1, <1>2 DEF GcloseLinked

(* Every call and every step of greopen leaves the list chained.           *)
LEMMA ChainedStep ==
  ASSUME ReopenInv, Chained, [ChainNext]_chainVars
  PROVE  Chained'
<1>1. ASSUME NEW s \in Streams, NEW v \in Streams \cup {NoStream},
             NEW cached \in BOOLEAN,
             GreopenOk(s, cached, v) \/ (GopenOk(s, cached, v) /\ GIO_chain(s))
      PROVE  Chained'
  <2>1. s \notin open_chain /\ GIO_chain(s) /\ open_chain' = open_chain \cup {s}
    BY <1>1, StreamsAssumption DEF GreopenOk, GopenOk, Unused, ReopenInv
  <2> QED
    BY <2>1, LinkKeeps
<1>2. ASSUME NEW s \in Streams, NEW v \in Streams \cup {NoStream},
             \/ GreopenFailed(s, v)
             \/ GopenFailed(s, v) /\ UNCHANGED links
             \/ CheckReopen(s, v) /\ UNCHANGED links
             \/ CheckFailed(s, v) /\ UNCHANGED links
             \/ GfilenoFailed(s, v) /\ UNCHANGED links
      PROVE  Chained'
  <2>1. UNCHANGED <<open_chain, links>>
    BY <1>2 DEF GreopenFailed, GopenFailed, CheckReopen, CheckFailed,
                GfilenoFailed
  <2> QED
    BY <2>1, StillChained
<1>3. ASSUME NEW s \in Streams, Gdopen(s) /\ GIO_chain(s)
      PROVE  Chained'
  BY <1>3, LinkKeeps DEF Gdopen, Unused
<1>4. ASSUME NEW s \in Streams, CheckReal(s) /\ UNCHANGED links
      PROVE  Chained'
  BY <1>4, StillChained DEF CheckReal
<1>5. ASSUME NEW s \in Streams, GreopenClose(s)
      PROVE  Chained'
  <2>1. CASE UNCHANGED <<cfdVars, links>>
    BY <2>1, StillChained DEF cfdVars, streamVars
  <2> QED
    BY <1>5, <2>1, GcloseChained DEF GreopenClose
<1>6. CASE Gopenmax /\ UNCHANGED links
  BY <1>6, StillChained DEF Gopenmax, streamVars
<1>7. CASE FlushAll \/ FlushStep \/ UNCHANGED chainVars
  BY <1>7, StillChained
     DEF FlushAll, FlushStep, chainVars, cfdVars, streamVars, links
<1>8. CASE CfdCall
  BY <1>1, <1>2, <1>3, <1>4, <1>6, <1>8, GcloseChained DEF CfdCall
<1> QED
  BY <1>1, <1>2, <1>5, <1>7, <1>8 DEF ChainNext

LEMMA ChainedInit == ChainInit => Chained
<1> SUFFICES ASSUME ChainInit PROVE Chained
  OBVIOUS
<1> DEFINE p == [i \in 1 .. 0 |-> NoStream]
<1>1. p \in [1 .. 0 -> Streams]
  OBVIOUS
<1>2. Along(0, p)
  BY DEF Along, ChainInit, CfdInit
<1> QED
  BY <1>1, <1>2 DEF Chained, ChainInit

(* The links lead past every stream that was linked and not taken off, and *)
(* to an end: the list that gclose, GIO_tmp_close_one and gflush(NULL)     *)
(* walk along is a list, whatever is opened, closed and reopened.          *)
THEOREM ChainLinks ==
  ASSUME ~ GreopenAny
  PROVE  ChainSpec => []LinksMatch
<1> DEFINE Inv == CfdInv /\ ReopenInv /\ Chained
<1>1. ChainInit => Inv
  BY ReopenInitInv, CfdInitInv, ChainedInit DEF ChainInit
<1>2. Inv /\ [ChainNext]_chainVars => Inv'
  BY ChainStep, ChainedStep, CfdNextInv DEF CfdInv
<1>3. Inv => LinksMatch
  BY WalkAlong DEF Chained
<1> QED
  BY <1>1, <1>2, <1>3, PTL DEF ChainSpec

=============================================================================
