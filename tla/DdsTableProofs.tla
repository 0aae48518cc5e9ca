--------------------------- MODULE DdsTableProofs ---------------------------
(***************************************************************************)
(* Proofs about DdsTable, for any names, any hash function, any thresholds *)
(* and growths, and tables of any number of items.                         *)
(***************************************************************************)
EXTENDS DdsTable, FiniteSetTheorems, TLAPS

(* Every item on a chain is a live one, in the bucket of its name.         *)
Placed ==
  \A b \in Buckets : \A k \in DOMAIN chain[b] :
    chain[b][k] \in active /\ Bucket(name[chain[b][k]]) = b

(* Items wait to be hashed again only during a lookup, and those of one    *)
(* name in one chain.                                                      *)
Waiting ==
  /\ Idle => old = <<>>
  /\ \A b \in DOMAIN old : \A k \in DOMAIN old[b] : old[b][k] \in active
  /\ \A b1, b2 \in DOMAIN old :
       \A k1 \in DOMAIN old[b1] : \A k2 \in DOMAIN old[b2] :
         name[old[b1][k1]] = name[old[b2][k2]] => b1 = b2

(* Every live item is on a chain or waits.                                 *)
Kept ==
  \A i \in active :
    \/ \E k \in DOMAIN chain[Bucket(name[i])] : chain[Bucket(name[i])][k] = i
    \/ \E b \in DOMAIN old : \E k \in DOMAIN old[b] : old[b][k] = i

(* On a chain, the items of one name stand the latest first,               *)
Sorted(c) ==
  \A j, k \in DOMAIN c :
    j < k /\ name[c[j]] = name[c[k]] => born[c[k]] < born[c[j]]

(* and those that have been hashed again are later than those that wait.   *)
Ordered ==
  /\ \A b \in Buckets : Sorted(chain[b])
  /\ \A b \in DOMAIN old : Sorted(old[b])
  /\ \A b \in Buckets : \A k \in DOMAIN chain[b] :
       \A a \in DOMAIN old : \A j \in DOMAIN old[a] :
         name[chain[b][k]] = name[old[a][j]] =>
           born[old[a][j]] < born[chain[b][k]]

IInv == TableTypeOK /\ Placed /\ Waiting /\ Kept /\ Ordered

-----------------------------------------------------------------------------
(* Chains                                                                  *)

LEMMA Prepended ==
  ASSUME NEW S, NEW c \in Seq(S), NEW i \in S
  PROVE  /\ <<i>> \o c \in Seq(S)
         /\ DOMAIN (<<i>> \o c) = 1 .. Len(c) + 1
         /\ DOMAIN c = 1 .. Len(c)
         /\ (<<i>> \o c)[1] = i
         /\ \A k \in DOMAIN c : (<<i>> \o c)[k + 1] = c[k]
         /\ \A k \in 2 .. Len(c) + 1 :
              k - 1 \in DOMAIN c /\ (<<i>> \o c)[k] = c[k - 1]
OBVIOUS

LEMMA Appended ==
  ASSUME NEW S, NEW c \in Seq(S), NEW i \in S
  PROVE  /\ Append(c, i) \in Seq(S)
         /\ DOMAIN Append(c, i) = 1 .. Len(c) + 1
         /\ DOMAIN c = 1 .. Len(c)
         /\ Append(c, i)[Len(c) + 1] = i
         /\ \A k \in DOMAIN c : Append(c, i)[k] = c[k]
OBVIOUS

LEMMA Shortened ==
  ASSUME NEW S, NEW c \in Seq(S), c # <<>>
  PROVE  /\ Tail(c) \in Seq(S)
         /\ 1 \in DOMAIN c
         /\ Head(c) = c[1]
         /\ DOMAIN Tail(c) = 1 .. Len(c) - 1
         /\ DOMAIN c = 1 .. Len(c)
         /\ \A k \in DOMAIN Tail(c) : k + 1 \in DOMAIN c /\ Tail(c)[k] = c[k + 1]
         /\ \A k \in DOMAIN c : k # 1 => k - 1 \in DOMAIN Tail(c)
                                         /\ Tail(c)[k - 1] = c[k]
OBVIOUS

LEMMA Joined ==
  ASSUME NEW S, NEW a \in Seq(S), NEW z \in Seq(S)
  PROVE  /\ a \o z \in Seq(S)
         /\ Len(a \o z) = Len(a) + Len(z)
         /\ \A j \in 1 .. Len(a) + Len(z) :
              (a \o z)[j] = IF j <= Len(a) THEN a[j] ELSE z[j - Len(a)]
OBVIOUS

LEMMA Removed ==
  ASSUME NEW S, NEW c \in Seq(S), NEW k \in DOMAIN c
  PROVE  /\ Without(c, k) \in Seq(S)
         /\ DOMAIN Without(c, k) = 1 .. Len(c) - 1
         /\ DOMAIN c = 1 .. Len(c)
         /\ \A j \in DOMAIN Without(c, k) :
              Without(c, k)[j] = IF j < k THEN c[j] ELSE c[j + 1]
<1> DEFINE a == SubSeq(c, 1, k - 1)
          z == SubSeq(c, k + 1, Len(c))
<1>1. /\ a \in Seq(S) /\ Len(a) = k - 1
      /\ \A j \in 1 .. k - 1 : a[j] = c[j]
  OBVIOUS
<1>2. /\ z \in Seq(S) /\ Len(z) = Len(c) - k
      /\ \A j \in 1 .. Len(c) - k : z[j] = c[k + j]
  OBVIOUS
<1>3. Without(c, k) = a \o z
  BY DEF Without
<1> HIDE DEF a, z
<1>4. /\ a \o z \in Seq(S)
      /\ Len(a \o z) = Len(c) - 1
      /\ \A j \in 1 .. Len(c) - 1 :
           (a \o z)[j] = IF j < k THEN a[j] ELSE z[j - (k - 1)]
  <2>1. k \in 1 .. Len(c) /\ Len(c) \in Nat
    OBVIOUS
  <2>2. Len(a) + Len(z) = Len(c) - 1
    BY <1>1, <1>2, <2>1
  <2>3. \A j \in 1 .. Len(c) - 1 :
          (a \o z)[j] = IF j <= k - 1 THEN a[j] ELSE z[j - (k - 1)]
    BY <1>1, <1>2, <2>2, Joined, SMTT(30)
  <2>4. \A j \in 1 .. Len(c) - 1 : j <= k - 1 <=> j < k
    BY <2>1
  <2> QED
    BY <1>1, <1>2, <2>2, <2>3, <2>4, Joined
<1> DEFINE w == a \o z
<1> HIDE DEF w
<1>5. w \in Seq(S) /\ Len(w) = Len(c) - 1
  <2>1. a \o z \in Seq(S) /\ Len(a \o z) = Len(c) - 1
    BY <1>4
  <2> QED
    BY <2>1 DEF w
<1>6. \A j \in 1 .. Len(c) - 1 : w[j] = IF j < k THEN a[j] ELSE z[j - (k - 1)]
  BY <1>4 DEF w
<1>7. k \in 1 .. Len(c) /\ Len(c) \in Nat /\ DOMAIN c = 1 .. Len(c)
  OBVIOUS
<1>8. ASSUME NEW j \in 1 .. Len(c) - 1
      PROVE  w[j] = IF j < k THEN c[j] ELSE c[j + 1]
  <2>1. CASE j < k
    BY <1>1, <1>6, <1>7, <2>1
  <2>2. CASE j >= k
    <3>1. j - (k - 1) \in 1 .. Len(c) - k /\ k + (j - (k - 1)) = j + 1
      BY <1>7, <2>2
    <3>2. w[j] = z[j - (k - 1)]
      BY <1>6, <2>2, <1>7
    <3>3. z[j - (k - 1)] = c[k + (j - (k - 1))]
      BY <1>2, <3>1
    <3> QED
      BY <1>7, <2>2, <3>1, <3>2, <3>3
  <2> QED
    BY <1>7, <2>1, <2>2
<1>9. DOMAIN w = 1 .. Len(c) - 1
  BY <1>5
<1> QED
  BY <1>3, <1>5, <1>7, <1>8, <1>9 DEF w

LEMMA BucketType ==
  ASSUME TableTypeOK, NEW n \in Names
  PROVE  Bucket(n) \in Buckets
<1>1. Hash[n] \in Nat /\ size \in Nat /\ size > 0
  BY TableAssumption DEF TableTypeOK, Positive
<1> QED
  BY <1>1 DEF Bucket, Buckets

(* A search finds the latest item of a name when none waits.               *)
LEMMA SearchFinds ==
  ASSUME IInv, NEW n \in Names,
         \A b \in DOMAIN old : old[b] = <<>>,
         NEW i \in {0} \cup active,
         IsFirst(chain[Bucket(n)], n, i)
  PROVE  Latest(n, i)
<1> DEFINE c == chain[Bucket(n)]
<1>1. c \in Seq(DOMAIN name) /\ Bucket(n) \in Buckets
  BY BucketType DEF IInv, TableTypeOK
<1>2. ASSUME NEW j \in active, name[j] = n
      PROVE  \E m \in DOMAIN c : c[m] = j
  <2>1. \A b \in DOMAIN old : DOMAIN old[b] = {}
    <3>1. DOMAIN <<>> = {}
      OBVIOUS
    <3> QED
      BY <3>1
  <2> QED
    BY <1>2, <2>1 DEF IInv, Kept
<1>3. CASE i = 0 /\ ~ Has(c, n)
  BY <1>2, <1>3 DEF Has, Latest
<1>4. ASSUME NEW k \in DOMAIN c, c[k] = i, name[i] = n,
             \A j \in 1 .. k - 1 : name[c[j]] # n
      PROVE  Latest(n, i)
  <2>1. i \in active
    BY <1>1, <1>4 DEF IInv, Placed
  <2>2. \A j \in active : j \in DOMAIN born /\ born[j] \in Nat
    <3>1. born \in Seq(0 .. links - 1) /\ Len(born) = Len(name) /\ links \in Nat
      BY DEF IInv, TableTypeOK
    <3>2. active \subseteq DOMAIN name /\ name \in Seq(Names)
      BY DEF IInv, TableTypeOK
    <3> QED
      BY <3>1, <3>2
  <2>3. ASSUME NEW j \in active, name[j] = n
        PROVE  born[j] <= born[i]
    <3>1. PICK m \in DOMAIN c : c[m] = j
      BY <1>2, <2>3
    <3>2. m \in Nat /\ k \in Nat /\ m > 0 /\ DOMAIN c = 1 .. Len(c)
      BY <1>1, <1>4
    <3>3. m >= k
      BY <1>4, <2>3, <3>1, <3>2
    <3>4. CASE m = k
      BY <1>4, <2>1, <2>2, <3>1, <3>4
    <3>5. CASE k < m
      <4>1. Sorted(c)
        BY <1>1 DEF IInv, Ordered
      <4>2. born[j] < born[i]
        BY <1>4, <2>3, <3>1, <3>5, <4>1 DEF Sorted
      <4> QED
        BY <2>1, <2>2, <4>2
    <3> QED
      BY <3>2, <3>3, <3>4, <3>5
  <2> QED
    BY <1>4, <2>1, <2>3 DEF Latest
<1> QED
  BY <1>3, <1>4 DEF IsFirst

-----------------------------------------------------------------------------
(* Types                                                                   *)

LEMMA Wider ==
  ASSUME NEW S, NEW T, S \subseteq T, NEW c \in Seq(S)
  PROVE  c \in Seq(T)
OBVIOUS

LEMMA Sequence ==
  ASSUME NEW S, NEW m \in Nat, NEW f \in [1 .. m -> S]
  PROVE  f \in Seq(S) /\ Len(f) = m
OBVIOUS

LEMMA Narrower ==
  ASSUME NEW S, NEW T, NEW c \in Seq(S), \A j \in 1 .. Len(c) : c[j] \in T
  PROVE  c \in Seq(T)
<1>1. c \in [1 .. Len(c) -> T] /\ Len(c) \in Nat
  OBVIOUS
<1> QED
  BY <1>1, Sequence

(* Live items are numbers with a name and an age.                          *)
LEMMA Live ==
  ASSUME TableTypeOK
  PROVE  /\ DOMAIN name = 1 .. Len(name)
         /\ Len(name) \in Nat
         /\ DOMAIN born = DOMAIN name
         /\ DOMAIN name \subseteq Nat
         /\ links \in Nat
         /\ \A i \in DOMAIN name :
              /\ i \in Nat /\ name[i] \in Names
              /\ born[i] \in Nat /\ born[i] < links
         /\ active \subseteq DOMAIN name
         /\ \A b \in Buckets : chain[b] \in Seq(Nat)
         /\ \A i \in active : Bucket(name[i]) \in Buckets
<1>1. name \in Seq(Names) /\ Len(born) = Len(name) /\ links \in Nat
      /\ born \in Seq(0 .. links - 1) /\ active \subseteq DOMAIN name
  BY DEF TableTypeOK
<1>2. DOMAIN name = 1 .. Len(name) /\ Len(name) \in Nat
  BY <1>1
<1>3. DOMAIN born = DOMAIN name
  BY <1>1, <1>2
<1>4. \A i \in DOMAIN name : /\ i \in Nat /\ name[i] \in Names
                             /\ born[i] \in 0 .. links - 1
  BY <1>1, <1>2, <1>3
<1>5. \A b \in Buckets : chain[b] \in Seq(DOMAIN name)
  BY DEF TableTypeOK
<1>6. DOMAIN name \subseteq Nat
  BY <1>4
<1>7. \A b \in Buckets : chain[b] \in Seq(Nat)
  BY <1>5, <1>6, Wider
<1>8. \A i \in active : Bucket(name[i]) \in Buckets
  BY <1>1, <1>4, BucketType
<1> QED
  BY <1>1, <1>2, <1>3, <1>4, <1>6, <1>7, <1>8

LEMMA InitInvariant ==
  ASSUME TableInit
  PROVE  IInv
<1>1. table.size \in Positive
  BY TableAssumption DEF TableInit
<1>2. DOMAIN <<>> = {} /\ Len(<<>>) = 0
  OBVIOUS
<1>3. \A S : <<>> \in Seq(S)
  OBVIOUS
<1>4. chain = [b \in Buckets |-> <<>>] /\ old = <<>> /\ name = <<>> /\ active = {}
  BY DEF TableInit
<1>5. chain \in [Buckets -> Seq(DOMAIN name)]
  BY <1>3, <1>4
<1>6. old \in [DOMAIN old -> Seq(DOMAIN name)]
  BY <1>2, <1>4
<1>7. TableTypeOK
  BY <1>1, <1>2, <1>3, <1>5, <1>6 DEF TableInit, TableTypeOK
<1>8. \A b \in Buckets : DOMAIN chain[b] = {}
  BY <1>2, <1>4
<1>9. Placed /\ Waiting /\ Kept /\ Ordered
  BY <1>2, <1>4, <1>8 DEF Placed, Waiting, Kept, Ordered, Sorted
<1> QED
  BY <1>7, <1>9 DEF IInv

-----------------------------------------------------------------------------
(* A new item, or one used again, comes before all others of its name.     *)

LEMMA LinkStep ==
  ASSUME IInv, Idle, sought' = sought, size' = size, old' = old,
         NEW n \in Names, NEW i \in Nat, i \notin active,
         active' = active \cup {i},
         \A j \in active : name'[j] = name[j] /\ born'[j] = born[j],
         name'[i] = n, born'[i] = links,
         chain' = [chain EXCEPT ![Bucket(n)] = <<i>> \o @]
  PROVE  Placed' /\ Waiting' /\ Kept' /\ Ordered'
<1> DEFINE d == Bucket(n)
          c == chain[d]
          e == <<i>> \o c
<1>1. TableTypeOK
  BY DEF IInv
<1>2. d \in Buckets /\ c \in Seq(Nat)
  BY <1>1, BucketType, Live
<1>3. Buckets' = Buckets /\ \A m : Bucket(m)' = Bucket(m)
  BY DEF Buckets, Bucket
<1>4. chain'[d] = e /\ \A b \in Buckets : b # d => chain'[b] = chain[b]
  BY <1>1, <1>2 DEF TableTypeOK
<1>5. /\ DOMAIN e = 1 .. Len(c) + 1 /\ DOMAIN c = 1 .. Len(c) /\ Len(c) \in Nat
      /\ e[1] = i
      /\ \A k \in DOMAIN c : k + 1 \in DOMAIN e /\ e[k + 1] = c[k]
      /\ \A k \in DOMAIN e : k # 1 => k - 1 \in DOMAIN c /\ e[k] = c[k - 1]
  BY <1>2, Prepended, SMTT(30)
<1> HIDE DEF d, c, e
<1>6. \A b \in Buckets : \A k \in DOMAIN chain[b] :
        chain[b][k] \in active /\ Bucket(name[chain[b][k]]) = b
  BY DEF IInv, Placed
<1>7. \A k \in DOMAIN c : c[k] \in active /\ Bucket(name[c[k]]) = d
  BY <1>2, <1>6 DEF c
<1>8. \A j \in active : j \in Nat /\ born[j] < links /\ Bucket(name[j]) \in Buckets
                      /\ born[j] \in Nat
  BY <1>1, Live
<1>9. old = <<>> /\ DOMAIN old = {}
  BY DEF IInv, Waiting
<1>10. Placed'
  <2> SUFFICES ASSUME NEW b \in Buckets, NEW k \in DOMAIN chain'[b]
               PROVE  chain'[b][k] \in active' /\ Bucket(name'[chain'[b][k]]) = b
    BY <1>3 DEF Placed
  <2>1. CASE b # d
    BY <1>4, <1>6, <2>1
  <2>2. CASE b = d /\ k = 1
    BY <1>4, <1>5, <2>2 DEF d
  <2>3. CASE b = d /\ k # 1
    BY <1>4, <1>5, <1>7, <2>3, SMTT(30)
  <2> QED
    BY <2>1, <2>2, <2>3
<1>11. Waiting'
  BY <1>9 DEF Waiting, Idle
<1>12. Kept'
  <2> SUFFICES ASSUME NEW j \in active'
               PROVE  \E k \in DOMAIN chain'[Bucket(name'[j])] :
                        chain'[Bucket(name'[j])][k] = j
    BY <1>3 DEF Kept
  <2>1. CASE j = i
    <3>1. Bucket(name'[j]) = d /\ 1 \in DOMAIN e
      BY <1>5, <2>1 DEF d
    <3> QED
      BY <1>4, <1>5, <2>1, <3>1
  <2>2. CASE j \in active
    <3>1. Bucket(name'[j]) = Bucket(name[j])
      BY <2>2
    <3>2. PICK k \in DOMAIN chain[Bucket(name[j])] : chain[Bucket(name[j])][k] = j
      BY <1>9, <2>2 DEF IInv, Kept
    <3>3. CASE Bucket(name[j]) # d
      BY <1>4, <1>8, <2>2, <3>1, <3>2, <3>3
    <3>4. CASE Bucket(name[j]) = d
      <4>1. k \in DOMAIN c /\ c[k] = j
        BY <3>2, <3>4 DEF c
      <4>2. chain'[Bucket(name'[j])] = e
        BY <1>2, <1>4, <3>1, <3>4
      <4>3. k + 1 \in DOMAIN e /\ e[k + 1] = j
        BY <1>5, <4>1
      <4> QED
        BY <4>2, <4>3
    <3> QED
      BY <3>3, <3>4
  <2> QED
    BY <2>1, <2>2
<1>13. Ordered'
  <2>1. ASSUME NEW b \in Buckets, NEW j \in DOMAIN chain'[b], NEW k \in DOMAIN chain'[b],
               j < k, name'[chain'[b][j]] = name'[chain'[b][k]]
        PROVE  born'[chain'[b][k]] < born'[chain'[b][j]]
    <3>1. CASE b # d
      <4>1. chain'[b] = chain[b] /\ chain[b][j] \in active /\ chain[b][k] \in active
        BY <1>4, <1>6, <3>1
      <4>2. Sorted(chain[b])
        BY DEF IInv, Ordered
      <4>3. name[chain[b][j]] = name[chain[b][k]]
        BY <2>1, <4>1
      <4>4. born[chain[b][k]] < born[chain[b][j]]
        BY <2>1, <4>1, <4>2, <4>3 DEF Sorted
      <4> QED
        BY <4>1, <4>4
    <3>2. CASE b = d
      <4>1. j \in DOMAIN e /\ k \in DOMAIN e /\ k # 1 /\ chain'[b] = e
            /\ j \in Nat /\ k \in Nat
        BY <1>4, <1>5, <2>1, <3>2
      <4>2. k - 1 \in DOMAIN c /\ e[k] = c[k - 1] /\ c[k - 1] \in active
        BY <1>5, <1>7, <4>1
      <4>3. CASE j = 1
        BY <1>5, <1>8, <4>1, <4>2, <4>3
      <4>4. CASE j # 1
        <5>1. j - 1 \in DOMAIN c /\ e[j] = c[j - 1] /\ c[j - 1] \in active
          BY <1>5, <1>7, <4>1, <4>4
        <5>2. Sorted(c)
          BY <1>2 DEF IInv, Ordered, c
        <5>3. j - 1 < k - 1
          BY <2>1, <4>1
        <5> QED
          BY <2>1, <4>1, <4>2, <5>1, <5>2, <5>3 DEF Sorted
      <4> QED
        BY <4>3, <4>4
    <3> QED
      BY <3>1, <3>2
  <2> QED
    BY <1>3, <1>9, <2>1 DEF Ordered, Sorted
<1> QED
  BY <1>10, <1>11, <1>12, <1>13

LEMMA LinkType ==
  ASSUME TableTypeOK, NEW n \in Names, NEW S, NEW i \in S, DOMAIN name \subseteq S,
         Linked(n, i)
  PROVE  /\ chain' \in [Buckets -> Seq(S)]
         /\ load' \in Int /\ count' \in Int /\ unique' \in Int
         /\ chain' = [chain EXCEPT ![Bucket(n)] = <<i>> \o @]
<1> DEFINE d == Bucket(n)
<1>1. \A b \in Buckets : chain[b] \in Seq(S)
  BY Wider DEF TableTypeOK
<1>2. d \in Buckets /\ chain[d] \in Seq(S)
  BY <1>1, BucketType
<1>3. <<i>> \o chain[d] \in Seq(S)
  BY <1>2, Prepended
<1>4. chain' = [chain EXCEPT ![Bucket(n)] = <<i>> \o @]
  BY DEF Linked
<1>5. chain' \in [Buckets -> Seq(S)]
  <2>1. chain \in [Buckets -> Seq(S)]
    BY <1>1 DEF TableTypeOK
  <2> HIDE DEF d
  <2> QED
    BY <1>2, <1>3, <1>4, <2>1 DEF d
<1>6. load' \in Int /\ count' \in Int /\ unique' \in Int
  BY SMTT(30) DEF Linked, TableTypeOK
<1> QED
  BY <1>4, <1>5, <1>6

LEMMA PushStep ==
  ASSUME IInv, NEW n \in Names, PushItem(n)
  PROVE  IInv'
<1> DEFINE i == Len(name) + 1
<1>1. TableTypeOK /\ Linked(n, i)
  BY DEF IInv, PushItem
<1>2. /\ name' = Append(name, n) /\ name \in Seq(Names)
      /\ born' = Append(born, links) /\ born \in Seq(Nat) /\ Len(born) = Len(name)
      /\ links \in Nat /\ links' = links + 1
  <2>1. born \in Seq(0 .. links - 1) /\ links \in Nat
    BY <1>1 DEF TableTypeOK
  <2>2. 0 .. links - 1 \subseteq Nat
    OBVIOUS
  <2> QED
    BY <1>1, <2>1, <2>2, Wider DEF PushItem, TableTypeOK
<1>3. /\ DOMAIN name = 1 .. Len(name) /\ DOMAIN born = DOMAIN name
      /\ Len(name) \in Nat
      /\ active \subseteq DOMAIN name
      /\ \A j \in DOMAIN name : born[j] < links
  BY <1>1, Live
<1>4. /\ name' \in Seq(Names) /\ DOMAIN name' = 1 .. i /\ name'[i] = n
      /\ \A j \in DOMAIN name : name'[j] = name[j]
  BY <1>2, <1>3, Appended
<1>5. /\ born' \in Seq(Nat) /\ DOMAIN born' = 1 .. i /\ born'[i] = links
      /\ \A j \in DOMAIN name : born'[j] = born[j]
  BY <1>2, <1>3, Appended
<1>6. i \in Nat /\ i \in DOMAIN name' /\ DOMAIN name \subseteq DOMAIN name'
      /\ i \notin active
  BY <1>3, <1>4
<1>7. /\ chain' \in [Buckets -> Seq(DOMAIN name')]
      /\ load' \in Int /\ count' \in Int /\ unique' \in Int
      /\ chain' = [chain EXCEPT ![Bucket(n)] = <<i>> \o @]
  BY <1>1, <1>6, LinkType
<1>8. born' \in Seq(0 .. links' - 1) /\ Len(born') = Len(name')
  <2>1. Len(born') = i /\ Len(name') = i
    BY <1>2, <1>3
  <2>2. \A j \in 1 .. i : born'[j] \in 0 .. links' - 1
    BY <1>2, <1>3, <1>5
  <2>3. born' \in Seq(0 .. links' - 1)
    BY <1>5, <2>1, <2>2, Narrower
  <2> QED
    BY <2>1, <2>3
<1>9. old = <<>> /\ old' = <<>> /\ Idle /\ sought' = sought /\ size' = size
      /\ active' = active \cup {i} /\ table' = table /\ found' = found
  BY DEF PushItem, IInv, Waiting
<1> HIDE DEF i
<1>10. TableTypeOK'
  <2>1. old' \in [DOMAIN old' -> Seq(DOMAIN name')]
    <3>1. DOMAIN old' = {}
      BY <1>9
    <3> QED
      BY <1>9, <3>1
  <2>2. Buckets' = Buckets
    BY <1>9 DEF Buckets
  <2>3. active' \subseteq DOMAIN name' /\ found' \in {0} \cup DOMAIN name'
    BY <1>1, <1>3, <1>6, <1>9 DEF TableTypeOK
  <2> QED
    BY <1>1, <1>2, <1>4, <1>7, <1>8, <1>9, <2>1, <2>2, <2>3 DEF TableTypeOK
<1>11. Placed' /\ Waiting' /\ Kept' /\ Ordered'
  BY <1>3, <1>4, <1>5, <1>6, <1>7, <1>9, LinkStep
<1> QED
  BY <1>10, <1>11 DEF IInv

LEMMA RecycleStep ==
  ASSUME IInv, NEW n \in Names, Recycle(n)
  PROVE  IInv'
<1>1. PICK i \in DOMAIN name \ active :
        /\ name' = [name EXCEPT ![i] = n]
        /\ active' = active \cup {i}
        /\ Linked(n, i)
        /\ born' = [born EXCEPT ![i] = links]
  BY DEF Recycle
<1>2. TableTypeOK /\ name \in Seq(Names) /\ born \in Seq(0 .. links - 1)
      /\ links \in Nat /\ links' = links + 1 /\ Len(born) = Len(name)
  BY DEF IInv, TableTypeOK, Recycle
<1>3. /\ DOMAIN name = 1 .. Len(name) /\ DOMAIN born = DOMAIN name
      /\ Len(name) \in Nat
      /\ active \subseteq DOMAIN name
      /\ DOMAIN name \subseteq Nat
      /\ \A j \in DOMAIN name : name[j] \in Names /\ born[j] \in Nat /\ born[j] < links
  BY <1>2, Live
<1>4. /\ DOMAIN name' = DOMAIN name /\ name'[i] = n
      /\ \A j \in DOMAIN name : j # i => name'[j] = name[j]
      /\ name' \in [1 .. Len(name) -> Names]
  BY <1>1, <1>2, <1>3
<1>5. /\ DOMAIN born' = DOMAIN name /\ born'[i] = links
      /\ \A j \in DOMAIN name : j # i => born'[j] = born[j]
      /\ born' \in [1 .. Len(name) -> 0 .. links' - 1]
  BY <1>1, <1>2, <1>3
<1>6. /\ chain' \in [Buckets -> Seq(DOMAIN name)]
      /\ load' \in Int /\ count' \in Int /\ unique' \in Int
      /\ chain' = [chain EXCEPT ![Bucket(n)] = <<i>> \o @]
  BY <1>1, <1>2, LinkType
<1>7. /\ name' \in Seq(Names) /\ Len(name') = Len(name)
      /\ born' \in Seq(0 .. links' - 1) /\ Len(born') = Len(name)
  BY <1>3, <1>4, <1>5, Sequence
<1>8. old = <<>> /\ old' = <<>> /\ Idle /\ sought' = sought /\ size' = size
      /\ table' = table /\ found' = found
  BY DEF Recycle, IInv, Waiting
<1>9. TableTypeOK'
  <2>1. old' \in [DOMAIN old' -> Seq(DOMAIN name')]
    <3>1. DOMAIN old' = {}
      BY <1>8
    <3> QED
      BY <1>8, <3>1
  <2>2. Buckets' = Buckets
    BY <1>8 DEF Buckets
  <2>3. active' \subseteq DOMAIN name' /\ found' \in {0} \cup DOMAIN name'
    BY <1>1, <1>2, <1>3, <1>4, <1>8 DEF TableTypeOK
  <2> QED
    BY <1>2, <1>4, <1>6, <1>7, <1>8, <2>1, <2>2, <2>3, SMTT(30) DEF TableTypeOK
<1>10. Placed' /\ Waiting' /\ Kept' /\ Ordered'
  BY <1>1, <1>3, <1>4, <1>5, <1>6, <1>8, LinkStep
<1> QED
  BY <1>9, <1>10 DEF IInv

-----------------------------------------------------------------------------
(* A deleted item leaves its chain, on which it stands once.               *)

LEMMA UnhashStep ==
  ASSUME IInv, NEW i \in active, Unhash(i)
  PROVE  IInv'
<1> DEFINE d == Bucket(name[i])
          c == chain[d]
<1>1. PICK k \in DOMAIN c :
        /\ c[k] = i /\ chain' = [chain EXCEPT ![d] = Without(@, k)]
        /\ load' = IF k = 1 /\ Len(c) = 1 THEN load - 1 ELSE load
        /\ unique' = IF Has(chain'[d], name[i]) THEN unique ELSE unique - 1
  BY DEF Unhash
<1> DEFINE e == Without(c, k)
          Place(j) == IF j < k THEN j ELSE j + 1
<1>2. TableTypeOK
  BY DEF IInv
<1>3. d \in Buckets /\ c \in Seq(DOMAIN name)
  BY <1>2, Live DEF TableTypeOK
<1>4. /\ e \in Seq(DOMAIN name)
      /\ DOMAIN e = 1 .. Len(c) - 1 /\ DOMAIN c = 1 .. Len(c) /\ Len(c) \in Nat
      /\ \A j \in DOMAIN e : e[j] = IF j < k THEN c[j] ELSE c[j + 1]
  BY <1>3, Removed
<1>5. \A j \in DOMAIN e :
        /\ j \in Nat /\ Place(j) \in DOMAIN c /\ Place(j) # k /\ e[j] = c[Place(j)]
  BY <1>4
<1>6. \A j, m \in DOMAIN e : j < m => Place(j) < Place(m)
  BY <1>4
<1>7. \A m \in DOMAIN c : m # k => \E j \in DOMAIN e : e[j] = c[m]
  <2> SUFFICES ASSUME NEW m \in DOMAIN c, m # k
               PROVE  \E j \in DOMAIN e : e[j] = c[m]
    OBVIOUS
  <2>1. CASE m < k
    BY <1>4, <2>1
  <2>2. CASE m > k
    <3>1. m - 1 \in DOMAIN e /\ ~ (m - 1 < k) /\ (m - 1) + 1 = m
      BY <1>4, <2>2
    <3> QED
      BY <1>4, <3>1
  <2> QED
    BY <1>4, <2>1, <2>2
<1>8. chain'[d] = e /\ \A b \in Buckets : b # d => chain'[b] = chain[b]
  BY <1>1, <1>2, <1>3 DEF TableTypeOK
<1>9. chain' \in [Buckets -> Seq(DOMAIN name)]
  <2>1. chain \in [Buckets -> Seq(DOMAIN name)]
    BY <1>2 DEF TableTypeOK
  <2> HIDE DEF d, e
  <2>2. chain' = [chain EXCEPT ![d] = e]
    BY <1>1 DEF e
  <2> QED
    BY <1>3, <1>4, <2>1, <2>2
<1>10. /\ table' = table /\ size' = size /\ old' = old /\ name' = name
       /\ sought' = sought /\ found' = found /\ born' = born /\ links' = links
       /\ active' = active \ {i} /\ Idle
       /\ count' = count - 1 /\ load' \in Int /\ unique' \in Int
  <2>1. load \in Int /\ unique \in Int
    BY <1>2 DEF TableTypeOK
  <2>2. load' \in Int /\ unique' \in Int
    BY <1>1, <2>1
  <2> QED
    BY <2>2 DEF Unhash
<1>11. old = <<>> /\ DOMAIN old = {}
  BY <1>10 DEF IInv, Waiting
<1>12. \A b \in Buckets : \A j \in DOMAIN chain[b] :
         chain[b][j] \in active /\ Bucket(name[chain[b][j]]) = b
  BY DEF IInv, Placed
<1>13. Sorted(c)
  BY <1>3 DEF IInv, Ordered
<1>14. \A m \in DOMAIN c : m # k => c[m] # i
  <2> SUFFICES ASSUME NEW m \in DOMAIN c, m # k, c[m] = i
               PROVE  FALSE
    OBVIOUS
  <2>1. born[i] \in Nat
    BY <1>2, Live
  <2>2. k < m \/ m < k
    BY <1>4
  <2>3. born[i] < born[i]
    BY <1>1, <1>13, <2>2 DEF Sorted
  <2> QED
    BY <2>1, <2>3
<1> HIDE DEF d, c, e, Place
<1>15. Buckets' = Buckets /\ \A m : Bucket(m)' = Bucket(m)
  BY <1>10 DEF Buckets, Bucket
<1>16. TableTypeOK'
  BY <1>2, <1>9, <1>10, <1>15 DEF TableTypeOK
<1>17. Placed'
  <2> SUFFICES ASSUME NEW b \in Buckets, NEW j \in DOMAIN chain'[b]
               PROVE  chain'[b][j] \in active' /\ Bucket(name[chain'[b][j]]) = b
    BY <1>10, <1>15 DEF Placed
  <2>1. CASE b # d
    <3>1. chain[b][j] \in active /\ Bucket(name[chain[b][j]]) = b
      BY <1>8, <1>12, <2>1
    <3>2. chain[b][j] # i
      BY <2>1, <3>1 DEF d
    <3> QED
      BY <1>8, <1>10, <2>1, <3>1, <3>2
  <2>2. CASE b = d
    <3>1. Place(j) \in DOMAIN c /\ Place(j) # k /\ chain'[b][j] = c[Place(j)]
      BY <1>5, <1>8, <2>2
    <3>2. c[Place(j)] \in active /\ Bucket(name[c[Place(j)]]) = d
      BY <1>3, <1>12, <3>1 DEF c
    <3> QED
      BY <1>10, <1>14, <2>2, <3>1, <3>2
  <2> QED
    BY <2>1, <2>2
<1>18. Waiting'
  BY <1>10, <1>11 DEF Waiting, Idle
<1>19. Kept'
  <2> SUFFICES ASSUME NEW j \in active, j # i
               PROVE  \E m \in DOMAIN chain'[Bucket(name[j])] :
                        chain'[Bucket(name[j])][m] = j
    BY <1>10, <1>15 DEF Kept
  <2>1. PICK m \in DOMAIN chain[Bucket(name[j])] : chain[Bucket(name[j])][m] = j
    BY <1>11 DEF IInv, Kept
  <2>2. Bucket(name[j]) \in Buckets
    BY <1>2, Live
  <2>3. CASE Bucket(name[j]) # d
    BY <1>8, <2>1, <2>2, <2>3
  <2>4. CASE Bucket(name[j]) = d
    <3>1. m \in DOMAIN c /\ c[m] = j /\ m # k
      BY <1>1, <2>1, <2>4 DEF c
    <3> QED
      BY <1>7, <1>8, <2>4, <3>1
  <2> QED
    BY <2>3, <2>4
<1>20. Ordered'
  <2>1. ASSUME NEW b \in Buckets, NEW j \in DOMAIN chain'[b], NEW m \in DOMAIN chain'[b],
               j < m, name[chain'[b][j]] = name[chain'[b][m]]
        PROVE  born[chain'[b][m]] < born[chain'[b][j]]
    <3>1. CASE b # d
      <4>1. chain'[b] = chain[b] /\ Sorted(chain[b])
        BY <1>8, <3>1 DEF IInv, Ordered
      <4> QED
        BY <2>1, <4>1 DEF Sorted
    <3>2. CASE b = d
      <4>1. /\ chain'[b][j] = c[Place(j)] /\ Place(j) \in DOMAIN c
            /\ chain'[b][m] = c[Place(m)] /\ Place(m) \in DOMAIN c
            /\ Place(j) < Place(m)
        BY <1>5, <1>6, <1>8, <2>1, <3>2
      <4> QED
        BY <1>13, <2>1, <4>1 DEF Sorted
    <3> QED
      BY <3>1, <3>2
  <2> QED
    BY <1>10, <1>11, <1>15, <2>1 DEF Ordered, Sorted
<1> QED
  BY <1>16, <1>17, <1>18, <1>19, <1>20 DEF IInv

-----------------------------------------------------------------------------
(* Hashing again                                                           *)

LEMMA StartStep ==
  ASSUME IInv, NEW n \in Names, RehashStart(n)
  PROVE  IInv'
<1>1. TableTypeOK /\ Idle /\ old = <<>> /\ DOMAIN old = {}
  BY DEF IInv, Waiting, RehashStart
<1>2. size' \in Positive
  BY <1>1, TableAssumption DEF RehashStart, TableTypeOK
<1>3. /\ sought' = n /\ old' = chain /\ load' = 0 /\ unique' = 0
      /\ table' = table /\ name' = name /\ active' = active /\ count' = count
      /\ found' = found /\ born' = born /\ links' = links
      /\ chain' = [b \in 0 .. size' - 1 |-> <<>>]
  BY DEF RehashStart
<1>4. Buckets' = 0 .. size' - 1
  BY DEF Buckets
<1>5. DOMAIN <<>> = {} /\ \A S : <<>> \in Seq(S)
  OBVIOUS
<1>6. chain' \in [Buckets' -> Seq(DOMAIN name)]
  BY <1>3, <1>4, <1>5
<1>7. \A b \in Buckets' : chain'[b] = <<>> /\ DOMAIN chain'[b] = {}
  BY <1>3, <1>4, <1>5
<1>8. DOMAIN old' = Buckets /\ old' \in [Buckets -> Seq(DOMAIN name)]
  BY <1>1, <1>3 DEF TableTypeOK
<1>9. TableTypeOK'
  BY <1>1, <1>2, <1>3, <1>6, <1>8 DEF TableTypeOK
<1>10. Placed'
  BY <1>7 DEF Placed
<1>11. \A b \in Buckets : \A k \in DOMAIN old'[b] :
         old'[b][k] \in active /\ Bucket(name[old'[b][k]]) = b
  BY <1>3 DEF IInv, Placed
<1>12. Waiting'
  <2>1. ~ Idle'
    BY <1>3, TableAssumption DEF Idle
  <2>2. \A b1, b2 \in DOMAIN old' :
          \A k1 \in DOMAIN old'[b1] : \A k2 \in DOMAIN old'[b2] :
            name'[old'[b1][k1]] = name'[old'[b2][k2]] => b1 = b2
    <3> SUFFICES ASSUME NEW b1 \in Buckets, NEW b2 \in Buckets,
                        NEW k1 \in DOMAIN old'[b1], NEW k2 \in DOMAIN old'[b2],
                        name[old'[b1][k1]] = name[old'[b2][k2]]
                 PROVE  b1 = b2
      BY <1>3, <1>8
    <3>1. Bucket(name[old'[b1][k1]]) = b1 /\ Bucket(name[old'[b2][k2]]) = b2
      BY <1>11
    <3> QED
      BY <3>1
  <2> QED
    BY <1>3, <1>8, <1>11, <2>1, <2>2 DEF Waiting
<1>13. Kept'
  <2> SUFFICES ASSUME NEW i \in active
               PROVE  \E b \in DOMAIN old' : \E k \in DOMAIN old'[b] : old'[b][k] = i
    BY <1>3 DEF Kept
  <2>1. \E k \in DOMAIN chain[Bucket(name[i])] : chain[Bucket(name[i])][k] = i
    BY <1>1 DEF IInv, Kept
  <2>2. Bucket(name[i]) \in Buckets
    BY <1>1, Live
  <2> QED
    BY <1>3, <1>8, <2>1, <2>2
<1>14. Ordered'
  <2>1. \A b \in Buckets : Sorted(chain[b])
    BY DEF IInv, Ordered
  <2> QED
    BY <1>3, <1>7, <1>8, <2>1 DEF Ordered, Sorted
<1> QED
  BY <1>9, <1>10, <1>12, <1>13, <1>14 DEF IInv

LEMMA ItemStep ==
  ASSUME IInv, RehashItem
  PROVE  IInv'
<1>1. PICK a \in Remaining :
        /\ old' = [old EXCEPT ![a] = Tail(@)]
        /\ chain' = [chain EXCEPT ![Bucket(name[Head(old[a])])] = Append(@, Head(old[a]))]
        /\ load' = IF chain[Bucket(name[Head(old[a])])] = <<>> THEN load + 1 ELSE load
        /\ unique' = IF Has(chain[Bucket(name[Head(old[a])])], name[Head(old[a])])
                     THEN unique ELSE unique + 1
  BY DEF RehashItem
<1> DEFINE q == old[a]
          i == Head(q)
          d == Bucket(name[i])
          c == chain[d]
          e == Append(c, i)
<1>2. TableTypeOK
  BY DEF IInv
<1>3. a \in DOMAIN old /\ q # <<>> /\ q \in Seq(DOMAIN name)
  BY <1>2 DEF Remaining, TableTypeOK
<1>4. /\ Tail(q) \in Seq(DOMAIN name)
      /\ 1 \in DOMAIN q /\ i = q[1]
      /\ DOMAIN q \subseteq Nat
      /\ \A k \in DOMAIN Tail(q) : /\ k \in Nat /\ k + 1 \in DOMAIN q /\ k + 1 > 1
                                  /\ Tail(q)[k] = q[k + 1]
      /\ \A k \in DOMAIN q : k # 1 => k - 1 \in DOMAIN Tail(q) /\ Tail(q)[k - 1] = q[k]
  <2>1. /\ DOMAIN q = 1 .. Len(q) /\ DOMAIN Tail(q) = 1 .. Len(q) - 1
        /\ Len(q) \in Nat
    BY <1>3, Shortened
  <2> QED
    BY <1>3, <2>1, Shortened
<1>5. i \in active
  BY <1>3, <1>4 DEF IInv, Waiting
<1>6. d \in Buckets /\ c \in Seq(DOMAIN name) /\ i \in DOMAIN name
  BY <1>2, <1>5, Live DEF TableTypeOK
<1>7. /\ e \in Seq(DOMAIN name)
      /\ DOMAIN e = 1 .. Len(c) + 1 /\ DOMAIN c = 1 .. Len(c) /\ Len(c) \in Nat
      /\ e[Len(c) + 1] = i
      /\ \A k \in DOMAIN c : k \in DOMAIN e /\ e[k] = c[k]
  BY <1>6, Appended
<1>8. chain'[d] = e /\ \A b \in Buckets : b # d => chain'[b] = chain[b]
  BY <1>1, <1>2, <1>6 DEF TableTypeOK
<1>9. /\ DOMAIN old' = DOMAIN old
      /\ old'[a] = Tail(q)
      /\ \A b \in DOMAIN old : b # a => old'[b] = old[b]
  BY <1>1, <1>2, <1>3 DEF TableTypeOK
<1>10. chain' \in [Buckets -> Seq(DOMAIN name)]
  <2>1. chain \in [Buckets -> Seq(DOMAIN name)]
    BY <1>2 DEF TableTypeOK
  <2> HIDE DEF d, e
  <2>2. chain' = [chain EXCEPT ![d] = e]
    BY <1>1 DEF d, e
  <2> QED
    BY <1>6, <1>7, <2>1, <2>2
<1>11. old' \in [DOMAIN old' -> Seq(DOMAIN name)]
  BY <1>1, <1>2, <1>3, <1>4 DEF TableTypeOK
<1>12. load' \in Int /\ unique' \in Int
  <2>1. load \in Int /\ unique \in Int
    BY <1>2 DEF TableTypeOK
  <2> QED
    BY <1>1, <2>1
<1>13. /\ table' = table /\ size' = size /\ name' = name /\ active' = active
       /\ sought' = sought /\ found' = found /\ born' = born /\ links' = links
       /\ count' = count /\ ~ Idle
  BY DEF RehashItem
<1> HIDE DEF q, i, d, c, e
<1>14. Buckets' = Buckets /\ \A m : Bucket(m)' = Bucket(m)
  BY <1>13 DEF Buckets, Bucket
<1>15. TableTypeOK'
  BY <1>2, <1>10, <1>11, <1>12, <1>13, <1>14 DEF TableTypeOK
<1>16. \A b \in Buckets : \A k \in DOMAIN chain[b] :
         chain[b][k] \in active /\ Bucket(name[chain[b][k]]) = b
  BY DEF IInv, Placed
(* What stood on a chain stays there; one item is added to one chain.      *)
<1>17. ASSUME NEW b \in Buckets, NEW k \in DOMAIN chain'[b]
       PROVE  \/ k \in DOMAIN chain[b] /\ chain'[b][k] = chain[b][k]
              \/ b = d /\ k = Len(c) + 1 /\ chain'[b][k] = i
  <2>1. CASE b # d
    BY <1>8, <2>1
  <2>2. CASE b = d
    <3>1. k \in 1 .. Len(c) + 1
      BY <1>7, <1>8, <2>2
    <3>2. k \in DOMAIN c \/ k = Len(c) + 1
      BY <1>7, <3>1
    <3> QED
      BY <1>7, <1>8, <2>2, <3>2 DEF c
  <2> QED
    BY <2>1, <2>2
(* What waits has waited before.                                           *)
<1>18. ASSUME NEW b \in DOMAIN old, NEW k \in DOMAIN old'[b]
       PROVE  \E m \in DOMAIN old[b] : old'[b][k] = old[b][m] /\ (b = a => m > 1)
  <2>1. CASE b # a
    BY <1>9, <2>1
  <2>2. CASE b = a
    <3>1. k + 1 \in DOMAIN q /\ k + 1 > 1 /\ old'[b][k] = q[k + 1]
      BY <1>4, <1>9, <2>2
    <3> QED
      BY <2>2, <3>1 DEF q
  <2> QED
    BY <2>1, <2>2
<1>19. Placed'
  BY <1>5, <1>13, <1>14, <1>16, <1>17 DEF Placed, d
<1>20. Waiting'
  <2>1. ASSUME NEW b \in DOMAIN old, NEW k \in DOMAIN old'[b]
        PROVE  old'[b][k] \in active
    BY <1>18 DEF IInv, Waiting
  <2>2. ASSUME NEW b1 \in DOMAIN old, NEW b2 \in DOMAIN old,
               NEW k1 \in DOMAIN old'[b1], NEW k2 \in DOMAIN old'[b2],
               name[old'[b1][k1]] = name[old'[b2][k2]]
        PROVE  b1 = b2
    <3>1. PICK m1 \in DOMAIN old[b1] : old'[b1][k1] = old[b1][m1]
      BY <1>18
    <3>2. PICK m2 \in DOMAIN old[b2] : old'[b2][k2] = old[b2][m2]
      BY <1>18
    <3> QED
      BY <2>2, <3>1, <3>2 DEF IInv, Waiting
  <2>3. ~ Idle'
    BY <1>13 DEF Idle
  <2> QED
    BY <1>9, <1>13, <2>1, <2>2, <2>3 DEF Waiting
<1>21. Kept'
  <2> SUFFICES ASSUME NEW j \in active
               PROVE  \/ \E k \in DOMAIN chain'[Bucket(name[j])] :
                            chain'[Bucket(name[j])][k] = j
                      \/ \E b \in DOMAIN old : \E k \in DOMAIN old'[b] : old'[b][k] = j
    BY <1>9, <1>13, <1>14 DEF Kept
  <2>1. Bucket(name[j]) \in Buckets
    BY <1>2, Live
  <2>2. ASSUME NEW k \in DOMAIN chain[Bucket(name[j])], chain[Bucket(name[j])][k] = j
        PROVE  \E m \in DOMAIN chain'[Bucket(name[j])] : chain'[Bucket(name[j])][m] = j
    <3>1. CASE Bucket(name[j]) # d
      BY <1>8, <2>1, <2>2, <3>1
    <3>2. CASE Bucket(name[j]) = d
      <4>1. k \in DOMAIN c /\ c[k] = j
        BY <2>2, <3>2 DEF c
      <4>2. k \in DOMAIN e /\ e[k] = j
        BY <1>7, <4>1
      <4> QED
        BY <1>8, <3>2, <4>2
    <3> QED
      BY <3>1, <3>2
  <2>3. ASSUME NEW b \in DOMAIN old, NEW k \in DOMAIN old[b], old[b][k] = j
        PROVE  \/ \E m \in DOMAIN chain'[Bucket(name[j])] : chain'[Bucket(name[j])][m] = j
               \/ \E m \in DOMAIN old'[b] : old'[b][m] = j
    <3>1. CASE b # a
      BY <1>9, <2>3, <3>1
    <3>2. CASE b = a /\ k # 1
      <4>1. k - 1 \in DOMAIN Tail(q) /\ Tail(q)[k - 1] = j
        BY <1>4, <2>3, <3>2 DEF q
      <4> QED
        BY <1>9, <3>2, <4>1
    <3>3. CASE b = a /\ k = 1
      <4>1. j = i /\ Bucket(name[j]) = d
        BY <1>4, <2>3, <3>3 DEF q, d
      <4>2. Len(c) + 1 \in DOMAIN e
        BY <1>7
      <4> QED
        BY <1>7, <1>8, <4>1, <4>2
    <3> QED
      BY <3>1, <3>2, <3>3
  <2> QED
    BY <2>2, <2>3 DEF IInv, Kept
<1>22. Ordered'
  <2>1. /\ \A b \in Buckets : Sorted(chain[b])
        /\ \A b \in DOMAIN old : Sorted(old[b])
        /\ \A b \in Buckets : \A k \in DOMAIN chain[b] :
             \A r \in DOMAIN old : \A j \in DOMAIN old[r] :
               name[chain[b][k]] = name[old[r][j]] =>
                 born[old[r][j]] < born[chain[b][k]]
    BY DEF IInv, Ordered
  <2>2. ASSUME NEW b \in Buckets, NEW j \in DOMAIN chain'[b], NEW k \in DOMAIN chain'[b],
               j < k, name[chain'[b][j]] = name[chain'[b][k]]
        PROVE  born[chain'[b][k]] < born[chain'[b][j]]
    <3>1. CASE b # d
      BY <1>8, <2>1, <2>2, <3>1 DEF Sorted
    <3>2. CASE b = d
      <4>1. j \in 1 .. Len(c) + 1 /\ k \in 1 .. Len(c) + 1
        BY <1>7, <1>8, <3>2
      <4>2. j \in DOMAIN c
        BY <1>7, <2>2, <4>1
      <4>3. chain'[b][j] = c[j]
        BY <1>7, <1>8, <3>2, <4>2
      <4>4. CASE k \in DOMAIN c
        <5>1. chain'[b][k] = c[k]
          BY <1>7, <1>8, <3>2, <4>4
        <5>2. Sorted(c)
          BY <1>6, <2>1 DEF c
        <5> QED
          BY <2>2, <4>2, <4>3, <4>4, <5>1, <5>2 DEF Sorted
      <4>5. CASE k = Len(c) + 1
        <5>1. chain'[b][k] = i /\ i = old[a][1] /\ 1 \in DOMAIN old[a]
          BY <1>4, <1>7, <1>8, <3>2, <4>5 DEF q
        <5>2. j \in DOMAIN chain[d] /\ c[j] = chain[d][j]
          BY <4>2 DEF c
        <5>3. born[i] < born[c[j]]
          BY <1>3, <1>6, <2>1, <2>2, <4>3, <5>1, <5>2
        <5> QED
          BY <4>3, <5>1, <5>3
      <4> QED
        BY <1>7, <4>1, <4>4, <4>5
    <3> QED
      BY <3>1, <3>2
  <2>3. ASSUME NEW b \in DOMAIN old, NEW j \in DOMAIN old'[b], NEW k \in DOMAIN old'[b],
               j < k, name[old'[b][j]] = name[old'[b][k]]
        PROVE  born[old'[b][k]] < born[old'[b][j]]
    <3>1. CASE b # a
      <4>1. old'[b] = old[b] /\ Sorted(old[b])
        BY <1>9, <2>1, <3>1
      <4> QED
        BY <2>3, <4>1 DEF Sorted
    <3>2. CASE b = a
      <4>1. old'[b] = Tail(q) /\ Sorted(q)
        BY <1>3, <1>9, <2>1, <3>2 DEF q
      <4>2. /\ j + 1 \in DOMAIN q /\ Tail(q)[j] = q[j + 1]
            /\ k + 1 \in DOMAIN q /\ Tail(q)[k] = q[k + 1]
            /\ j + 1 < k + 1
        BY <1>4, <2>3, <4>1
      <4> QED
        BY <2>3, <4>1, <4>2 DEF Sorted
    <3> QED
      BY <3>1, <3>2
  <2>4. ASSUME NEW b \in Buckets, NEW k \in DOMAIN chain'[b],
               NEW r \in DOMAIN old, NEW j \in DOMAIN old'[r],
               name[chain'[b][k]] = name[old'[r][j]]
        PROVE  born[old'[r][j]] < born[chain'[b][k]]
    <3>1. PICK m \in DOMAIN old[r] : old'[r][j] = old[r][m] /\ (r = a => m > 1)
      BY <1>18
    <3>2. CASE k \in DOMAIN chain[b] /\ chain'[b][k] = chain[b][k]
      BY <2>1, <2>4, <3>1, <3>2
    <3>3. CASE chain'[b][k] = i
      <4>1. i = old[a][1] /\ 1 \in DOMAIN old[a]
        BY <1>4 DEF q
      <4>2. r = a
        BY <1>3, <2>4, <3>1, <3>3, <4>1 DEF IInv, Waiting
      <4>3. Sorted(old[a]) /\ 1 < m
        BY <1>3, <2>1, <3>1, <4>2, <1>4 DEF q
      <4> QED
        BY <2>4, <3>1, <3>3, <4>1, <4>2, <4>3 DEF Sorted
    <3> QED
      BY <1>17, <3>2, <3>3
  <2> QED
    BY <1>9, <1>13, <1>14, <2>2, <2>3, <2>4 DEF Ordered, Sorted
<1> QED
  BY <1>15, <1>19, <1>20, <1>21, <1>22 DEF IInv

LEMMA DoneStep ==
  ASSUME IInv, RehashDone
  PROVE  IInv' /\ Latest(sought, found')
<1>1. PICK i \in {0} \cup active : IsFirst(chain[Bucket(sought)], sought, i) /\ found' = i
  BY DEF RehashDone
<1>2. /\ old' = <<>> /\ sought' = NoName /\ ~ Idle
      /\ table' = table /\ size' = size /\ name' = name /\ active' = active
      /\ chain' = chain /\ load' = load /\ count' = count /\ unique' = unique
      /\ born' = born /\ links' = links
      /\ \A b \in DOMAIN old : old[b] = <<>>
  BY DEF RehashDone, Remaining
<1>3. TableTypeOK /\ sought \in Names
  BY <1>2 DEF IInv, TableTypeOK, Idle
<1>4. Latest(sought, found')
  BY <1>1, <1>2, <1>3, SearchFinds
<1>5. DOMAIN <<>> = {}
  OBVIOUS
<1>6. Buckets' = Buckets /\ \A m : Bucket(m)' = Bucket(m)
  BY <1>2 DEF Buckets, Bucket
<1>7. TableTypeOK'
  <2>1. found' \in {0} \cup DOMAIN name
    BY <1>1, <1>3 DEF TableTypeOK
  <2>2. old' \in [DOMAIN old' -> Seq(DOMAIN name)]
    BY <1>2, <1>5
  <2> QED
    BY <1>2, <1>3, <1>6, <2>1, <2>2 DEF TableTypeOK
<1>8. Placed'
  BY <1>2, <1>6 DEF IInv, Placed
<1>9. Waiting'
  BY <1>2, <1>5 DEF Waiting
<1>10. Kept'
  <2>1. \A b \in DOMAIN old : DOMAIN old[b] = {}
    BY <1>2, <1>5
  <2>2. \A j \in active : \E k \in DOMAIN chain[Bucket(name[j])] :
                           chain[Bucket(name[j])][k] = j
    BY <2>1 DEF IInv, Kept
  <2> QED
    BY <1>2, <1>6, <2>2 DEF Kept
<1>11. Ordered'
  BY <1>2, <1>5, <1>6 DEF IInv, Ordered, Sorted
<1> QED
  BY <1>4, <1>7, <1>8, <1>9, <1>10, <1>11 DEF IInv

LEMMA LookStep ==
  ASSUME IInv, NEW n \in Names, Look(n)
  PROVE  IInv' /\ Latest(n, found')
<1>1. PICK i \in {0} \cup active : IsFirst(chain[Bucket(n)], n, i) /\ found' = i
  BY DEF Look
<1>2. /\ Idle
      /\ UNCHANGED <<table, size, chain, old, name, active, load, count, unique,
                     sought, born, links>>
  BY DEF Look
<1>3. old = <<>> /\ DOMAIN old = {}
  BY <1>2 DEF IInv, Waiting
<1>4. Latest(n, found')
  BY <1>1, <1>3, SearchFinds
<1>5. found' \in {0} \cup DOMAIN name
  BY <1>1 DEF IInv, TableTypeOK
<1>6. Buckets' = Buckets /\ \A m : Bucket(m)' = Bucket(m)
  BY <1>2 DEF Buckets, Bucket
<1>7. TableTypeOK'
  BY <1>2, <1>5, <1>6 DEF IInv, TableTypeOK
<1>8. Placed' /\ Waiting' /\ Kept' /\ Ordered'
  BY <1>2, <1>6 DEF IInv, Placed, Waiting, Idle, Kept, Ordered, Sorted
<1> QED
  BY <1>4, <1>7, <1>8 DEF IInv

LEMMA StutterStep ==
  ASSUME IInv, UNCHANGED tableVars
  PROVE  IInv'
<1>1. Buckets' = Buckets /\ \A m : Bucket(m)' = Bucket(m)
  BY DEF tableVars, Buckets, Bucket
<1>2. TableTypeOK'
  BY <1>1 DEF tableVars, IInv, TableTypeOK
<1>3. Placed' /\ Kept'
  BY <1>1 DEF tableVars, IInv, Placed, Kept
<1>4. Waiting'
  BY DEF tableVars, IInv, Waiting, Idle
<1>5. Ordered'
  BY <1>1 DEF tableVars, IInv, Ordered, Sorted
<1> QED
  BY <1>2, <1>3, <1>4, <1>5 DEF IInv

LEMMA NextStep ==
  ASSUME IInv, TableNext
  PROVE  IInv'
<1>1. CASE \E n \in Names : PushItem(n) \/ Recycle(n) \/ Look(n) \/ RehashStart(n)
  BY <1>1, PushStep, RecycleStep, LookStep, StartStep
<1>2. CASE \E i \in active : Unhash(i)
  BY <1>2, UnhashStep
<1>3. CASE RehashItem
  BY <1>3, ItemStep
<1>4. CASE RehashDone
  BY <1>4, DoneStep
<1> QED
  BY <1>1, <1>2, <1>3, <1>4 DEF TableNext

-----------------------------------------------------------------------------
(* The counters                                                            *)

Filled == {b \in Buckets : chain[b] # <<>>}
Named == {n \in Names : Has(chain[Bucket(n)], n)}

(* What the counters count, and that it is finite.                         *)
CountsInv ==
  /\ IsFiniteSet(active) /\ count = Cardinality(active)
  /\ IsFiniteSet(Named) /\ unique = Cardinality(Named)
  /\ load = Cardinality(Filled)

LEMMA FilledFinite ==
  ASSUME TableTypeOK
  PROVE  IsFiniteSet(Filled)
<1>1. size \in Int
  BY DEF TableTypeOK, Positive
<1>2. IsFiniteSet(Buckets)
  BY <1>1, FS_Interval DEF Buckets
<1> QED
  BY <1>2, FS_Subset DEF Filled

LEMMA OneMore ==
  ASSUME NEW S, NEW x, NEW number, IsFiniteSet(S), number = Cardinality(S)
  PROVE  /\ IsFiniteSet(S \cup {x})
         /\ Cardinality(S \cup {x}) = IF x \in S THEN number ELSE number + 1
BY FS_AddElement

LEMMA OneLess ==
  ASSUME NEW S, NEW x, NEW number, IsFiniteSet(S), number = Cardinality(S)
  PROVE  /\ IsFiniteSet(S \ {x})
         /\ Cardinality(S \ {x}) = IF x \in S THEN number - 1 ELSE number
BY FS_RemoveElement

(* An item i of name n is added to the chain e of bucket d.                *)
LEMMA AddedName ==
  ASSUME IInv, NEW d \in Buckets, NEW i, NEW e, NEW n \in Names,
         size' = size, chain'[d] = e,
         \A b \in Buckets : b # d => chain'[b] = chain[b],
         \A j \in active : name'[j] = name[j],
         name'[i] = n, Bucket(n) = d,
         \E m \in DOMAIN e : e[m] = i,
         \A k \in DOMAIN chain[d] : \E m \in DOMAIN e : e[m] = chain[d][k],
         \A m \in DOMAIN e : e[m] = i \/ \E k \in DOMAIN chain[d] : e[m] = chain[d][k]
  PROVE  Named' = Named \cup {n}
<1>1. TableTypeOK
  BY DEF IInv
<1>2. Buckets' = Buckets /\ \A m : Bucket(m)' = Bucket(m)
  BY DEF Buckets, Bucket
<1>3. ASSUME NEW r \in Names
      PROVE  r \in Named' <=> r \in Named \/ r = n
  <2>1. r \in Named <=> \E k \in DOMAIN chain[Bucket(r)] : name[chain[Bucket(r)][k]] = r
    BY DEF Named, Has
  <2>2. r \in Named' <=>
          \E k \in DOMAIN chain'[Bucket(r)] : name'[chain'[Bucket(r)][k]] = r
    BY <1>2 DEF Named, Has
  <2>3. Bucket(r) \in Buckets
    BY <1>1, BucketType
  <2>4. \A k \in DOMAIN chain[Bucket(r)] : chain[Bucket(r)][k] \in active
    BY <2>3 DEF IInv, Placed
  <2>5. CASE Bucket(r) # d
    BY <2>1, <2>2, <2>3, <2>4, <2>5
  <2>6. CASE Bucket(r) = d
    <3>1. ASSUME NEW k \in DOMAIN e, name'[e[k]] = r
          PROVE  r = n \/ \E m \in DOMAIN chain[d] : name[chain[d][m]] = r
      <4>1. CASE e[k] = i
        BY <3>1, <4>1
      <4>2. ASSUME NEW m \in DOMAIN chain[d], e[k] = chain[d][m]
            PROVE  name[chain[d][m]] = r
        BY <2>4, <2>6, <3>1, <4>2
      <4> QED
        BY <4>1, <4>2
    <3>2. ASSUME NEW k \in DOMAIN chain[d], name[chain[d][k]] = r
          PROVE  \E m \in DOMAIN e : name'[e[m]] = r
      <4>1. PICK m \in DOMAIN e : e[m] = chain[d][k]
        OBVIOUS
      <4> QED
        BY <2>4, <2>6, <3>2, <4>1
    <3> QED
      BY <2>1, <2>2, <2>6, <3>1, <3>2
  <2> QED
    BY <2>5, <2>6
<1>4. Named' \subseteq Names /\ Named \subseteq Names
  BY DEF Named
<1> QED
  BY <1>3, <1>4

LEMMA AddedCounts ==
  ASSUME IInv, CountsInv, NEW d \in Buckets, NEW n \in Names, Bucket(n) = d,
         size' = size, chain'[d] # <<>>,
         \A b \in Buckets : b # d => chain'[b] = chain[b],
         Named' = Named \cup {n},
         load' = IF chain[d] = <<>> THEN load + 1 ELSE load,
         unique' = IF Has(chain[d], n) THEN unique ELSE unique + 1
  PROVE  /\ load' = Cardinality(Filled')
         /\ unique' = Cardinality(Named') /\ IsFiniteSet(Named')
<1>1. Filled' = Filled \cup {d}
  <2>1. Buckets' = Buckets
    BY DEF Buckets
  <2> QED
    BY <2>1 DEF Filled
<1>2. IsFiniteSet(Filled) /\ load = Cardinality(Filled)
  BY FilledFinite DEF CountsInv, IInv
<1>3. d \in Filled <=> chain[d] # <<>>
  BY DEF Filled
<1>4. n \in Named <=> Has(chain[d], n)
  BY DEF Named
<1>5. IsFiniteSet(Named) /\ unique = Cardinality(Named)
  BY DEF CountsInv
<1>6. load' = Cardinality(Filled')
  <2>1. Cardinality(Filled \cup {d}) = IF d \in Filled THEN load ELSE load + 1
    BY <1>2, OneMore
  <2> QED
    BY <1>1, <1>3, <2>1
<1>7. /\ IsFiniteSet(Named \cup {n})
      /\ Cardinality(Named \cup {n}) = IF n \in Named THEN unique ELSE unique + 1
  BY <1>5, OneMore
<1> QED
  BY <1>4, <1>6, <1>7

LEMMA LinkCounts ==
  ASSUME IInv, CountsInv, size' = size,
         NEW n \in Names, NEW i \in Nat, i \notin active,
         active' = active \cup {i},
         \A j \in active : name'[j] = name[j],
         name'[i] = n, Linked(n, i)
  PROVE  CountsInv'
<1> DEFINE d == Bucket(n)
          c == chain[d]
          e == <<i>> \o c
<1>1. TableTypeOK
  BY DEF IInv
<1>2. d \in Buckets /\ c \in Seq(Nat)
  BY <1>1, BucketType, Live
<1>3. chain'[d] = e /\ \A b \in Buckets : b # d => chain'[b] = chain[b]
  BY <1>1, <1>2 DEF TableTypeOK, Linked
<1>4. /\ DOMAIN e = 1 .. Len(c) + 1 /\ DOMAIN c = 1 .. Len(c) /\ Len(c) \in Nat
      /\ e[1] = i
      /\ \A k \in DOMAIN c : k + 1 \in DOMAIN e /\ e[k + 1] = c[k]
      /\ \A k \in DOMAIN e : k # 1 => k - 1 \in DOMAIN c /\ e[k] = c[k - 1]
  BY <1>2, Prepended, SMTT(30)
<1>5. /\ load' = IF c = <<>> THEN load + 1 ELSE load
      /\ unique' = IF Has(c, n) THEN unique ELSE unique + 1
      /\ count' = count + 1
  BY DEF Linked
<1> HIDE DEF c, e
<1>6. 1 \in DOMAIN e
  BY <1>4
<1>7. e # <<>>
  <2>1. DOMAIN <<>> = {}
    OBVIOUS
  <2> QED
    BY <1>6, <2>1
<1>8. count' = Cardinality(active') /\ IsFiniteSet(active')
  BY <1>5, FS_AddElement DEF CountsInv
<1>9. Named' = Named \cup {n}
  <2>1. name'[i] = n /\ Bucket(n) = d
    OBVIOUS
  <2>2. \A k \in DOMAIN chain[d] : \E m \in DOMAIN e : e[m] = chain[d][k]
    BY <1>4 DEF c
  <2>3. \A m \in DOMAIN e : e[m] = i \/ \E k \in DOMAIN chain[d] : e[m] = chain[d][k]
    BY <1>4 DEF c
  <2>4. \E m \in DOMAIN e : e[m] = i
    BY <1>4, <1>6
  <2>5. /\ d \in Buckets /\ size' = size /\ chain'[d] = e
        /\ \A b \in Buckets : b # d => chain'[b] = chain[b]
        /\ \A j \in active : name'[j] = name[j]
    BY <1>2, <1>3
  <2> HIDE DEF d
  <2>6. IInv /\ CountsInv
    OBVIOUS
  <2> QED
    BY <2>1, <2>2, <2>3, <2>4, <2>5, <2>6, AddedName
<1>10. /\ load' = Cardinality(Filled')
       /\ unique' = Cardinality(Named') /\ IsFiniteSet(Named')
  <2>1. d \in Buckets /\ Bucket(n) = d /\ chain'[d] # <<>>
        /\ \A b \in Buckets : b # d => chain'[b] = chain[b]
    BY <1>2, <1>3, <1>7
  <2>2. /\ load' = IF chain[d] = <<>> THEN load + 1 ELSE load
        /\ unique' = IF Has(chain[d], n) THEN unique ELSE unique + 1
    BY <1>5 DEF c
  <2> HIDE DEF d
  <2> QED
    BY <1>9, <2>1, <2>2, AddedCounts
<1> QED
  BY <1>8, <1>10 DEF CountsInv

LEMMA ItemCounts ==
  ASSUME IInv, CountsInv, RehashItem
  PROVE  CountsInv'
<1>1. PICK a \in Remaining :
        /\ chain' = [chain EXCEPT ![Bucket(name[Head(old[a])])] = Append(@, Head(old[a]))]
        /\ load' = IF chain[Bucket(name[Head(old[a])])] = <<>> THEN load + 1 ELSE load
        /\ unique' = IF Has(chain[Bucket(name[Head(old[a])])], name[Head(old[a])])
                     THEN unique ELSE unique + 1
  BY DEF RehashItem
<1> DEFINE i == Head(old[a])
          d == Bucket(name[i])
          c == chain[d]
          e == Append(c, i)
<1>2. TableTypeOK
  BY DEF IInv
<1>3. i \in active
  <2>1. a \in DOMAIN old /\ old[a] # <<>> /\ old[a] \in Seq(DOMAIN name)
    BY <1>2 DEF Remaining, TableTypeOK
  <2>2. 1 \in DOMAIN old[a] /\ i = old[a][1]
    BY <2>1, Shortened
  <2> QED
    BY <2>1, <2>2 DEF IInv, Waiting
<1>4. d \in Buckets /\ c \in Seq(DOMAIN name) /\ i \in DOMAIN name /\ name[i] \in Names
  BY <1>2, <1>3, Live DEF TableTypeOK
<1>5. chain'[d] = e /\ \A b \in Buckets : b # d => chain'[b] = chain[b]
  BY <1>1, <1>2, <1>4 DEF TableTypeOK
<1>6. /\ DOMAIN e = 1 .. Len(c) + 1 /\ DOMAIN c = 1 .. Len(c) /\ Len(c) \in Nat
      /\ e[Len(c) + 1] = i
      /\ \A k \in DOMAIN c : k \in DOMAIN e /\ e[k] = c[k]
  BY <1>4, Appended
<1>7. size' = size /\ name' = name /\ active' = active /\ count' = count
  BY DEF RehashItem
<1> HIDE DEF i, d, c, e
<1>8. Len(c) + 1 \in DOMAIN e /\ \A m \in DOMAIN e : e[m] = i \/ m \in DOMAIN c
  BY <1>6
<1>9. e # <<>>
  <2>1. DOMAIN <<>> = {}
    OBVIOUS
  <2> QED
    BY <1>8, <2>1
<1> DEFINE n == name[i]
<1>10. n \in Names /\ Bucket(n) = d
  BY <1>4 DEF d
<1>11. name'[i] = n /\ size' = size /\ \A j \in active : name'[j] = name[j]
  BY <1>7
<1>12. /\ load' = IF chain[d] = <<>> THEN load + 1 ELSE load
       /\ unique' = IF Has(chain[d], n) THEN unique ELSE unique + 1
  BY <1>1 DEF i, d
<1> HIDE DEF n
<1>13. Named' = Named \cup {n}
  <2>1. \A m \in DOMAIN e : e[m] = i \/ \E k \in DOMAIN chain[d] : e[m] = chain[d][k]
    BY <1>6, <1>8 DEF c
  <2>2. \A k \in DOMAIN chain[d] : \E m \in DOMAIN e : e[m] = chain[d][k]
    BY <1>6 DEF c
  <2>3. \E m \in DOMAIN e : e[m] = i
    BY <1>6, <1>8
  <2>4. d \in Buckets /\ chain'[d] = e /\ \A b \in Buckets : b # d => chain'[b] = chain[b]
    BY <1>4, <1>5
  <2> QED
    BY <1>10, <1>11, <2>1, <2>2, <2>3, <2>4, AddedName
<1>14. /\ load' = Cardinality(Filled')
       /\ unique' = Cardinality(Named') /\ IsFiniteSet(Named')
  BY <1>4, <1>5, <1>9, <1>10, <1>11, <1>12, <1>13, AddedCounts
<1> QED
  BY <1>7, <1>14 DEF CountsInv

LEMMA UnhashCounts ==
  ASSUME IInv, CountsInv, NEW i \in active, Unhash(i)
  PROVE  CountsInv'
<1> DEFINE n == name[i]
          d == Bucket(n)
          c == chain[d]
<1>1. PICK k \in DOMAIN c :
        /\ c[k] = i /\ chain' = [chain EXCEPT ![d] = Without(@, k)]
        /\ load' = IF k = 1 /\ Len(c) = 1 THEN load - 1 ELSE load
        /\ unique' = IF Has(chain'[d], n) THEN unique ELSE unique - 1
  BY DEF Unhash
<1> DEFINE e == Without(c, k)
<1>2. TableTypeOK
  BY DEF IInv
<1>3. d \in Buckets /\ c \in Seq(DOMAIN name) /\ n \in Names
  BY <1>2, Live DEF TableTypeOK
<1>4. /\ e \in Seq(DOMAIN name)
      /\ DOMAIN e = 1 .. Len(c) - 1 /\ DOMAIN c = 1 .. Len(c) /\ Len(c) \in Nat
      /\ \A j \in DOMAIN e : e[j] = IF j < k THEN c[j] ELSE c[j + 1]
  BY <1>3, Removed
<1>5. \A j \in DOMAIN e : \E m \in DOMAIN c : e[j] = c[m]
  <2> SUFFICES ASSUME NEW j \in DOMAIN e
               PROVE  \E m \in DOMAIN c : e[j] = c[m]
    OBVIOUS
  <2>1. j \in DOMAIN c /\ j + 1 \in DOMAIN c
    BY <1>4
  <2> QED
    BY <1>4, <2>1
<1>6. \A m \in DOMAIN c : m # k => \E j \in DOMAIN e : e[j] = c[m]
  <2> SUFFICES ASSUME NEW m \in DOMAIN c, m # k
               PROVE  \E j \in DOMAIN e : e[j] = c[m]
    OBVIOUS
  <2>1. CASE m < k
    BY <1>4, <2>1
  <2>2. CASE m > k
    <3>1. m - 1 \in DOMAIN e /\ ~ (m - 1 < k) /\ (m - 1) + 1 = m
      BY <1>4, <2>2
    <3> QED
      BY <1>4, <3>1
  <2> QED
    BY <1>4, <2>1, <2>2
<1>7. chain'[d] = e /\ \A b \in Buckets : b # d => chain'[b] = chain[b]
  BY <1>1, <1>2, <1>3 DEF TableTypeOK
<1>8. /\ size' = size /\ name' = name /\ active' = active \ {i} /\ count' = count - 1
  BY DEF Unhash
<1> HIDE DEF n, d, c, e
<1>9. Buckets' = Buckets /\ \A m : Bucket(m)' = Bucket(m)
  BY <1>8 DEF Buckets, Bucket
<1>10. count' = Cardinality(active') /\ IsFiniteSet(active')
  BY <1>8, OneLess DEF CountsInv
<1>11. load' = Cardinality(Filled')
  <2>1. e = <<>> <=> (k = 1 /\ Len(c) = 1)
    <3>1. DOMAIN <<>> = {} /\ \A z \in Seq(DOMAIN name) : DOMAIN z = {} => z = <<>>
      OBVIOUS
    <3>2. e = <<>> <=> Len(c) = 1
      BY <1>4, <3>1
    <3> QED
      BY <1>4, <3>2
  <2>2. d \in Filled
    <3>1. c # <<>>
      <4>1. DOMAIN <<>> = {}
        OBVIOUS
      <4> QED
        BY <4>1
    <3> QED
      BY <1>3, <3>1 DEF Filled, c
  <2>3. Filled' = IF e = <<>> THEN Filled \ {d} ELSE Filled
    <3>1. Filled' = {b \in Buckets : chain'[b] # <<>>}
      BY <1>9 DEF Filled
    <3>2. CASE e = <<>>
      BY <1>7, <3>1, <3>2 DEF Filled
    <3>3. CASE e # <<>>
      BY <1>7, <2>2, <3>1, <3>3 DEF Filled
    <3> QED
      BY <3>2, <3>3
  <2>4. IsFiniteSet(Filled) /\ load = Cardinality(Filled)
    BY <1>2, FilledFinite DEF CountsInv
  <2>5. Cardinality(Filled \ {d}) = load - 1
    BY <2>2, <2>4, OneLess
  <2> QED
    BY <1>1, <2>1, <2>3, <2>4, <2>5
<1>12. unique' = Cardinality(Named') /\ IsFiniteSet(Named')
  <2>1. n \in Named
    BY <1>1, <1>3 DEF Named, Has, n, d, c
  <2>2. Named' = {r \in Names : \E j \in DOMAIN chain'[Bucket(r)] :
                                   name[chain'[Bucket(r)][j]] = r}
    BY <1>8, <1>9 DEF Named, Has
  <2>3. n \in Named' <=> Has(chain'[d], n)
    BY <1>3, <2>2 DEF Has, d
  <2>4. ASSUME NEW r \in Names, r # n
        PROVE  r \in Named' <=> r \in Named
    <3>1. Bucket(r) \in Buckets
      BY <1>2, BucketType
    <3>2. r \in Named <=> \E j \in DOMAIN chain[Bucket(r)] : name[chain[Bucket(r)][j]] = r
      BY DEF Named, Has
    <3>3. CASE Bucket(r) # d
      BY <1>7, <2>2, <3>1, <3>2, <3>3
    <3>4. CASE Bucket(r) = d
      <4>1. ASSUME NEW j \in DOMAIN c, name[c[j]] = r
            PROVE  \E m \in DOMAIN e : name[e[m]] = r
        <5>1. j # k
          BY <1>1, <2>4, <4>1 DEF n
        <5> QED
          BY <1>6, <4>1, <5>1
      <4>2. ASSUME NEW j \in DOMAIN e, name[e[j]] = r
            PROVE  \E m \in DOMAIN c : name[c[m]] = r
        BY <1>5, <4>2
      <4> QED
        BY <1>7, <2>2, <3>2, <3>4, <4>1, <4>2 DEF c
    <3> QED
      BY <3>3, <3>4
  <2>5. Named' \subseteq Names /\ Named \subseteq Names
    BY DEF Named
  <2>6. Named' = IF Has(chain'[d], n) THEN Named ELSE Named \ {n}
    BY <2>1, <2>3, <2>4, <2>5
  <2>7. IsFiniteSet(Named) /\ unique = Cardinality(Named)
    BY DEF CountsInv
  <2>8. IsFiniteSet(Named \ {n}) /\ Cardinality(Named \ {n}) = unique - 1
    BY <2>1, <2>7, OneLess
  <2> QED
    BY <1>1, <2>6, <2>7, <2>8
<1> QED
  BY <1>10, <1>11, <1>12 DEF CountsInv

LEMMA StartCounts ==
  ASSUME CountsInv, IInv, NEW n \in Names, RehashStart(n)
  PROVE  CountsInv'
<1>1. /\ load' = 0 /\ unique' = 0 /\ active' = active /\ count' = count
      /\ chain' = [b \in 0 .. size' - 1 |-> <<>>]
  BY DEF RehashStart
<1>2. size' \in Positive
  BY TableAssumption DEF IInv, RehashStart, TableTypeOK
<1>3. DOMAIN <<>> = {} /\ \A b \in Buckets' : chain'[b] = <<>>
  BY <1>1 DEF Buckets
<1>4. \A r \in Names : Bucket(r)' \in Buckets'
  <2> SUFFICES ASSUME NEW r \in Names
               PROVE  Hash[r] % size' \in 0 .. size' - 1
    BY DEF Bucket, Buckets
  <2>1. Hash[r] \in Nat /\ size' \in Nat /\ size' > 0
    BY <1>2, TableAssumption DEF Positive
  <2> QED
    BY <2>1
<1>5. Filled' = {}
  BY <1>3 DEF Filled
<1>6. Named' = {}
  BY <1>3, <1>4 DEF Named, Has
<1> QED
  BY <1>1, <1>5, <1>6, FS_EmptySet DEF CountsInv

LEMMA SameCounts ==
  ASSUME CountsInv,
         UNCHANGED <<size, chain, name, active, load, count, unique>>
  PROVE  CountsInv'
<1>1. Buckets' = Buckets /\ \A m : Bucket(m)' = Bucket(m)
  BY DEF Buckets, Bucket
<1>2. Filled' = Filled
  BY <1>1 DEF Filled
<1>3. Named' = Named
  BY <1>1 DEF Named, Has
<1> QED
  BY <1>2, <1>3 DEF CountsInv

LEMMA InitCounts ==
  ASSUME TableInit
  PROVE  CountsInv
<1>1. chain = [b \in Buckets |-> <<>>] /\ active = {} /\ load = 0 /\ unique = 0
      /\ count = 0
  BY DEF TableInit
<1>2. DOMAIN <<>> = {} /\ \A b \in Buckets : chain[b] = <<>>
  BY <1>1
<1>3. Filled = {}
  BY <1>2 DEF Filled
<1>4. Named = {}
  <2>1. TableTypeOK
    BY InitInvariant DEF IInv
  <2> QED
    BY <1>2, <2>1, BucketType DEF Named, Has
<1> QED
  BY <1>1, <1>3, <1>4, FS_EmptySet DEF CountsInv

LEMMA NextCounts ==
  ASSUME IInv, CountsInv, [TableNext]_tableVars
  PROVE  CountsInv'
<1>1. ASSUME NEW n \in Names, PushItem(n)
      PROVE  CountsInv'
  <2> DEFINE i == Len(name) + 1
  <2>1. name' = Append(name, n) /\ size' = size /\ active' = active \cup {i}
        /\ Linked(n, i)
    BY <1>1 DEF PushItem
  <2>2. /\ name \in Seq(Names) /\ DOMAIN name = 1 .. Len(name) /\ Len(name) \in Nat
        /\ active \subseteq DOMAIN name
    BY Live DEF IInv, TableTypeOK
  <2>3. i \in Nat /\ i \notin active
    BY <2>2
  <2>4. name'[i] = n /\ \A j \in DOMAIN name : name'[j] = name[j]
    BY <2>1, <2>2, Appended
  <2>5. \A j \in active : name'[j] = name[j]
    BY <2>2, <2>4
  <2> HIDE DEF i
  <2> QED
    BY <2>1, <2>3, <2>4, <2>5, LinkCounts
<1>2. ASSUME NEW n \in Names, Recycle(n)
      PROVE  CountsInv'
  <2>1. PICK i \in DOMAIN name \ active :
          name' = [name EXCEPT ![i] = n] /\ active' = active \cup {i} /\ Linked(n, i)
    BY <1>2 DEF Recycle
  <2>2. size' = size
    BY <1>2 DEF Recycle
  <2>3. i \in Nat /\ active \subseteq DOMAIN name
    BY Live DEF IInv
  <2>4. name'[i] = n /\ \A j \in active : name'[j] = name[j]
    BY <2>1, <2>3
  <2> QED
    BY <2>1, <2>2, <2>3, <2>4, LinkCounts
<1>3. ASSUME NEW n \in Names, Look(n)
      PROVE  CountsInv'
  BY <1>3, SameCounts DEF Look
<1>4. CASE RehashDone
  BY <1>4, SameCounts DEF RehashDone
<1>5. CASE UNCHANGED tableVars
  BY <1>5, SameCounts DEF tableVars
<1> QED
  BY <1>1, <1>2, <1>3, <1>4, <1>5, StartCounts, UnhashCounts, ItemCounts DEF TableNext

(* What Counters counts is what CountsInv counts.                          *)
LEMMA CountersHold ==
  ASSUME IInv, CountsInv
  PROVE  Counters
<1>1. \A i \in active : name[i] \in Names
  BY Live DEF IInv
<1>2. \A n \in Names : Bucket(n) \in Buckets
  BY BucketType DEF IInv
<1>3. \A n \in Names : \A k \in DOMAIN chain[Bucket(n)] : chain[Bucket(n)][k] \in active
  BY <1>2 DEF IInv, Placed
<1>4. Named = {name[i] : i \in OnChains}
  <2>1. ASSUME NEW n \in Named
        PROVE  \E i \in OnChains : name[i] = n
    <3>1. PICK k \in DOMAIN chain[Bucket(n)] : name[chain[Bucket(n)][k]] = n
      BY DEF Named, Has
    <3>2. n \in Names
      BY DEF Named
    <3>3. chain[Bucket(n)][k] \in OnChains
      BY <1>3, <3>1, <3>2 DEF OnChains
    <3> QED
      BY <3>1, <3>3
  <2>2. ASSUME NEW i \in OnChains
        PROVE  name[i] \in Named
    BY <1>1 DEF OnChains, Named, Has
  <2> QED
    BY <2>1, <2>2
<1> QED
  BY <1>4 DEF CountsInv, Counters, Filled

-----------------------------------------------------------------------------
(* Results                                                                 *)

(* What insertion, deletion, reuse and hashing again rest on: live items   *)
(* are on chains or wait, in their buckets, the latest of a name first.    *)
THEOREM TableInvariant == TableSpec => []IInv
<1>1. TableInit => IInv
  BY InitInvariant
<1>2. IInv /\ [TableNext]_tableVars => IInv'
  BY NextStep, StutterStep
<1> QED
  BY <1>1, <1>2, PTL DEF TableSpec

(* The chains are made of items of the table at all times: also while it   *)
(* is hashed again into an array of another size.                          *)
THEOREM TableTyped == TableSpec => []TableTypeOK
<1>1. IInv => TableTypeOK
  BY DEF IInv
<1> QED
  BY <1>1, TableInvariant, PTL

(* Every lookup (ddsTableLookup) finds the item that was bound to the name *)
(* last among those not deleted, however often the table has been hashed   *)
(* again (ddsTableRehash), whatever was deleted and used again.            *)
THEOREM TableLatestFound == TableSpec => LatestFound
<1>1. IInv /\ [TableNext]_tableVars =>
        [ /\ \A n \in Names : Look(n) => Latest(n, found')
          /\ RehashDone => Latest(sought, found') ]_tableVars
  BY LookStep, DoneStep
<1> QED
  BY <1>1, TableInvariant, PTL DEF TableSpec, LatestFound

(* The counters by which a table is found to be crowded agree with its     *)
(* chains after every insertion, deletion and reuse, and at each step of   *)
(* ddsTableRehash.                                                         *)
THEOREM TableCounters == TableSpec => []Counters
<1>1. TableInit => CountsInv
  BY InitCounts
<1>2. IInv /\ CountsInv /\ [TableNext]_tableVars => CountsInv'
  BY NextCounts
<1>3. IInv /\ CountsInv => Counters
  BY CountersHold
<1> QED
  BY <1>1, <1>2, <1>3, TableInvariant, PTL DEF TableSpec
=============================================================================
