------------------------------ MODULE DdsTable ------------------------------
(***************************************************************************)
(* Hash tables of libdds.  Dictionaries, keywords and primary types are    *)
(* kept in tables: an array of chains of items, the latest item first.  A  *)
(* lookup first hashes all items again, into a longer array, when the      *)
(* chains have become crowded.                                             *)
(*                                                                         *)
(* Abstractions: a chain is the sequence of its items; an item is its      *)
(* place in the order of age ("older" and "newer"); names are hashed by a  *)
(* given function; pages of storage and anonymous items are left out.      *)
(***************************************************************************)
EXTENDS Integers, Sequences, FiniteSets

CONSTANTS
  Names,      \* names of items
  Hash,       \* ddsHash
  Settings,   \* what tables are made with
  MaxItems,   \* bound on the items of a table
  MaxLinks    \* bound on the items put on chains

NoName == "no name"
Positive == Nat \ {0}
Items == 1 .. MaxItems

(* The size at first; the threshold alpha and the growth 1 + 1 / beta, as  *)
(* fractions; the size that follows each size; whether items are deleted   *)
(* and used again, as dictionaries are.                                    *)
Fractions == [num : Positive, den : Positive]

ASSUME TableAssumption ==
  /\ NoName \notin Names
  /\ Hash \in [Names -> Nat]
  /\ \A s \in Settings :
       /\ s.size \in Positive
       /\ s.alpha \in Fractions
       /\ s.growth \in Fractions
       /\ s.larger \in [DOMAIN s.larger -> Positive]
       /\ s.recycle \in BOOLEAN
  /\ MaxItems \in Nat
  /\ MaxLinks \in Nat

(* ddsPrimeUp, and the new size ddsTableRehash asks for.                   *)
PrimeUp(num) ==
  IF num <= 1 THEN 1
  ELSE CHOOSE p \in num .. 2 * num :
         /\ \A d \in 2 .. p - 1 : p % d # 0
         /\ \A q \in num .. p - 1 : \E d \in 2 .. q - 1 : q % d = 0

NewSize(n, growth) ==
  LET wanted == PrimeUp((n * growth.num) \div growth.den)
  IN  IF wanted <= n THEN PrimeUp(n + 1) ELSE wanted

ASSUME LargerAssumption ==
  \A s \in Settings : \A n \in DOMAIN s.larger :
    s.larger[n] = NewSize(n, s.growth)

VARIABLES
  table,    \* how the table was made: one of Settings
  size,     \* number of buckets
  chain,    \* chain[b]: the items in bucket b
  old,      \* the chains that are still to be hashed again
  name,     \* name[i]: the name of item i; items are numbered by age
  active,   \* items that have not been deleted
  load,     \* number of buckets that are not empty
  count,    \* number of items in the table
  unique,   \* number of different names in the table
  sought,   \* name of the lookup in progress, or NoName
  found,    \* item found by the last lookup, or 0
  born,     \* history: which of the links made put the item on its chain
  links     \* history: number of links made

tableVars ==
  <<table, size, chain, old, name, active, load, count, unique, sought, found,
    born, links>>

Buckets == 0 .. size - 1

(* ddsTableInit                                                            *)
TableInit ==
  /\ table \in Settings
  /\ size = table.size
  /\ chain = [b \in Buckets |-> <<>>]
  /\ old = <<>>
  /\ name = <<>>
  /\ active = {}
  /\ load = 0
  /\ count = 0
  /\ unique = 0
  /\ sought = NoName
  /\ found = 0
  /\ born = <<>>
  /\ links = 0

-----------------------------------------------------------------------------
(* Chains                                                                  *)

Bucket(n) == Hash[n] % size

Has(c, n) == \E k \in DOMAIN c : name[c[k]] = n

(* Mutant of IsFirst: the end of the chain is looked at first.             *)
IsFirstOldest(c, n, i) ==
  \/ i = 0 /\ ~ Has(c, n)
  \/ \E k \in DOMAIN c :
       c[k] = i /\ name[i] = n /\ \A j \in k + 1 .. Len(c) : name[c[j]] # n

(* The first item of a chain that has a name, or 0.                        *)
IsFirst(c, n, i) ==
  \/ i = 0 /\ ~ Has(c, n)
  \/ \E k \in DOMAIN c :
       c[k] = i /\ name[i] = n /\ \A j \in 1 .. k - 1 : name[c[j]] # n

(* A new item comes first in its chain.                                    *)
Linked(n, i) ==
  LET c == chain[Bucket(n)]
  IN  /\ chain' = [chain EXCEPT ![Bucket(n)] = <<i>> \o @]
      /\ load' = IF c = <<>> THEN load + 1 ELSE load
      /\ unique' = IF Has(c, n) THEN unique ELSE unique + 1
      /\ count' = count + 1

Idle == sought = NoName

(* ddsTablePushItem; ddsDictNew pushes only when there is none to reuse.   *)
PushItem(n) ==
  /\ Idle
  /\ Len(name) < MaxItems /\ links < MaxLinks
  /\ table.recycle => active = DOMAIN name
  /\ name' = Append(name, n)
  /\ active' = active \cup {Len(name) + 1}
  /\ Linked(n, Len(name) + 1)
  /\ links' = links + 1
  /\ born' = Append(born, links)
  /\ UNCHANGED <<table, size, old, sought, found>>

(* ddsDictNew uses the oldest item again that has been deleted.            *)
Recycle(n) ==
  /\ Idle
  /\ table.recycle
  /\ links < MaxLinks
  /\ \E i \in DOMAIN name \ active :
       /\ \A j \in DOMAIN name \ active : i <= j
       /\ name' = [name EXCEPT ![i] = n]
       /\ active' = active \cup {i}
       /\ Linked(n, i)
       /\ born' = [born EXCEPT ![i] = links]
  /\ links' = links + 1
  /\ UNCHANGED <<table, size, old, sought, found>>

Without(c, k) == SubSeq(c, 1, k - 1) \o SubSeq(c, k + 1, Len(c))

(* Mutant of Unhash: a bucket is empty when its first item is taken off.   *)
UnhashFirst(i) ==
  /\ Idle
  /\ table.recycle
  /\ i \in active
  /\ LET b == Bucket(name[i])
     IN  \E k \in DOMAIN chain[b] :
         /\ chain[b][k] = i
         /\ chain' = [chain EXCEPT ![b] = Without(@, k)]
         /\ load' = IF k = 1 THEN load - 1 ELSE load
         /\ unique' = IF Has(chain'[b], name[i]) THEN unique ELSE unique - 1
  /\ count' = count - 1
  /\ active' = active \ {i}
  /\ UNCHANGED <<table, size, old, name, sought, found, born, links>>

(* ddsTableUnhash, by ddsDictDelete, which also makes the item inactive.   *)
Unhash(i) ==
  /\ Idle
  /\ table.recycle
  /\ i \in active
  /\ LET b == Bucket(name[i])
     IN  \E k \in DOMAIN chain[b] :
         /\ chain[b][k] = i
         /\ chain' = [chain EXCEPT ![b] = Without(@, k)]
         /\ load' = IF k = 1 /\ Len(chain[b]) = 1 THEN load - 1 ELSE load
         /\ unique' = IF Has(chain'[b], name[i]) THEN unique ELSE unique - 1
  /\ count' = count - 1
  /\ active' = active \ {i}
  /\ UNCHANGED <<table, size, old, name, sought, found, born, links>>

-----------------------------------------------------------------------------
(* ddsTableLookup and ddsTableRehash                                       *)

Crowded ==
  LET a == table.alpha
  IN  /\ load > 0
      /\ \/ a.num < a.den /\ a.num * size < load * a.den
         \/ a.num > a.den /\ a.num * load < unique * a.den

Look(n) ==
  /\ Idle
  /\ ~ Crowded
  /\ \E i \in {0} \cup active :
       IsFirst(chain[Bucket(n)], n, i) /\ found' = i
  /\ UNCHANGED <<table, size, chain, old, name, active, load, count, unique,
                 sought, born, links>>

(* Mutant of RehashStart: the new array is given the old size.             *)
RehashStartShort(n) ==
  /\ Idle
  /\ Crowded
  /\ size \in DOMAIN table.larger
  /\ sought' = n
  /\ old' = chain
  /\ size' = table.larger[size]
  /\ chain' = [b \in Buckets |-> <<>>]
  /\ load' = 0
  /\ unique' = 0
  /\ UNCHANGED <<table, name, active, count, found, born, links>>

(* The lookup of a crowded table begins to hash it again,                  *)
RehashStart(n) ==
  /\ Idle
  /\ Crowded
  /\ size \in DOMAIN table.larger
  /\ sought' = n
  /\ old' = chain
  /\ size' = table.larger[size]
  /\ chain' = [b \in 0 .. size' - 1 |-> <<>>]
  /\ load' = 0
  /\ unique' = 0
  /\ UNCHANGED <<table, name, active, count, found, born, links>>

Remaining == {b \in DOMAIN old : old[b] # <<>>}

(* Mutant of RehashItem: an item is put first in its new chain.            *)
RehashItemFirst ==
  /\ ~ Idle
  /\ Remaining # {}
  /\ \E b \in Remaining :
       /\ \A a \in Remaining : b <= a
       /\ old' = [old EXCEPT ![b] = Tail(@)]
       /\ LET i == Head(old[b])
              c == chain[Bucket(name[i])]
          IN  /\ chain' = [chain EXCEPT ![Bucket(name[i])] = <<i>> \o @]
              /\ load' = IF c = <<>> THEN load + 1 ELSE load
              /\ unique' = IF Has(c, name[i]) THEN unique ELSE unique + 1
  /\ UNCHANGED <<table, size, name, active, count, sought, found, born, links>>

(* moves the items of the old chains, bucket by bucket and each from its   *)
(* first item on, to the end of their new chains,                          *)
RehashItem ==
  /\ ~ Idle
  /\ Remaining # {}
  /\ \E b \in Remaining :
       /\ \A a \in Remaining : b <= a
       /\ old' = [old EXCEPT ![b] = Tail(@)]
       /\ LET i == Head(old[b])
              c == chain[Bucket(name[i])]
          IN  /\ chain' = [chain EXCEPT ![Bucket(name[i])] = Append(@, i)]
              /\ load' = IF c = <<>> THEN load + 1 ELSE load
              /\ unique' = IF Has(c, name[i]) THEN unique ELSE unique + 1
  /\ UNCHANGED <<table, size, name, active, count, sought, found, born, links>>

(* and searches when all are there.                                        *)
RehashDone ==
  /\ ~ Idle
  /\ Remaining = {}
  /\ old' = <<>>
  /\ \E i \in {0} \cup active :
       IsFirst(chain[Bucket(sought)], sought, i) /\ found' = i
  /\ sought' = NoName
  /\ UNCHANGED <<table, size, chain, name, active, load, count, unique, born,
                 links>>

TableNext ==
  \/ \E n \in Names : PushItem(n) \/ Recycle(n) \/ Look(n) \/ RehashStart(n)
  \/ \E i \in active : Unhash(i)
  \/ RehashItem
  \/ RehashDone

TableSpec == TableInit /\ [][TableNext]_tableVars

-----------------------------------------------------------------------------
(* Properties                                                              *)

TableTypeOK ==
  /\ table \in Settings
  /\ size \in Positive
  /\ chain \in [Buckets -> Seq(DOMAIN name)]
  /\ old \in [DOMAIN old -> Seq(DOMAIN name)]
  /\ name \in Seq(Names)
  /\ active \subseteq DOMAIN name
  /\ load \in Int /\ count \in Int /\ unique \in Int
  /\ sought \in Names \cup {NoName}
  /\ found \in {0} \cup DOMAIN name
  /\ born \in Seq(0 .. links - 1) /\ Len(born) = Len(name)
  /\ links \in Nat

OnChains == {i \in active : \E k \in DOMAIN chain[Bucket(name[i])] :
                              chain[Bucket(name[i])][k] = i}

(* The counters a lookup decides by agree with the chains, also while the  *)
(* table is hashed again, after deletions and after items were reused      *)
(* (dds_table.h: "count >= unique >= load").                               *)
Counters ==
  /\ load = Cardinality({b \in Buckets : chain[b] # <<>>})
  /\ unique = Cardinality({name[i] : i \in OnChains})
  /\ count = Cardinality(active)

(* A lookup finds the item of the name that was put in last, among those   *)
(* that have not been deleted, whatever was deleted, put into its place,   *)
(* or hashed again since.                                                  *)
Latest(n, i) ==
  \/ i = 0 /\ \A j \in active : name[j] # n
  \/ /\ i \in active /\ name[i] = n
     /\ \A j \in active : name[j] = n => born[j] <= born[i]

LatestFound ==
  [][ /\ \A n \in Names : Look(n) => Latest(n, found')
      /\ RehashDone => Latest(sought, found') ]_tableVars

(* The items of a name, the latest one first, and those still to be hashed *)
(* again after the others.                                                 *)
OfName(c, n) == SelectSeq(c, LAMBDA i : name[i] = n)

Stack(n) ==
  OfName(chain[Bucket(n)], n)
    \o (IF \E b \in DOMAIN old : Has(old[b], n)
        THEN OfName(old[CHOOSE b \in DOMAIN old : Has(old[b], n)], n)
        ELSE <<>>)

(* To its users a table is a stack of items for each name: buckets, their  *)
(* order, and their hashing again are not to be seen.                      *)
Directory == INSTANCE DdsDirectory WITH bound <- [n \in Names |-> Stack(n)]
ImplementsDirectory == Directory!DirectorySpec

=============================================================================
