---------------------------- MODULE DdsDirectory ----------------------------
(***************************************************************************)
(* What a hash table of libdds promises: the items of a name are a stack.  *)
(* A lookup finds the one on top; of hashing nothing is to be seen.        *)
(***************************************************************************)
EXTENDS Naturals, Sequences

CONSTANTS
  Names,   \* names of items
  Items    \* items, none of them 0

VARIABLES
  bound,   \* bound[n]: the items of name n, the latest one first
  found    \* the item found by the last lookup, or 0

directoryVars == <<bound, found>>

Bound == {i \in Items : \E n \in Names : \E k \in DOMAIN bound[n] : bound[n][k] = i}

Top(n) == IF bound[n] = <<>> THEN 0 ELSE Head(bound[n])

DirectoryInit ==
  /\ bound = [n \in Names |-> <<>>]
  /\ found = 0

(* An item is bound to a name, and hides those that had it before.         *)
Bind(n, i) ==
  /\ i \notin Bound
  /\ bound' = [bound EXCEPT ![n] = <<i>> \o @]
  /\ UNCHANGED found

(* One item, hidden or not, is taken away.                                 *)
Unbind(n, k) ==
  /\ bound' = [bound EXCEPT ![n] = SubSeq(@, 1, k - 1)
                                     \o SubSeq(@, k + 1, Len(@))]
  /\ UNCHANGED found

Look(n) ==
  /\ found' = Top(n)
  /\ UNCHANGED bound

DirectoryNext ==
  \E n \in Names :
    \/ \E i \in Items : Bind(n, i)
    \/ \E k \in DOMAIN bound[n] : Unbind(n, k)
    \/ Look(n)

DirectorySpec == DirectoryInit /\ [][DirectoryNext]_directoryVars
=============================================================================
