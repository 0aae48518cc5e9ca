----------------------------- MODULE MCDdsTable -----------------------------
(* Small instances of DdsTable: the thresholds and growths of the tables   *)
(* of keywords, of primary types and of dictionaries, with few buckets.    *)
EXTENDS DdsTable, TLC

CONSTANTS one, two, three

(* Names that share a bucket or do not, by the size of the table.          *)
MCHash == (one :> 0) @@ (two :> 2) @@ (three :> 7)

Keywords ==
  [size |-> 2, alpha |-> [num |-> 23, den |-> 20],
   growth |-> [num |-> 3, den |-> 2],
   larger |-> (2 :> 3) @@ (3 :> 5) @@ (5 :> 7), recycle |-> FALSE]

Primes ==
  [size |-> 2, alpha |-> [num |-> 4, den |-> 5],
   growth |-> [num |-> 6, den |-> 1],
   larger |-> (2 :> 13), recycle |-> FALSE]

Dictionaries ==
  [size |-> 1, alpha |-> [num |-> 3, den |-> 2],
   growth |-> [num |-> 6, den |-> 1],
   larger |-> (1 :> 7), recycle |-> TRUE]

MCSettings == {Keywords, Primes, Dictionaries}
=============================================================================
