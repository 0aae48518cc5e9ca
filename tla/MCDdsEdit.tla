----------------------------- MODULE MCDdsEdit -----------------------------
(* Small instances of DdsEdit: cubes of two or three axes with two traces  *)
(* on each.                                                                *)
EXTENDS DdsEdit, SequencesExt

CONSTANT MaxTraces   \* bound on the traces of an input

MCSize == [r \in Axes |-> 2]
MCBase == [r \in Axes |-> 1]

(* Places of the cube, and sequences of them in regular order.             *)
Places == 0 .. 2 ^ Rank - 1

PlaceAt(k) == [r \in Axes |-> Base[r] + ((k \div 2 ^ (r - 1)) % 2)]

Live(index) == [index |-> index, live |-> TRUE]

InOrder ==
  {[k \in DOMAIN places |-> Live(PlaceAt(places[k]))] :
     places \in {SetToSortSeq(S, <) : S \in
                   {P \in SUBSET Places : Cardinality(P) <= MaxTraces}}}

Complete == [k \in 1 .. 2 ^ Rank |-> Live(PlaceAt(k - 1))]

(* Flags: every axis has a sort index and nothing else is asked for.       *)
Plain ==
  [sort |-> Axes, sparse |-> {}, async |-> {}, error |-> {}, force |-> {},
   reject |-> {}, pad |-> {}, retain |-> [r \in Axes |-> Sides], drop |-> {}]

Reads(fs, inputs) == [mode : {"read"}, flags : fs, input : inputs]
Writes(fs, inputs) == [mode : {"write"}, flags : fs, input : inputs]

(* Some of the traces in order, or all of them.                            *)
Regulars == InOrder \cup {Complete}

(* Traces outside the cube on an axis, and a dead trace.                   *)
Beyond == Live([PlaceAt(0) EXCEPT ![1] = Base[1] + 2])
Before == Live([PlaceAt(1) EXCEPT ![1] = Base[1] - 2])
Dead == [Live(PlaceAt(1)) EXCEPT !.live = FALSE]

(* Traces repeated, out of order, outside the cube, or dead.               *)
Irregulars ==
  SeqOf({Live(PlaceAt(0)), Live(PlaceAt(2)), Live(PlaceAt(5)), Before, Dead}, 2)
    \cup SeqOf({Live(PlaceAt(3)), Beyond}, 2)

(* Nothing is edited (no_edit).                                            *)
NoEdit == [Plain EXCEPT !.sparse = Axes, !.async = Axes]

(* The cubes that may be filled from traces in order: all axes dense, and  *)
(* synchronized or not, or checked, or the highest ones sparse, or sparse  *)
(* and padded; and those that take traces as they come: not edited, not    *)
(* sorted, rejecting, forcing, or limited to the window and to live ones.  *)
MCScenarios ==
  LET regular == {Plain, [Plain EXCEPT !.async = Axes],
                  [Plain EXCEPT !.error = {2}],
                  [Plain EXCEPT !.sparse = {3}],
                  [Plain EXCEPT !.sparse = {2, 3}, !.async = {1}]}
      free == {NoEdit, [Plain EXCEPT !.sort = {}],
               [Plain EXCEPT !.async = Axes, !.reject = Axes],
               [Plain EXCEPT !.async = Axes, !.force = Axes]}
      window == [Plain EXCEPT !.retain = [r \in Axes |-> {"window"}],
                              !.drop = {FALSE}]
  IN  Reads(regular, Regulars) \cup Writes(regular, Regulars)
        \cup Reads({[NoEdit EXCEPT !.async = {}, !.pad = Axes]}, Regulars)
        \cup Reads(free, Irregulars) \cup Writes(free, Irregulars)
        \cup Reads({window}, SeqOf({Live(PlaceAt(0)), Live(PlaceAt(3)),
                                    Beyond, Dead}, 2))
        \cup Writes({window}, Regulars)

(* The second axis is synchronized and the first is not.                   *)
MCUnsynced ==
  Reads({[Plain EXCEPT !.async = {1}]}, {<<Live(PlaceAt(0)), Live(PlaceAt(4))>>})
=============================================================================
