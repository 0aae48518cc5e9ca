---------------------------- MODULE MCGioStreams ----------------------------
(* Small instances of GioStreams: two streams, each on a file of its own,  *)
(* compete for one descriptor.                                             *)
EXTENDS GioStreams, TLC

CONSTANTS a, b, fa, fb

MCNameOf == [s \in {a, b} |-> IF s = a THEN fa ELSE fb]
MCOneStream == [s \in {a} |-> fa]
MCOneFile == [s \in {a, b} |-> fa]
MCChunks == {<<1>>, <<2, 1>>}
MCOne == {<<1>>}
MCBlocks == {<<1>>, <<2, 1, 1>>, <<1, 2, 1, 1>>}
MCPushed == {<<2>>}
MCPositions == 0 .. 2
MCLong == 0 .. 5
MCSteps == {-1}

(* Streams on one file may be exchanged.                                   *)
MCSwap == Permutations({a, b})

(* What a call returned is looked at in the step that returns it, and no   *)
(* action reads result: states that differ in it alone count as one.       *)
MCView == <<cfdVars, st, kpos, last_open_pos, last_close_status, content,
            appends>>
=============================================================================
