----------------------------- MODULE MCDdsSlice -----------------------------
(* Small instances of DdsSlice.                                            *)
EXTENDS DdsSlice

(* No step looks at what the step before returned.                         *)
MCView ==
  <<cube, file, pos, trace_bias, eof, deseek, slice_now, slice_toc, LineTrc,
    call, writes>>

MCOffsets == {-4, -1} \cup 0 .. Limit

Cube(x, y, z, sliced) ==
  [size |-> <<x, y, z>>, sliced |-> sliced, stroke |-> 1, bias |-> 1,
   fresh |-> FALSE, traces |-> TRUE, width |-> 1, back |-> FALSE,
   early |-> FALSE, writes |-> 1]

(* One axis is sliced, in the middle or at the top of the cube, or two     *)
(* neighbours at the bottom are.                                           *)
Single == {Cube(2, 2, 2, {2}), Cube(2, 2, 2, {1, 2}), Cube(1, 2, 3, {3})}

(* Traces of several units, and elements that are not traces.              *)
Wide == {[Cube(1, 2, 2, {2}) EXCEPT !.stroke = 2, !.width = 2],
         [Cube(1, 2, 2, {2}) EXCEPT !.stroke = 2, !.traces = FALSE],
         [Cube(1, 2, 1, {2}) EXCEPT !.stroke = 3, !.traces = FALSE, !.width = 2],
         [Cube(1, 2, 2, {3}) EXCEPT !.traces = FALSE]}

(* Created files: calls enough to write on after a seek, and to fill gaps. *)
Fresh ==
  {[Cube(2, 2, 2, {2}) EXCEPT !.fresh = TRUE, !.bias = 0, !.writes = 3],
   [Cube(1, 2, 2, {2}) EXCEPT !.fresh = TRUE, !.bias = 0, !.writes = 2]}

MCCubes == Single \cup Wide \cup Fresh

(* The application may seek from the position to before the start: these   *)
(* cubes violate RunRemains, and no configuration takes them.              *)
MCBack == {[Cube(2, 2, 2, {2}) EXCEPT !.back = TRUE]}

(* The application seeks before it has written to every slice: this cube   *)
(* violates LineTrcOnPlace and ImplementsSolid, and no configuration takes *)
(* it.                                                                     *)
MCEarly ==
  {[Cube(2, 2, 2, {2}) EXCEPT !.fresh = TRUE, !.bias = 0, !.early = TRUE]}
=============================================================================
