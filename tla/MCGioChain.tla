----------------------------- MODULE MCGioChain -----------------------------
(* A small instance of GioChain, and with it of GioCfd: two streams on     *)
(* regular files and one on a pipe compete for two descriptors.            *)
EXTENDS GioChain

CONSTANTS a, b, c, fa, fb, pipe

MCStreams == {a, b, c}
MCFiles == {fa, fb, pipe}
MCNameOf == [s \in MCStreams |-> IF s = a THEN fa ELSE IF s = b THEN fb ELSE pipe]
MCRegular == {fa, fb}
MCFds == {3, 4}
=============================================================================
