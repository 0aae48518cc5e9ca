---------------------------- MODULE StreamStore ----------------------------
(***************************************************************************)
(* What an application may assume of gio streams: a stream is a position   *)
(* in a file, a read returns the bytes at the position, a write is visible *)
(* to the next read at that place, and nothing else moves.  There are no   *)
(* buffers, no descriptors and no limit on their number here: that cached  *)
(* descriptors are closed and opened again behind the application is no    *)
(* step at all.  The application keeps every file to one stream.  Bytes    *)
(* pushed back by gunread are read before those of the file, and dropped   *)
(* by everything but reads and gunread itself.  Of a plain stream (one     *)
(* that is not buffered) they are not part of the position, any read       *)
(* returns some of them, however many it is for, and forgets the others,   *)
(* and a seek from the current position may end anywhere.                  *)
(***************************************************************************)
EXTENDS Integers, Sequences

CONSTANTS Streams, Files, NameOf, Zero, Sizes, Chunks, Pushed

Closed == -1

VARIABLES
  file,      \* file[f]: the bytes of file f as its writer has written them
  pos,       \* pos[s]: place in its file of stream s, or Closed
  pushed,    \* pushed[s]: bytes pushed back, before that place
  plain,     \* the streams that are not buffered
  result     \* what the last call returned: <<call, value>>

storeVars == <<file, pos, pushed, plain, result>>

Put(bytes, at, bs) ==
  IF bs = <<>> THEN bytes
  ELSE LET end == at + Len(bs)
       IN  [i \in 1 .. (IF end > Len(bytes) THEN end ELSE Len(bytes)) |->
              IF i \in at + 1 .. end THEN bs[i - at]
              ELSE IF i <= Len(bytes) THEN bytes[i] ELSE Zero]

StoreInit ==
  /\ file = [f \in Files |-> <<>>]
  /\ pos = [s \in Streams |-> Closed]
  /\ pushed = [s \in Streams |-> <<>>]
  /\ plain = {}
  /\ result = <<"init", 0>>

Dropped(s) == pushed' = [pushed EXCEPT ![s] = <<>>]

(* The position as the application is told it.                             *)
Told(s) == pos[s] - IF s \in plain THEN 0 ELSE Len(pushed[s])

Open(s) ==
  /\ result' = <<"open", 0>>
  /\ pos[s] = Closed
  /\ pos' = [pos EXCEPT ![s] = 0]
  /\ file' = file \/ file' = [file EXCEPT ![NameOf[s]] = <<>>]
  /\ UNCHANGED <<pushed, plain>>

(* A plain stream: only one that has neither read nor written can be told. *)
SetBuf(s) ==
  /\ result' = <<"setvbuf", 0>>
  /\ pos[s] # Closed
  /\ plain' \in {plain \cup {s}, plain \ {s}}
  /\ pushed[s] = <<>>
  /\ UNCHANGED <<file, pos, pushed>>

ReadPushed(s) ==
  /\ result'[1] = "read"
  /\ s \in plain
  /\ pushed[s] # <<>>
  /\ \E n \in Sizes :
       LET m == IF n < Len(pushed[s]) THEN n ELSE Len(pushed[s])
       IN  result' = <<"read", SubSeq(pushed[s], 1, m)>>
  /\ Dropped(s)
  /\ UNCHANGED <<file, pos, plain>>

Read(s) ==
  /\ result'[1] = "read"
  /\ pos[s] # Closed
  /\ s \in plain => pushed[s] = <<>>
  /\ \E n \in Sizes :
       LET bytes == file[NameOf[s]]
           rest == SubSeq(bytes, pos[s] + 1, Len(bytes))
           all == pushed[s] \o rest
           got == SubSeq(all, 1, IF n < Len(all) THEN n ELSE Len(all))
           left == SubSeq(pushed[s], Len(got) + 1, Len(pushed[s]))
       IN  /\ result' = <<"read", got>>
           /\ pushed' = [pushed EXCEPT ![s] = left]
           /\ pos' = [pos EXCEPT
                        ![s] = @ + Len(got) - (Len(pushed[s]) - Len(left))]
  /\ UNCHANGED <<file, plain>>

Unread(s) ==
  /\ result'[1] = "unread"
  /\ pos[s] # Closed
  /\ \E bs \in Pushed :
       /\ result' = <<"unread", Len(bs)>>
       /\ pushed' = [pushed EXCEPT ![s] = bs \o @]
  /\ UNCHANGED <<file, pos, plain>>

Write(s) ==
  /\ result'[1] = "write"
  /\ pos[s] # Closed
  /\ \E bs \in Chunks :
       /\ result' = <<"write", Len(bs)>>
       /\ pos' = [pos EXCEPT ![s] = @ + Len(bs)]
       /\ file' = [file EXCEPT ![NameOf[s]] = Put(@, pos[s], bs)]
  /\ Dropped(s)
  /\ UNCHANGED plain

(* Relative to the position, which a plain stream with bytes pushed back   *)
(* has lost.                                                               *)
Astray(s) == result'[1] = "seek_cur" /\ s \in plain /\ pushed[s] # <<>>

(* The position is set as the call asked: absolute, relative to the        *)
(* position before (as getpos tells it), or relative to the end of file.   *)
SetPos(s) ==
  /\ result'[1] \in {"seek_set", "seek_cur", "seek_end"}
  /\ pos[s] # Closed
  /\ pos' = [pos EXCEPT ![s] =
               CASE Astray(s) -> pos'[s]
                 [] result'[1] = "seek_set" -> result'[2]
                 [] result'[1] = "seek_cur" /\ ~ Astray(s) -> Told(s) + result'[2]
                 [] result'[1] = "seek_end" -> Len(file[NameOf[s]]) + result'[2]]
  /\ pos'[s] >= 0
  /\ Dropped(s)
  /\ UNCHANGED <<file, plain>>

GetPos(s) ==
  /\ result' = <<"getpos", Told(s)>>
  /\ pos[s] # Closed
  /\ UNCHANGED <<file, pos, pushed, plain>>

Flush(s) ==
  /\ result' = <<"flush", 0>>
  /\ Dropped(s)
  /\ UNCHANGED <<file, pos, plain>>

Close(s) ==
  /\ result' = <<"close", 0>>
  /\ pos[s] # Closed
  /\ pos' = [pos EXCEPT ![s] = Closed]
  /\ plain' = plain \ {s}
  /\ Dropped(s)
  /\ UNCHANGED file

(* gopenmax has nothing to say about any stream.                           *)
SetLimit == result' = <<"limit", 0>> /\ UNCHANGED <<file, pos, pushed, plain>>

(* A call that returns an error has done nothing, except that a seek that  *)
(* was to go before the start of the file has dropped what was pushed back. *)
Fail(s) ==
  /\ result' = <<"error", 0>>
  /\ UNCHANGED pushed \/ Dropped(s)
  /\ UNCHANGED <<file, pos, plain>>

StoreNext ==
  \/ \E s \in Streams :
       \/ Open(s)
       \/ SetBuf(s)
       \/ ReadPushed(s)
       \/ Read(s)
       \/ Unread(s)
       \/ Write(s)
       \/ SetPos(s)
       \/ GetPos(s)
       \/ Flush(s)
       \/ Close(s)
       \/ Fail(s)
  \/ SetLimit

StoreSpec == StoreInit /\ [][StoreNext]_storeVars
=============================================================================
