------------------------------ MODULE DdsSolid ------------------------------
(***************************************************************************)
(* What an application may assume of dds_read, dds_write and dds_lseek: a  *)
(* binary is one row of units, a position in it, and nothing else.  That   *)
(* the row is spread over several files is not to be seen here.            *)
(***************************************************************************)
EXTENDS Integers, Sequences

CONSTANTS
  Offsets,   \* offsets given to dds_lseek
  Limit,     \* bound on the positions
  Hole       \* what reads where nothing was written before something later

VARIABLES
  total,     \* units of the complete cube
  complete,  \* whether all of them were there at the start
  content,   \* what there is of it: a partial function from places to values
  place,     \* the position
  got,       \* units returned by this step
  reply      \* whence, offset and result of a seek made by this step

solidVars == <<total, complete, content, place, got, reply>>

Whences == {"set", "cur", "end"}
Answers == [whence : Whences, offset : Offsets, result : -1 .. Limit]
NoAnswer == [whence |-> "none", offset |-> 0, result |-> 0]

SolidInit ==
  /\ total \in Nat
  /\ complete \in BOOLEAN
  /\ DOMAIN content = IF complete THEN 0 .. total - 1 ELSE {}
  /\ place = 0
  /\ got = <<>>
  /\ reply = NoAnswer

(* Some of the units at the position are returned, and passed.             *)
Read ==
  \E k \in 1 .. total :
    /\ reply' = NoAnswer
    /\ place' = place + k
    /\ place .. place + k - 1 \subseteq DOMAIN content
    /\ got' = [i \in 1 .. k |-> content[place + i - 1]]
    /\ UNCHANGED <<total, complete, content>>

(* Units are put at the position, and nowhere else; a gap reads as holes.  *)
Write ==
  \E k \in 1 .. total :
    LET there == place .. place + k - 1
    IN  /\ got' = <<>>
        /\ reply' = NoAnswer
        /\ place' = place + k
        /\ there \cup DOMAIN content \subseteq DOMAIN content'
        /\ \E value \in {content'[place]} :
             \A p \in DOMAIN content' :
               content'[p] = IF p \in there THEN value
                             ELSE IF p \in DOMAIN content THEN content[p]
                             ELSE Hole
        /\ UNCHANGED <<total, complete>>

(* The end is where a complete cube ends.  Of one that is being created    *)
(* nothing is promised: what is in buffers may be counted or not.          *)
Starts(whence, place0) ==
  CASE whence = "set" -> {0}
    [] whence = "cur" -> {place0}
    [] whence = "end" -> IF complete THEN {total} ELSE 0 .. Limit

(* The position is set, and told.  A seek to before the start fails and    *)
(* changes nothing; one from beyond the end may fail, too.                 *)
Seek ==
  /\ got' = <<>>
  /\ \E a \in Answers :
       /\ reply' = a
       /\ \E start \in Starts(a.whence, place) :
            \/ a.result = start + a.offset /\ a.result >= 0 /\ place' = a.result
            \/ a.result = -1 /\ start + a.offset < 0 /\ place' = place
            \/ a.result = -1 /\ a.whence = "cur" /\ place > total /\ place' = place
  /\ UNCHANGED <<total, complete, content>>

(* A call that returns without having moved anything.                      *)
Nothing ==
  /\ got' = <<>>
  /\ reply' = NoAnswer
  /\ UNCHANGED <<total, complete, content, place>>

SolidNext == Nothing \/ Seek \/ Read \/ Write

SolidSpec == SolidInit /\ [][SolidNext]_solidVars
=============================================================================
