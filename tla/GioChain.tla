------------------------------ MODULE GioChain ------------------------------
(***************************************************************************)
(* gio.open_chain as the linked list it is: head is gio.open_chain, and    *)
(* chain[s] the member GFILE.chain.  GioCfd keeps the set of the streams   *)
(* on the list; its actions are taken here together with what they do to   *)
(* the links, and two calls are added: greopen, which opens a stream in    *)
(* the GFILE of another, and gflush(NULL), which walks the list.           *)
(*                                                                         *)
(* Abstractions: greopen names the file the GFILE was open on before; a    *)
(* GFILE for which greopen has returned NULL counts as closed.             *)
(***************************************************************************)
EXTENDS GioCfd

CONSTANT
  GreopenAny  \* TRUE: greopen of temporarily closed streams as well

ASSUME GreopenAssumption == GreopenAny \in BOOLEAN

VARIABLES
  head,       \* gio.open_chain
  chain,      \* chain[s]: GFILE.chain
  reopening,  \* the stream greopen has closed and not opened yet
  walk        \* fp in the loop of gflush(NULL)

links == <<head, chain>>
chainVars == <<cfdVars, links, reopening, walk>>

ChainInit ==
  /\ CfdInit
  /\ head = NoStream
  /\ chain = [s \in Streams |-> NoStream]
  /\ reopening = NoStream
  /\ walk = NoStream

(* The nodes a loop over the list comes to, one more than there can be.    *)
Node ==
  LET node[i \in 1 .. Cardinality(Streams) + 1] ==
        IF i = 1 THEN head
        ELSE IF node[i - 1] = NoStream THEN NoStream ELSE chain[node[i - 1]]
  IN  node

Linked == {Node[i] : i \in DOMAIN Node} \ {NoStream}

GIO_chain(s) ==
  /\ chain' = [chain EXCEPT ![s] = head]
  /\ head' = s

(* Mutant of Unlinked: only the links between streams are mended, as if    *)
(* the stream could not be the head of the chain.                          *)
UnlinkedInside(s) ==
  /\ s \in Linked
  /\ chain' = [p \in Streams |->
                 IF p \in Linked /\ chain[p] = s THEN chain[s] ELSE chain[p]]
  /\ UNCHANGED head

(* gclose2 takes s off the list; a stream it does not find is bogus.       *)
Unlinked(s) ==
  \/ /\ s = head
     /\ head' = chain[s]
     /\ UNCHANGED chain
  \/ /\ s # head
     /\ \E p \in Linked :
          /\ chain[p] = s
          /\ chain' = [chain EXCEPT ![p] = chain[s]]
     /\ UNCHANGED head

(* gclose2: unlinked, or, if temporarily closed, only found.               *)
GcloseLinked(s) ==
  \/ GcloseReal(s) /\ Unlinked(s)
  \/ GcloseTmp(s) /\ s \in Linked /\ UNCHANGED links

-----------------------------------------------------------------------------
(* greopen                                                                 *)

(* gclose(fp), of which greopen ignores the result,                        *)
GreopenClose(s) ==
  /\ \/ GcloseLinked(s)
     \/ life[s] = "closed" /\ UNCHANGED <<cfdVars, links>>
  /\ s \in open_chain' => GreopenAny
  /\ reopening' = s
  /\ UNCHANGED walk

(* then GIO_cfd_init and GIO_open, and GIO_chain when that has succeeded.  *)
GreopenOk(s, cached, v) ==
  /\ reopening = s
  /\ GIO_open_ok(s, v)
  /\ life' = [life EXCEPT ![s] = "open"]
  /\ tmp_close_ok' =
       [tmp_close_ok EXCEPT ![s] = cached /\ NameOf[s] \in Regular]
  /\ open_chain' = open_chain \cup {s}
  /\ GIO_chain(s)
  /\ reopening' = NoStream
  /\ UNCHANGED <<gdopens, walk>>

GreopenFailed(s, v) ==
  /\ reopening = s
  /\ GIO_open_failed(s, v)
  /\ reopening' = NoStream
  /\ UNCHANGED <<life, tmp_close_ok, open_chain, last_access_count, gdopens,
                 links, walk>>

-----------------------------------------------------------------------------
(* gflush(NULL)                                                            *)

FlushAll ==
  /\ walk' = head
  /\ UNCHANGED <<cfdVars, links, reopening>>

FlushStep ==
  /\ walk # NoStream
  /\ walk' = chain[walk]
  /\ UNCHANGED <<cfdVars, links, reopening>>

-----------------------------------------------------------------------------
(* The calls of GioCfd and what they do to the links.                      *)
CfdCall ==
  \/ \E s \in Streams, v \in Streams \cup {NoStream} :
       \/ \E cached \in BOOLEAN : GopenOk(s, cached, v) /\ GIO_chain(s)
       \/ GopenFailed(s, v) /\ UNCHANGED links
       \/ CheckReopen(s, v) /\ UNCHANGED links
       \/ CheckFailed(s, v) /\ UNCHANGED links
       \/ GfilenoFailed(s, v) /\ UNCHANGED links
  \/ \E s \in Streams :
       \/ Gdopen(s) /\ GIO_chain(s)
       \/ GcloseLinked(s)
       \/ CheckReal(s) /\ UNCHANGED links
  \/ Gopenmax /\ UNCHANGED links

ChainNext ==
  \/ /\ reopening = NoStream
     /\ walk = NoStream
     /\ \/ CfdCall /\ UNCHANGED <<reopening, walk>>
        \/ \E s \in Streams : GreopenClose(s)
        \/ FlushAll
  \/ \E s \in Streams, v \in Streams \cup {NoStream} :
       \/ \E cached \in BOOLEAN : GreopenOk(s, cached, v)
       \/ GreopenFailed(s, v)
  \/ FlushStep

(* The one thread of the application goes on with a loop it has begun.     *)
ChainSpec == ChainInit /\ [][ChainNext]_chainVars /\ WF_chainVars(FlushStep)

-----------------------------------------------------------------------------
(* Properties                                                              *)

(* A walk along the links comes to the end, and on its way to exactly the  *)
(* streams that were linked and not taken off again.  Every stream that is *)
(* open is then found by gclose, by GIO_tmp_close_one and by gflush(NULL), *)
(* and to take one off loses none of the others.                           *)
LinksMatch ==
  /\ Node[Cardinality(Streams) + 1] = NoStream
  /\ Linked = open_chain

(* gflush(NULL) returns, whatever has been opened, closed and reopened.    *)
FlushAllReturns == walk # NoStream ~> walk = NoStream

=============================================================================
