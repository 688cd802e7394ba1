------------------------------- MODULE TftpPipe -------------------------------
(***************************************************************************)
(* The order in which xmitfile and recvfile call the routines of           *)
(* tftpsubs.c, with the network between them reduced to one slot that      *)
(* loses nothing.  What is left is the data path: file, netascii           *)
(* expansion, two read buffers, block, two write buffers, netascii         *)
(* contraction, file.                                                      *)
(***************************************************************************)
EXTENDS TftpBuf, SequencesExt

CONSTANTS Chars,      \* bytes a file is made of
          MaxLen,     \* longest file
          BlkSizes    \* block sizes

ASSUME PipeAssumption == MaxLen \in Nat /\ BlkSizes \subseteq Nat \ {0}

VARIABLES file,       \* contents of the sender's file
          blksize,    \* block size both ends use
          convert,    \* netascii (TRUE) or octet (FALSE)
          rb, pos,    \* sender: buffers and file offset
          wb, disk,   \* receiver: buffers and contents of its file
          slot,       \* the DATA packet in flight, <<>> or <<data>>
          sender,     \* "read", "wait" (for the ack), "nak", "done"
          receiver,   \* "recv", "ack" or "last" (block taken, not acked), "done"
          ioerr       \* some read or write has failed

vars == <<file, blksize, convert, rb, pos, wb, disk, slot, sender, receiver,
          ioerr>>
params == <<file, blksize, convert>>

Init ==
  /\ file \in SeqOf(Chars, MaxLen)
  /\ blksize \in BlkSizes
  /\ convert \in BOOLEAN
  /\ rb = r_init /\ pos = 0
  /\ wb = w_init /\ disk = <<>>
  /\ slot = <<>>
  /\ sender = "read" /\ receiver = "recv"
  /\ ioerr = FALSE

\* size = readit(...); a count below zero is answered with a nak.
Read ==
  /\ sender = "read"
  /\ \E err \in BOOLEAN :
       LET r == readit(rb, pos, file, blksize, convert, err) IN
       /\ rb' = r.b /\ pos' = r.pos
       /\ ioerr' = (ioerr \/ err)
       /\ IF BufCount(r.b) < 0
          THEN sender' = "nak" /\ UNCHANGED slot
          ELSE sender' = "wait" /\ slot' = <<BufData(r.b)>>
  /\ UNCHANGED <<params, wb, disk, receiver>>

\* read_ahead(...) after a send; a retransmission calls it again.
ReadAhead ==
  /\ sender = "wait"
  /\ \E err \in BOOLEAN :
       LET r == read_ahead(rb, pos, file, blksize, convert, err) IN
       /\ rb' = r.b /\ pos' = r.pos
       /\ ioerr' = (ioerr \/ err)
  /\ UNCHANGED <<params, wb, disk, slot, sender, receiver>>

\* size = writeit(...): the block received goes to the write buffers.
Recv ==
  /\ receiver = "recv" /\ slot # <<>>
  /\ \E err \in BOOLEAN :
       LET w == writeit(RecvInto(wb, slot[1]), disk, convert, err) IN
       /\ wb' = w.b /\ disk' = w.disk
       /\ ioerr' = (ioerr \/ err)
  /\ slot' = <<>>
  /\ receiver' = IF Len(slot[1]) = blksize THEN "ack" ELSE "last"
  /\ UNCHANGED <<params, rb, pos, sender>>

\* The ack is sent, then write_behind(...).  The sender's loop ends with the
\* first block that is not full.
Ack ==
  /\ receiver \in {"ack", "last"}
  /\ sender = "wait"
  /\ \E err \in BOOLEAN :
       LET w == write_behind(wb, disk, convert, err) IN
       /\ wb' = w.b /\ disk' = w.disk
       /\ ioerr' = (ioerr \/ err)
  /\ receiver' = IF receiver = "last" THEN "done" ELSE "recv"
  /\ sender'   = IF BufCount(rb) = blksize THEN "read" ELSE "done"
  /\ UNCHANGED <<params, rb, pos, slot>>

Next == Read \/ ReadAhead \/ Recv \/ Ack

Spec == Init /\ [][Next]_vars

-----------------------------------------------------------------------------
(* A transfer that ends without an input or output error has reproduced    *)
(* the file, whatever blocks the conversion and the read-ahead cut it      *)
(* into: the CR and the LF (or NUL) of an expanded newline may be in two   *)
(* blocks, in two buffers, on both sides (tftpsubs.c newline, prevchar).   *)
EndToEnd == receiver = "done" /\ ~ioerr => disk = file

(* The assertion that readit carries in a comment,                         *)
(* assert(b->counter != BF_FREE): readit never hands the caller a buffer   *)
(* that was not filled, however many times read_ahead ran in between.      *)
ReadBufferFilled == sender # "read" => BufCount(rb) \notin {BF_FREE, BF_ALLOC}
=============================================================================
