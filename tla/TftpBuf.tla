------------------------------- MODULE TftpBuf -------------------------------
(***************************************************************************)
(* remote_cmds/tftp.tproj/tftpsubs.c (tftpd.tproj has the same code): the  *)
(* two-buffer read-ahead and write-behind routines that the TFTP client    *)
(* and server share, and their netascii conversion.                        *)
(*                                                                         *)
(* The C globals bfs[2], current, nextone, newline and prevchar are one    *)
(* record.  A routine is an operator from the record (and the file         *)
(* position, or the contents of the output file) to the new values.        *)
(***************************************************************************)
EXTENDS Integers, Sequences

\* Values of bf.counter that are not a byte count.
BF_ALLOC == -3      \* handed out, not yet filled
BF_FREE  == -2      \* free

\* The bytes the conversion tells apart; NoChar is prevchar's initial -1.
CR     == "cr"
LF     == "lf"
NUL    == "nul"
NoChar == "none"

Bufs == {0, 1}

\* current = !current, nextone = !nextone
Flip(i) == IF i = 0 THEN 1 ELSE 0

rw_init(x) ==
  [counter  |-> [i \in Bufs |-> IF i = 0 THEN BF_ALLOC ELSE BF_FREE],
   data     |-> [i \in Bufs |-> <<>>],
   current  |-> 0,
   nextone  |-> x,
   newline  |-> FALSE,
   prevchar |-> NoChar]

\* The globals, for files over the set of bytes B.
BufType(B) ==
  [counter : [Bufs -> Int], data : [Bufs -> Seq(B)], current : Bufs,
   nextone : Bufs, newline : BOOLEAN, prevchar : B \cup {NoChar}]

r_init == rw_init(1)
w_init == rw_init(0)

-----------------------------------------------------------------------------
(* Reading.  A result is [b |-> buffers, pos |-> file offset].             *)

\* One turn of the loop of read_ahead: the second byte of an expanded
\* newline, or the next byte of the file, or nothing at end of file.
FillStep(s, file) ==
  IF s.newline
  THEN [s EXCEPT !.out = Append(@, IF s.prevchar = LF THEN LF ELSE NUL),
                 !.newline = FALSE]
  ELSE IF s.pos = Len(file) THEN s
  ELSE LET c == file[s.pos + 1] IN
       IF c \in {LF, CR}
       THEN [s EXCEPT !.out = Append(@, CR), !.pos = @ + 1,
                      !.prevchar = c, !.newline = TRUE]
       ELSE [s EXCEPT !.out = Append(@, c), !.pos = @ + 1]

\* Mutant: the newline being expanded is forgotten between two blocks.
FillAsciiForgets(b, pos, file, amt) ==
  LET fill[i \in 0..amt] ==
        IF i = 0
        THEN [out |-> <<>>, pos |-> pos,
              newline |-> FALSE, prevchar |-> b.prevchar]
        ELSE FillStep(fill[i - 1], file)
  IN fill[amt]

FillAscii(b, pos, file, amt) ==
  LET fill[i \in 0..amt] ==
        IF i = 0
        THEN [out |-> <<>>, pos |-> pos,
              newline |-> b.newline, prevchar |-> b.prevchar]
        ELSE FillStep(fill[i - 1], file)
  IN fill[amt]

FillOctet(b, pos, file, amt) ==
  LET out == SubSeq(file, pos + 1, pos + IF amt < Len(file) - pos
                                         THEN amt ELSE Len(file) - pos)
  IN [out |-> out, pos |-> pos + Len(out),
      newline |-> b.newline, prevchar |-> b.prevchar]

\* err: the read fails.  read() then returns -1, which is stored as the
\* count; getc() returns EOF, which ends the block as the end of file does.
read_ahead(b, pos, file, amt, convert, err) ==
  IF b.counter[b.nextone] # BF_FREE
  THEN [b |-> b, pos |-> pos]
  ELSE LET fill == IF convert
                   THEN FillAscii(b, pos, IF err THEN SubSeq(file, 1, pos)
                                          ELSE file, amt)
                   ELSE FillOctet(b, pos, file, IF err THEN 0 ELSE amt)
       IN [b   |-> [b EXCEPT !.counter[b.nextone] =
                                  IF err /\ ~convert THEN -1
                                  ELSE Len(fill.out),
                             !.data[b.nextone] = fill.out,
                             !.nextone  = Flip(@),
                             !.newline  = fill.newline,
                             !.prevchar = fill.prevchar],
           pos |-> fill.pos]

\* Mutant: the new buffer is taken to be filled by read-ahead.
readitTrusts(b, pos, file, amt, convert, err) ==
  [b |-> [b EXCEPT !.counter[b.current] = BF_FREE, !.current = Flip(@)],
   pos |-> pos]

\* Frees the buffer just acknowledged and moves to the other one, filling
\* it when read-ahead has not done so.
readit(b, pos, file, amt, convert, err) ==
  LET freed == [b EXCEPT !.counter[b.current] = BF_FREE,
                         !.current = Flip(@)]
  IN IF freed.counter[freed.current] = BF_FREE
     THEN read_ahead(freed, pos, file, amt, convert, err)
     ELSE [b |-> freed, pos |-> pos]

\* What the caller of readit sees: the buffer *dpp points to and the count.
BufData(b)  == b.data[b.current]
BufCount(b) == b.counter[b.current]

-----------------------------------------------------------------------------
(* Writing.  A result is [b |-> buffers, disk |-> contents of the file].   *)

\* recv() into the current buffer; no counter changes.
RecvInto(b, data) == [b EXCEPT !.data[b.current] = data]

\* One turn of the loop of write_behind: CR LF is smashed into LF, the NUL
\* of CR NUL is skipped, anything else is put.
PutStep(s, c) ==
  [prevchar |-> c,
   disk |-> IF s.prevchar = CR /\ c = LF THEN Append(SubSeq(s.disk, 1, Len(s.disk) - 1), LF)
            ELSE IF s.prevchar = CR /\ c = NUL THEN s.disk
            ELSE Append(s.disk, c)]

\* The loop of write_behind over the bytes of a buffer.
PutAll(s, data) ==
  LET after[k \in 0..Len(data)] ==
        IF k = 0 THEN s ELSE PutStep(after[k - 1], data[k])
  IN after[Len(data)]

\* Mutant: the buffer is written and not marked free.
write_behindKeeps(b, disk, convert, err) ==
  LET n == b.nextone IN
  [b |-> b, disk |-> IF b.counter[n] <= 0 \/ err THEN disk ELSE disk \o b.data[n]]

\* err: the write fails; no caller looks at the value write_behind returns.
write_behind(b, disk, convert, err) ==
  LET n     == b.nextone
      count == b.counter[n]
      freed == [b EXCEPT !.counter[n] = BF_FREE, !.nextone = Flip(@)]
      put   == PutAll([prevchar |-> b.prevchar, disk |-> disk], b.data[n])
  IN IF count < -1 THEN [b |-> b, disk |-> disk]
     ELSE IF count <= 0 THEN [b |-> freed, disk |-> disk]
     ELSE IF convert
     THEN [b    |-> [freed EXCEPT !.prevchar = put.prevchar],
           disk |-> IF err THEN disk ELSE put.disk]
     ELSE [b |-> freed, disk |-> IF err THEN disk ELSE disk \o b.data[n]]

\* Records the size of the block received and hands out the other buffer,
\* flushing first if that one is still in use.
writeit(b, disk, convert, err) ==
  LET full    == [b EXCEPT !.counter[b.current] = Len(b.data[b.current]),
                           !.current = Flip(@)]
      flushed == IF full.counter[full.current] # BF_FREE
                 THEN write_behind(full, disk, convert, err)
                 ELSE [b |-> full, disk |-> disk]
  IN [b    |-> [flushed.b EXCEPT !.counter[full.current] = BF_ALLOC],
      disk |-> flushed.disk]
=============================================================================
