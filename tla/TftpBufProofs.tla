--------------------------- MODULE TftpBufProofs ---------------------------
(* What the routines of TftpBuf preserve in octet mode, for files of any   *)
(* length over any set of bytes.                                           *)
EXTENDS TftpBuf, TLAPS

(* Facts about the parts of a sequence, which every buffer is built from.  *)
(* They are stated here because the library's theorem modules bring along  *)
(* so many definitions that every obligation above would be slower.        *)

(* SubSeq(s, m, n): its type, its length and its elements.                 *)
LEMMA PartOfSeq ==
  ASSUME NEW S, NEW s, NEW m \in Int, NEW n \in Int,
         \A i \in m..n : s[i] \in S
  PROVE  /\ SubSeq(s, m, n) \in Seq(S)
         /\ Len(SubSeq(s, m, n)) = IF m <= n THEN n - m + 1 ELSE 0
         /\ \A i \in 1..(n - m + 1) : SubSeq(s, m, n)[i] = s[m + i - 1]
BY SMT

(* The part after the end is empty, as is any part that ends before it     *)
(* starts.                                                                 *)
LEMMA EmptyPart ==
  ASSUME NEW s, NEW m \in Int, NEW n \in Int, n < m
  PROVE  SubSeq(s, m, n) = <<>>
BY SMT

(* The part from the first element to the last is the sequence itself.     *)
LEMMA WholeSeq == \A S : \A s \in Seq(S) : SubSeq(s, 1, Len(s)) = s
BY SMT

(* Nothing appended, or put in front, changes nothing.                     *)
LEMMA ConcatNothing ==
  \A S : \A s \in Seq(S) : s \o <<>> = s /\ <<>> \o s = s
BY SMT

(* Two parts that meet are one part.                                       *)
LEMMA AdjacentParts ==
  ASSUME NEW S, NEW s \in Seq(S), NEW m \in 1..(Len(s) + 1),
         NEW k \in (m - 1)..Len(s), NEW n \in k..Len(s)
  PROVE  SubSeq(s, m, k) \o SubSeq(s, k + 1, n) = SubSeq(s, m, n)
BY SMT

(* The fields of the buffer record, and what the constants and Flip are.   *)
LEMMA Fields ==
  /\ BF_FREE \in Int /\ BF_ALLOC \in Int /\ -1 \in Int
  /\ \A i \in Bufs : Flip(i) \in Bufs
  /\ \A B : \A b \in BufType(B) :
       /\ b.counter \in [Bufs -> Int] /\ b.data \in [Bufs -> Seq(B)]
       /\ b.current \in Bufs /\ b.nextone \in Bufs
       /\ b.counter[b.current] \in Int /\ b.counter[b.nextone] \in Int
       /\ b.data[b.current] \in Seq(B) /\ b.data[b.nextone] \in Seq(B)
<1>1. BF_FREE \in Int /\ BF_ALLOC \in Int /\ -1 \in Int
  BY DEF BF_FREE, BF_ALLOC
<1>2. \A i \in Bufs : Flip(i) \in Bufs
  BY DEF Bufs, Flip
<1>3. QED
  BY <1>1, <1>2 DEF BufType

(* The state r_init() and w_init() set up is well formed.                  *)
LEMMA InitType ==
  ASSUME NEW B
  PROVE  r_init \in BufType(B) /\ w_init \in BufType(B)
<1>1. <<>> \in Seq(B)
  OBVIOUS
<1>2. QED
  BY <1>1 DEF r_init, w_init, rw_init, BufType, Bufs, BF_ALLOC, BF_FREE, NoChar

(* The loop of read_ahead in octet mode takes bytes of the file, and the   *)
(* offset stays within it.                                                 *)
LEMMA FillOctetType ==
  ASSUME NEW B, NEW b \in BufType(B), NEW file \in Seq(B),
         NEW pos \in 0..Len(file), NEW amt \in Nat
  PROVE  LET f == FillOctet(b, pos, file, amt)
         IN /\ f.out \in Seq(B) /\ Len(f.out) <= amt
            /\ f.pos \in 0..Len(file)
            /\ f.newline = b.newline /\ f.prevchar = b.prevchar
<1> DEFINE n == IF amt < Len(file) - pos THEN amt ELSE Len(file) - pos
           out == SubSeq(file, pos + 1, pos + n)
<1>1. Len(file) \in Nat /\ n \in 0..(Len(file) - pos) /\ n <= amt
  OBVIOUS
<1>2. \A k \in (pos + 1)..(pos + n) : file[k] \in B
  BY <1>1
<1>3. out \in Seq(B) /\ Len(out) = n
  <2> DEFINE lo == pos + 1
             hi == pos + n
  <2>1. lo \in Int /\ hi \in Int /\ \A k \in lo..hi : file[k] \in B
    BY <1>1, <1>2
  <2> HIDE DEF lo, hi, n
  <2>2. /\ SubSeq(file, lo, hi) \in Seq(B)
        /\ Len(SubSeq(file, lo, hi)) = IF lo <= hi THEN hi - lo + 1 ELSE 0
    BY <2>1, PartOfSeq
  <2>3. QED
    BY <1>1, <2>2 DEF lo, hi
<1>4. FillOctet(b, pos, file, amt) =
        [out |-> out, pos |-> pos + Len(out), newline |-> b.newline,
         prevchar |-> b.prevchar]
  BY DEF FillOctet
<1>5. QED
  <2> HIDE DEF out, n
  <2>1. QED BY <1>1, <1>3, <1>4

(* read_ahead fills a buffer with bytes of the file or leaves it alone.    *)
LEMMA ReadAheadType ==
  ASSUME NEW B, NEW b \in BufType(B), NEW file \in Seq(B),
         NEW pos \in 0..Len(file), NEW amt \in Nat, NEW err \in BOOLEAN
  PROVE  LET r == read_ahead(b, pos, file, amt, FALSE, err)
         IN r.b \in BufType(B) /\ r.pos \in 0..Len(file)
<1> DEFINE r == read_ahead(b, pos, file, amt, FALSE, err)
<1> SUFFICES r.b \in BufType(B) /\ r.pos \in 0..Len(file)
  BY Zenon
<1>1. CASE b.counter[b.nextone] # BF_FREE
  BY <1>1 DEF read_ahead
<1>2. CASE b.counter[b.nextone] = BF_FREE
  <2> DEFINE f == FillOctet(b, pos, file, IF err THEN 0 ELSE amt)
  <2>1. (IF err THEN 0 ELSE amt) \in Nat
    OBVIOUS
  <2>2. /\ f.out \in Seq(B) /\ f.pos \in 0..Len(file)
        /\ f.newline = b.newline /\ f.prevchar = b.prevchar
    BY <2>1, FillOctetType
  <2>3. r =
          [b   |-> [b EXCEPT !.counter[b.nextone] =
                                IF err THEN -1 ELSE Len(f.out),
                             !.data[b.nextone] = f.out,
                             !.nextone  = Flip(@),
                             !.newline  = f.newline,
                             !.prevchar = f.prevchar],
           pos |-> f.pos]
    BY <1>2 DEF read_ahead
  <2>4. Len(f.out) \in Int
    BY <2>2
  <2> HIDE DEF f, r
  <2>5. QED
    BY ZenonT(30), <2>2, <2>3, <2>4, Fields DEF BufType
<1>3. QED
  BY Zenon, <1>1, <1>2

(* readit hands out a well-formed buffer.                                  *)
LEMMA ReaditType ==
  ASSUME NEW B, NEW b \in BufType(B), NEW file \in Seq(B),
         NEW pos \in 0..Len(file), NEW amt \in Nat, NEW err \in BOOLEAN
  PROVE  LET r == readit(b, pos, file, amt, FALSE, err)
         IN /\ r.b \in BufType(B) /\ r.pos \in 0..Len(file)
            /\ BufData(r.b) \in Seq(B) /\ BufCount(r.b) \in Int
<1> DEFINE freed == [b EXCEPT !.counter[b.current] = BF_FREE,
                              !.current = Flip(@)]
<1>1. freed \in BufType(B)
  BY Zenon, Fields DEF BufType
<1>2. LET r == read_ahead(freed, pos, file, amt, FALSE, err)
      IN r.b \in BufType(B) /\ r.pos \in 0..Len(file)
  BY Zenon, <1>1, ReadAheadType
<1>3. LET r == readit(b, pos, file, amt, FALSE, err)
      IN r.b \in BufType(B) /\ r.pos \in 0..Len(file)
  <2> DEFINE r == readit(b, pos, file, amt, FALSE, err)
             a == read_ahead(freed, pos, file, amt, FALSE, err)
  <2>1. r = IF freed.counter[freed.current] = BF_FREE THEN a
            ELSE [b |-> freed, pos |-> pos]
    BY DEF readit
  <2>2. a.b \in BufType(B) /\ a.pos \in 0..Len(file)
    BY Zenon, <1>2
  <2> HIDE DEF freed, r, a
  <2>3. r.b \in BufType(B) /\ r.pos \in 0..Len(file)
    BY <1>1, <2>1, <2>2
  <2>4. QED
    BY Zenon, <2>3 DEF r
<1>4. QED
  BY Zenon, <1>3, Fields DEF BufData, BufCount

(* write_behind writes bytes it was given.                                 *)
LEMMA WriteBehindType ==
  ASSUME NEW B, NEW b \in BufType(B), NEW disk \in Seq(B), NEW err \in BOOLEAN
  PROVE  LET w == write_behind(b, disk, FALSE, err)
         IN w.b \in BufType(B) /\ w.disk \in Seq(B)
<1> DEFINE freed == [b EXCEPT !.counter[b.nextone] = BF_FREE,
                              !.nextone = Flip(@)]
<1>1. freed \in BufType(B)
  BY Zenon, Fields DEF BufType
<1>2. b.data[b.nextone] \in Seq(B)
  BY Fields
<1>3. disk \o b.data[b.nextone] \in Seq(B)
  BY <1>2
<1> DEFINE w == write_behind(b, disk, FALSE, err)
<1> SUFFICES w.b \in BufType(B) /\ w.disk \in Seq(B)
  BY Zenon
<1>4. w =
        IF b.counter[b.nextone] < -1 THEN [b |-> b, disk |-> disk]
        ELSE IF b.counter[b.nextone] <= 0 THEN [b |-> freed, disk |-> disk]
        ELSE [b |-> freed,
              disk |-> IF err THEN disk ELSE disk \o b.data[b.nextone]]
  BY DEF write_behind
<1>5. QED
  <2> HIDE DEF freed, w
  <2>1. QED BY <1>1, <1>3, <1>4

(* writeit keeps the buffers well formed.                                  *)
LEMMA WriteitType ==
  ASSUME NEW B, NEW b \in BufType(B), NEW data \in Seq(B), NEW disk \in Seq(B),
         NEW err \in BOOLEAN
  PROVE  LET w == writeit(RecvInto(b, data), disk, FALSE, err)
         IN w.b \in BufType(B) /\ w.disk \in Seq(B)
<1> DEFINE r == RecvInto(b, data)
           full == [r EXCEPT !.counter[r.current] = Len(r.data[r.current]),
                             !.current = Flip(@)]
           flushed == IF full.counter[full.current] # BF_FREE
                      THEN write_behind(full, disk, FALSE, err)
                      ELSE [b |-> full, disk |-> disk]
<1>1. r \in BufType(B)
  BY Zenon, Fields DEF RecvInto, BufType
<1>2. r.data[r.current] \in Seq(B) /\ Len(r.data[r.current]) \in Int
  <2> HIDE DEF r
  <2>1. QED BY <1>1, Fields
<1>3. full \in BufType(B)
  <2> HIDE DEF r
  <2>1. QED BY Zenon, <1>1, <1>2, Fields DEF BufType
<1>4. flushed.b \in BufType(B) /\ flushed.disk \in Seq(B)
  <2> HIDE DEF full
  <2>1. LET w == write_behind(full, disk, FALSE, err)
        IN w.b \in BufType(B) /\ w.disk \in Seq(B)
    BY Zenon, <1>3, WriteBehindType
  <2>2. QED BY Zenon, <1>3, <2>1
<1> DEFINE w == writeit(r, disk, FALSE, err)
<1> SUFFICES w.b \in BufType(B) /\ w.disk \in Seq(B)
  BY Zenon
<1>5. w =
        [b    |-> [flushed.b EXCEPT !.counter[full.current] = BF_ALLOC],
         disk |-> flushed.disk]
  BY DEF writeit
<1>6. full.current \in Bufs
  <2> HIDE DEF full
  <2>1. QED BY <1>3 DEF BufType
<1>7. QED
  <2> HIDE DEF full, flushed, w
  <2>1. QED BY Zenon, <1>4, <1>5, <1>6, Fields DEF BufType

-----------------------------------------------------------------------------
(* The blocks a file is cut into, and what the buffers hold of them.       *)

\* The number of bytes before block k, in blocks of amt bytes.
Before(amt, k) == (k - 1) * amt

Least(a, b) == IF a < b THEN a ELSE b

\* Block k of a file; the blocks past its end are empty.
Block(file, amt, k) ==
  SubSeq(file, Before(amt, k) + 1, Least(Before(amt, k + 1), Len(file)))

\* The buffer readit() handed out is filled with block k.
Holds(b, file, amt, k) ==
  BufData(b) = Block(file, amt, k) /\ BufCount(b) = Len(Block(file, amt, k))

\* Between readit() and read_ahead(): the other buffer is free.
Taken(b, pos, file, amt, k) ==
  /\ Holds(b, file, amt, k)
  /\ b.nextone = Flip(b.current) /\ b.counter[b.nextone] = BF_FREE
  /\ pos = Least(Before(amt, k + 1), Len(file))

\* After read_ahead(): the other buffer is filled with block k + 1, or the
\* read of it has failed.
Ahead(b, pos, file, amt, k) ==
  /\ Holds(b, file, amt, k) /\ b.nextone = b.current
  /\ \/ b.counter[Flip(b.current)] = -1
     \/ /\ b.data[Flip(b.current)] = Block(file, amt, k + 1)
        /\ b.counter[Flip(b.current)] = Len(Block(file, amt, k + 1))
        /\ pos = Least(Before(amt, k + 2), Len(file))

\* Between write_behind() and writeit(): nothing waits to be written.
Clean(b) ==
  /\ b.nextone = b.current
  /\ b.counter[b.current] = BF_ALLOC /\ b.counter[Flip(b.current)] = BF_FREE

\* Between writeit() and write_behind(): d waits to be written.
Pending(b, d) ==
  /\ b.nextone = Flip(b.current) /\ b.counter[b.current] = BF_ALLOC
  /\ b.counter[b.nextone] = Len(d) /\ b.data[b.nextone] = d

(* Block k + 1 begins where block k ends.                                  *)
LEMMA BeforeNext ==
  ASSUME NEW amt \in Nat, NEW k \in Nat
  PROVE  /\ Before(amt, k) \in Int /\ Before(amt, 1) = 0
         /\ Before(amt, k + 1) \in Nat
         /\ Before(amt, k + 1) = Before(amt, k) + amt
         /\ Before(amt, k + 2) = Before(amt, k + 1) + amt
<1>1. Before(amt, k) = (k - 1) * amt /\ Before(amt, k + 1) = k * amt
  BY DEF Before
<1>2. Before(amt, k + 2) = (k + 1) * amt /\ Before(amt, 1) = 0 * amt
  BY DEF Before
<1>3. /\ k * amt \in Nat /\ (k - 1) * amt \in Int
      /\ k * amt = (k - 1) * amt + amt /\ (k + 1) * amt = k * amt + amt
      /\ 0 * amt = 0
  OBVIOUS
<1>4. QED
  BY <1>1, <1>2, <1>3

(* A block is a piece of the file; it is full when the file goes on that   *)
(* far, and all the blocks before it and it make the file up to its end.   *)
LEMMA BlockProperties ==
  ASSUME NEW B, NEW file \in Seq(B), NEW amt \in Nat, NEW k \in Nat \ {0}
  PROVE  LET d == Block(file, amt, k) IN
         /\ d \in Seq(B) /\ Len(d) \in 0..amt
         /\ Before(amt, k) <= Len(file) =>
              /\ Len(d) = Least(amt, Len(file) - Before(amt, k))
              /\ SubSeq(file, 1, Before(amt, k)) \o d
                   = SubSeq(file, 1, Least(Before(amt, k + 1), Len(file)))
         /\ Len(file) <= Before(amt, k) => d = <<>>
<1> DEFINE lo == Before(amt, k)
           hi == Least(Before(amt, k + 1), Len(file))
           d == SubSeq(file, lo + 1, hi)
<1>1. lo \in Nat /\ Before(amt, k + 1) = lo + amt
  <2>1. PICK j \in Nat : k = j + 1
    <3>1. k - 1 \in Nat /\ k = (k - 1) + 1
      OBVIOUS
    <3>2. QED BY <3>1
  <2>2. Before(amt, j + 1) \in Nat
    BY Zenon, BeforeNext
  <2>3. QED BY <2>1, <2>2, BeforeNext
<1>2. Len(file) \in Nat /\ hi \in 0..Len(file) /\ hi <= lo + amt
  BY <1>1 DEF Least
<1>3. Block(file, amt, k) = d
  BY DEF Block
<1>4. hi = lo + amt \/ hi = Len(file)
  BY <1>1 DEF Least
<1>5. hi >= lo \/ hi = Len(file)
  BY <1>1, <1>4
<1> HIDE DEF lo, hi
<1>6. \A i \in (lo + 1)..hi : file[i] \in B
  BY <1>1, <1>2
<1>7. d \in Seq(B) /\ Len(d) = IF lo + 1 <= hi THEN hi - (lo + 1) + 1 ELSE 0
  BY <1>1, <1>2, <1>6, PartOfSeq
<1>8. Len(d) \in 0..amt
  BY <1>1, <1>2, <1>7
<1>9. ASSUME lo <= Len(file)
      PROVE  /\ Len(d) = Least(amt, Len(file) - lo)
             /\ SubSeq(file, 1, lo) \o d = SubSeq(file, 1, hi)
  <2>1. hi = Least(lo + amt, Len(file)) /\ lo <= hi
    BY <1>1, <1>2, <1>9 DEF hi, Least
  <2>2. Len(d) = Least(amt, Len(file) - lo)
    BY <1>1, <1>2, <1>7, <1>9, <2>1 DEF Least
  <2>3. SubSeq(file, 1, lo) \o SubSeq(file, lo + 1, hi) = SubSeq(file, 1, hi)
    <3>1. 1 \in 1..(Len(file) + 1) /\ lo \in (1 - 1)..hi /\ hi \in lo..Len(file)
      BY <1>1, <1>2, <2>1
    <3>2. QED BY <3>1, AdjacentParts
  <2>4. QED BY Zenon, <2>2, <2>3
<1>10. ASSUME Len(file) <= lo PROVE d = <<>>
  BY <1>1, <1>2, <1>10, EmptyPart
<1>11. QED
  <2> HIDE DEF d
  <2>1. QED BY Zenon, <1>3, <1>7, <1>8, <1>9, <1>10 DEF lo, hi

(* Reading on from the end of the blocks before it gives block k.          *)
LEMMA FillOctetBlock ==
  ASSUME NEW B, NEW b \in BufType(B), NEW file \in Seq(B), NEW amt \in Nat,
         NEW k \in Nat \ {0}
  PROVE  LET f == FillOctet(b, Least(Before(amt, k), Len(file)), file, amt) IN
         /\ f.out = Block(file, amt, k)
         /\ f.pos = Least(Before(amt, k + 1), Len(file))
<1> DEFINE lo  == Before(amt, k)
           pos == Least(lo, Len(file))
           n   == IF amt < Len(file) - pos THEN amt ELSE Len(file) - pos
           out == SubSeq(file, pos + 1, pos + n)
           f   == FillOctet(b, pos, file, amt)
<1>1. lo \in Nat /\ Before(amt, k + 1) = lo + amt
  <2>1. k - 1 \in Nat /\ k = (k - 1) + 1
    OBVIOUS
  <2>2. Before(amt, (k - 1) + 1) \in Nat
    BY Zenon, <2>1, BeforeNext
  <2>3. QED BY <2>1, <2>2, BeforeNext
<1>2. f.out = out /\ f.pos = pos + Len(out)
  BY Zenon DEF FillOctet
<1> HIDE DEF f, lo
<1>3. pos \in 0..Len(file) /\ n \in Nat /\ Len(file) \in Nat
  BY <1>1 DEF Least
<1>4. CASE lo <= Len(file)
  <2>0. pos = lo
    BY <1>1, <1>3, <1>4 DEF Least
  <2> HIDE DEF pos
  <2>1. pos + n = Least(Before(amt, k + 1), Len(file))
    BY <1>1, <1>3, <1>4, <2>0 DEF Least
  <2>2. out = Block(file, amt, k)
    BY Zenon, <2>0, <2>1 DEF Block, lo
  <2>3. Len(Block(file, amt, k)) = Least(amt, Len(file) - lo)
    BY <1>4, BlockProperties DEF lo
  <2> HIDE DEF out, n
  <2>4. pos + Len(out) = Least(Before(amt, k + 1), Len(file))
    BY <1>1, <1>3, <1>4, <2>0, <2>2, <2>3 DEF Least
  <2>5. QED BY <1>2, <2>2, <2>4 DEF f, lo, pos
<1>5. CASE Len(file) < lo
  <2>1. pos = Len(file) /\ n = 0
    BY <1>1, <1>5 DEF Least
  <2>2. out = <<>>
    BY <1>3, <2>1, EmptyPart
  <2>3. Block(file, amt, k) = <<>>
    BY <1>1, <1>3, <1>5, BlockProperties DEF lo
  <2>4. Least(Before(amt, k + 1), Len(file)) = Len(file)
    BY <1>1, <1>3, <1>5 DEF Least
  <2> HIDE DEF out, n
  <2>5. pos + Len(out) = Len(file)
    BY <1>3, <2>1, <2>2
  <2>6. QED BY <1>2, <2>2, <2>3, <2>4, <2>5 DEF f, lo
<1>6. QED
  BY <1>1, <1>3, <1>4, <1>5

\* r is what reading block k into the free buffer of b results in.
Fills(r, b, file, amt, k, err) ==
  /\ r.b.current = b.current /\ r.b.nextone = Flip(b.nextone)
  /\ \A j \in Bufs \ {b.nextone} : /\ r.b.counter[j] = b.counter[j]
                                   /\ r.b.data[j] = b.data[j]
  /\ IF err THEN r.b.counter[b.nextone] = -1
     ELSE /\ r.b.data[b.nextone] = Block(file, amt, k)
          /\ r.b.counter[b.nextone] = Len(Block(file, amt, k))
          /\ r.pos = Least(Before(amt, k + 1), Len(file))

(* read_ahead() into the free buffer: the next block, or a failed read.    *)
LEMMA ReadAheadFills ==
  ASSUME NEW B, NEW b \in BufType(B), NEW file \in Seq(B), NEW amt \in Nat,
         NEW err \in BOOLEAN, NEW k \in Nat \ {0}, NEW pos,
         pos = Least(Before(amt, k), Len(file)),
         b.counter[b.nextone] = BF_FREE
  PROVE  Fills(read_ahead(b, pos, file, amt, FALSE, err), b, file, amt, k, err)
<1> DEFINE n == b.nextone
           r == read_ahead(b, pos, file, amt, FALSE, err)
           f == FillOctet(b, pos, file, IF err THEN 0 ELSE amt)
           count == IF err THEN -1 ELSE Len(f.out)
           nb == [b EXCEPT !.counter[n] = count, !.data[n] = f.out,
                           !.nextone = Flip(@), !.newline = f.newline,
                           !.prevchar = f.prevchar]
<1>1. r = [b |-> nb, pos |-> f.pos]
  BY DEF read_ahead
<1>2. ~err => /\ f.out = Block(file, amt, k)
              /\ f.pos = Least(Before(amt, k + 1), Len(file))
  BY FillOctetBlock
<1>3. n \in Bufs /\ b.counter \in [Bufs -> Int] /\ b.data \in [Bufs -> Seq(B)]
  BY Fields
<1> HIDE DEF f, n
<1>4. /\ nb.current = b.current /\ nb.nextone = Flip(b.nextone)
      /\ nb.counter = [b.counter EXCEPT ![n] = count]
      /\ nb.data = [b.data EXCEPT ![n] = f.out]
  BY DEF BufType
<1> HIDE DEF nb, count, r
<1>5. r.b = nb /\ r.pos = f.pos
  BY <1>1
<1>6. /\ nb.counter[n] = count /\ nb.data[n] = f.out
      /\ \A j \in Bufs \ {n} : nb.counter[j] = b.counter[j] /\ nb.data[j] = b.data[j]
  BY <1>3, <1>4
<1>7. /\ r.b.current = b.current /\ r.b.nextone = Flip(b.nextone)
      /\ \A j \in Bufs \ {n} : r.b.counter[j] = b.counter[j] /\ r.b.data[j] = b.data[j]
  BY Zenon, <1>4, <1>5, <1>6
<1>8. CASE err
  BY Zenon, <1>5, <1>6, <1>7, <1>8 DEF count, n, r, Fills
<1>9. CASE ~err
  BY Zenon, <1>2, <1>5, <1>6, <1>7, <1>9 DEF count, n, r, Fills
<1>10. QED
  BY Zenon, <1>8, <1>9

(* The first readit() reads block 1 or reports that the read failed.       *)
LEMMA ReaditFirst ==
  ASSUME NEW B, NEW file \in Seq(B), NEW amt \in Nat, NEW err \in BOOLEAN
  PROVE  LET r == readit(r_init, 0, file, amt, FALSE, err)
         IN BufCount(r.b) = -1 \/ Taken(r.b, r.pos, file, amt, 1)
<1> DEFINE b == [r_init EXCEPT !.counter[r_init.current] = BF_FREE,
                               !.current = Flip(@)]
           r == readit(r_init, 0, file, amt, FALSE, err)
           a == read_ahead(b, 0, file, amt, FALSE, err)
<1>1. b \in BufType(B)
  BY Zenon, InitType, Fields DEF BufType
<1>2. /\ b.current = 1 /\ b.nextone = 1
      /\ b.counter[0] = BF_FREE /\ b.counter[1] = BF_FREE
  BY DEF r_init, rw_init, Flip, Bufs, BF_FREE, BF_ALLOC
<1>3. r = a
  <2>1. r = IF b.counter[b.current] = BF_FREE THEN a ELSE [b |-> b, pos |-> 0]
    BY DEF readit
  <2> HIDE DEF b, r, a
  <2>2. QED BY <1>2, <2>1
<1>4. Least(Before(amt, 1), Len(file)) = 0
  <2>1. Before(amt, 1) = 0 /\ Len(file) \in Nat
    BY DEF Before
  <2>2. QED BY <2>1 DEF Least
<1> HIDE DEF b, r
<1>5. /\ a.b.current = 1 /\ a.b.nextone = 0 /\ a.b.counter[0] = BF_FREE
      /\ IF err THEN a.b.counter[1] = -1
         ELSE /\ a.b.data[1] = Block(file, amt, 1)
              /\ a.b.counter[1] = Len(Block(file, amt, 1))
              /\ a.pos = Least(Before(amt, 1 + 1), Len(file))
  <2>1. 0 \in Bufs \ {b.nextone} /\ Flip(1) = 0 /\ b.counter[b.nextone] = BF_FREE
    BY <1>2 DEF Bufs, Flip
  <2>2. Fills(a, b, file, amt, 1, err)
    <3>1. \A k \in Nat \ {0} : \A pos : pos = Least(Before(amt, k), Len(file)) =>
            Fills(read_ahead(b, pos, file, amt, FALSE, err), b, file, amt, k, err)
      BY Zenon, <1>1, <2>1, ReadAheadFills
    <3>2. 1 \in Nat \ {0}
      OBVIOUS
    <3>3. QED BY <1>4, <3>1, <3>2, Zenon
  <2> HIDE DEF a
  <2>3. QED BY <1>2, <2>1, <2>2 DEF Fills
<1> HIDE DEF a
<1>6. CASE err
  BY Zenon, <1>3, <1>5, <1>6 DEF BufCount, r
<1>7. CASE ~err
  <2>1. Flip(1) = 0
    BY DEF Flip
  <2>2. Taken(a.b, a.pos, file, amt, 1)
    BY <1>5, <1>7, <2>1 DEF Taken, Holds, BufCount, BufData
  <2>3. QED BY Zenon, <1>3, <2>2 DEF r
<1>8. QED
  BY Zenon, <1>6, <1>7

(* readit() moves on to the block that was read ahead, or reports that the *)
(* read failed.                                                            *)
LEMMA ReaditNext ==
  ASSUME NEW B, NEW b \in BufType(B), NEW file \in Seq(B), NEW amt \in Nat,
         NEW err \in BOOLEAN, NEW k \in Nat \ {0}, NEW pos,
         Ahead(b, pos, file, amt, k)
  PROVE  LET r == readit(b, pos, file, amt, FALSE, err)
         IN BufCount(r.b) = -1 \/ Taken(r.b, r.pos, file, amt, k + 1)
<1> DEFINE o == Flip(b.current)
           fr == [b EXCEPT !.counter[b.current] = BF_FREE, !.current = Flip(@)]
           r == readit(b, pos, file, amt, FALSE, err)
           a == read_ahead(fr, pos, file, amt, FALSE, err)
<1>1. o \in Bufs /\ o # b.current /\ Flip(o) = b.current /\ b.current \in Bufs
  BY Fields DEF Flip, Bufs
<1>2. b.counter \in [Bufs -> Int] /\ b.data \in [Bufs -> Seq(B)]
  BY Fields
<1>3. /\ fr.current = o /\ fr.nextone = b.current
      /\ fr.counter = [b.counter EXCEPT ![b.current] = BF_FREE]
      /\ fr.data = b.data
  BY DEF Ahead, BufType
<1>4. r = IF fr.counter[fr.current] = BF_FREE THEN a ELSE [b |-> fr, pos |-> pos]
  BY DEF readit
<1> HIDE DEF fr, r, a, o
<1>5. /\ fr.counter[o] = b.counter[o] /\ fr.data[o] = b.data[o]
      /\ fr.counter[b.current] = BF_FREE
  BY <1>1, <1>2, <1>3
<1>6. Len(Block(file, amt, k + 1)) \in Nat
  <2>1. k + 1 \in Nat \ {0}
    OBVIOUS
  <2>2. QED BY <2>1, BlockProperties
<1>7. b.counter[o] # BF_FREE
  BY <1>6 DEF Ahead, BF_FREE, o
<1>8. r.b = fr /\ r.pos = pos
  BY <1>3, <1>4, <1>5, <1>7
<1>9. CASE b.counter[o] = -1
  BY Zenon, <1>3, <1>5, <1>8, <1>9 DEF BufCount, r
<1>10. CASE b.counter[o] # -1
  <2>1. /\ b.data[o] = Block(file, amt, k + 1)
        /\ b.counter[o] = Len(Block(file, amt, k + 1))
        /\ pos = Least(Before(amt, k + 2), Len(file))
    BY <1>10 DEF Ahead, o
  <2>2. k + 1 + 1 = k + 2
    OBVIOUS
  <2>3. Taken(fr, pos, file, amt, k + 1)
    BY <1>1, <1>3, <1>5, <2>1, <2>2 DEF Taken, Holds, BufCount, BufData
  <2>4. QED BY Zenon, <1>8, <2>3 DEF r
<1>11. QED
  BY Zenon, <1>9, <1>10

(* read_ahead() after readit() reads the block after the one taken; called *)
(* again it does nothing.                                                  *)
LEMMA ReadAheadKeeps ==
  ASSUME NEW B, NEW b \in BufType(B), NEW file \in Seq(B), NEW amt \in Nat,
         NEW err \in BOOLEAN, NEW k \in Nat \ {0}, NEW pos,
         Taken(b, pos, file, amt, k) \/ Ahead(b, pos, file, amt, k)
  PROVE  LET r == read_ahead(b, pos, file, amt, FALSE, err)
         IN Ahead(r.b, r.pos, file, amt, k)
<1> DEFINE r == read_ahead(b, pos, file, amt, FALSE, err)
<1>1. Flip(b.current) \in Bufs /\ Flip(Flip(b.current)) = b.current
      /\ b.current \in Bufs /\ b.current # Flip(b.current)
  BY Fields DEF Flip, Bufs
<1>2. CASE Taken(b, pos, file, amt, k)
  <2>1. k + 1 \in Nat \ {0} /\ k + 1 + 1 = k + 2
    OBVIOUS
  <2>2. /\ b.counter[b.nextone] = BF_FREE /\ b.nextone = Flip(b.current)
        /\ pos = Least(Before(amt, k + 1), Len(file)) /\ Holds(b, file, amt, k)
    BY <1>2 DEF Taken
  <2>3. Fills(r, b, file, amt, k + 1, err)
    BY Zenon, <2>1, <2>2, ReadAheadFills
  <2> HIDE DEF r
  <2>4. Holds(r.b, file, amt, k) /\ r.b.nextone = r.b.current
    BY <1>1, <2>2, <2>3 DEF Fills, Holds, BufData, BufCount
  <2>5. CASE err
    BY Zenon, <2>2, <2>3, <2>4, <2>5 DEF Fills, Ahead, r
  <2>6. CASE ~err
    BY Zenon, <2>1, <2>2, <2>3, <2>4, <2>6 DEF Fills, Ahead, r
  <2>7. QED BY Zenon, <2>5, <2>6
<1>3. CASE Ahead(b, pos, file, amt, k)
  <2>1. Len(Block(file, amt, k)) \in Nat
    BY BlockProperties
  <2>2. b.counter[b.nextone] # BF_FREE
    BY <1>3, <2>1 DEF Ahead, Holds, BufCount, BF_FREE
  <2>3. r.b = b /\ r.pos = pos
    BY <2>2 DEF read_ahead
  <2> HIDE DEF r
  <2>4. Ahead(r.b, r.pos, file, amt, k)
    BY <1>3, <2>3
  <2>5. QED BY Zenon, <2>4 DEF r
<1>4. QED
  BY Zenon, <1>2, <1>3

-----------------------------------------------------------------------------
(* w_init() leaves nothing to be written.                                  *)
LEMMA WInitClean == Clean(w_init)
  BY DEF Clean, w_init, rw_init, Bufs, Flip, BF_ALLOC, BF_FREE

(* write_behind() with nothing to write does nothing.                      *)
LEMMA WriteBehindClean ==
  ASSUME NEW b, NEW disk, NEW err, Clean(b)
  PROVE  LET w == write_behind(b, disk, FALSE, err) IN w.b = b /\ w.disk = disk
<1>1. b.counter[b.nextone] < -1
  BY DEF Clean, BF_ALLOC
<1>2. QED
  BY <1>1 DEF write_behind

(* write_behind() writes the block that waits, all of it, or fails.        *)
LEMMA WriteBehindPending ==
  ASSUME NEW B, NEW b \in BufType(B), NEW disk \in Seq(B), NEW err \in BOOLEAN,
         NEW d \in Seq(B), Pending(b, d)
  PROVE  LET w == write_behind(b, disk, FALSE, err) IN
         Clean(w.b) /\ (~err => w.disk = disk \o d)
<1> DEFINE w == write_behind(b, disk, FALSE, err)
           fr == [b EXCEPT !.counter[b.nextone] = BF_FREE, !.nextone = Flip(@)]
<1>1. /\ b.counter[b.nextone] = Len(d) /\ b.data[b.nextone] = d /\ Len(d) \in Nat
      /\ b.nextone = Flip(b.current) /\ b.counter[b.current] = BF_ALLOC
  BY DEF Pending
<1>2. w = IF b.counter[b.nextone] < -1 THEN [b |-> b, disk |-> disk]
          ELSE IF b.counter[b.nextone] <= 0 THEN [b |-> fr, disk |-> disk]
          ELSE [b |-> fr,
                disk |-> IF err THEN disk ELSE disk \o b.data[b.nextone]]
  BY DEF write_behind
<1> HIDE DEF w, fr
<1>3. w.b = fr /\ (~err /\ Len(d) > 0 => w.disk = disk \o d)
      /\ (Len(d) = 0 => w.disk = disk)
  <2>1. CASE Len(d) = 0
    BY <1>1, <1>2, <2>1
  <2>2. CASE Len(d) > 0
    <3>1. ~(b.counter[b.nextone] < -1) /\ ~(b.counter[b.nextone] <= 0)
      BY <1>1, <2>2
    <3>2. w = [b |-> fr, disk |-> IF err THEN disk ELSE disk \o d]
      BY <1>1, <1>2, <3>1, Zenon
    <3>3. QED BY <2>2, <3>2
  <2>3. QED BY <1>1, <2>1, <2>2
<1>4. Len(d) = 0 => disk \o d = disk
  <2>1. Len(d) = 0 => d = <<>>
    OBVIOUS
  <2>2. disk \o <<>> = disk
    BY ConcatNothing
  <2>3. QED BY <2>1, <2>2
<1>5. ~err => w.disk = disk \o d
  BY <1>1, <1>3, <1>4
<1>6. Clean(fr)
  <2>1. /\ b.current \in Bufs /\ b.nextone \in Bufs /\ b.current # b.nextone
        /\ Flip(b.nextone) = b.current /\ b.counter \in [Bufs -> Int]
    BY <1>1, Fields DEF Flip, Bufs
  <2>2. /\ fr.nextone = Flip(b.nextone) /\ fr.current = b.current
        /\ fr.counter = [b.counter EXCEPT ![b.nextone] = BF_FREE]
    BY DEF fr, BufType
  <2>3. QED BY <1>1, <2>1, <2>2 DEF Clean
<1>7. QED
  BY Zenon, <1>3, <1>5, <1>6 DEF w

(* writeit() takes the block received and writes nothing yet.              *)
LEMMA WriteitClean ==
  ASSUME NEW B, NEW b \in BufType(B), NEW disk \in Seq(B), NEW err,
         NEW d \in Seq(B), Clean(b)
  PROVE  LET w == writeit(RecvInto(b, d), disk, FALSE, err) IN
         Pending(w.b, d) /\ w.disk = disk
<1> DEFINE r == RecvInto(b, d)
           full == [r EXCEPT !.counter[r.current] = Len(r.data[r.current]),
                             !.current = Flip(@)]
           wb == write_behind(full, disk, FALSE, err)
           fl == IF full.counter[full.current] # BF_FREE THEN wb
                 ELSE [b |-> full, disk |-> disk]
           w == writeit(r, disk, FALSE, err)
<1>1. /\ b.current \in Bufs /\ Flip(b.current) \in Bufs
      /\ b.current # Flip(b.current) /\ Flip(Flip(b.current)) = b.current
      /\ b.counter \in [Bufs -> Int] /\ b.data \in [Bufs -> Seq(B)]
  BY Fields DEF Flip, Bufs
<1>2. /\ b.nextone = b.current /\ b.counter[b.current] = BF_ALLOC
      /\ b.counter[Flip(b.current)] = BF_FREE
  BY DEF Clean
<1>3. /\ r.current = b.current /\ r.nextone = b.current /\ r.counter = b.counter
      /\ r.data = [b.data EXCEPT ![b.current] = d] /\ r \in BufType(B)
  BY Zenon, <1>1, <1>2 DEF RecvInto, BufType
<1>4. w = [b    |-> [fl.b EXCEPT !.counter[full.current] = BF_ALLOC],
           disk |-> fl.disk]
  BY DEF writeit
<1> HIDE DEF r, w
<1>5. r.data[r.current] = d /\ Len(d) \in Int
  BY <1>1, <1>3
<1>6. /\ full.current = Flip(b.current) /\ full.nextone = b.current
      /\ full.counter = [b.counter EXCEPT ![b.current] = Len(d)]
      /\ full.data = r.data /\ full \in BufType(B)
  BY Zenon, <1>1, <1>3, <1>5 DEF BufType
<1> HIDE DEF full, wb
<1>7. full.counter[full.current] = BF_FREE /\ full.counter[b.current] = Len(d)
  BY <1>1, <1>2, <1>6
<1>8. fl.b = full /\ fl.disk = disk
  BY <1>7
<1> HIDE DEF fl
<1> DEFINE z == [full EXCEPT !.counter[full.current] = BF_ALLOC]
<1>9. w.b = z /\ w.disk = disk
  BY <1>4, <1>8
<1>10. /\ z.nextone = b.current /\ z.current = Flip(b.current)
       /\ z.data = r.data
       /\ z.counter = [full.counter EXCEPT ![full.current] = BF_ALLOC]
       /\ full.counter \in [Bufs -> Int]
  BY <1>6 DEF BufType
<1> HIDE DEF z
<1>11. Pending(z, d)
  BY <1>1, <1>3, <1>5, <1>6, <1>7, <1>10 DEF Pending
<1>12. QED
  BY Zenon, <1>9, <1>11 DEF w, r

(* Block k begins no later than block k + 1.                               *)
LEMMA BeforeGrows ==
  \A amt \in Nat, k \in Nat \ {0} :
    /\ Before(amt, k) \in Nat /\ Before(amt, k + 1) \in Nat
    /\ Before(amt, k) <= Before(amt, k + 1)
<1> SUFFICES ASSUME NEW amt \in Nat, NEW k \in Nat \ {0}
             PROVE  /\ Before(amt, k) \in Nat /\ Before(amt, k + 1) \in Nat
                    /\ Before(amt, k) <= Before(amt, k + 1)
  OBVIOUS
<1>1. PICK n \in Nat : k = n + 1
  <2>1. k - 1 \in Nat /\ k = (k - 1) + 1
    OBVIOUS
  <2>2. QED BY <2>1
<1>2. Before(amt, n + 1) \in Nat /\ Before(amt, n + 2) = Before(amt, n + 1) + amt
  BY Zenon, BeforeNext
<1>3. k + 1 = n + 2
  BY <1>1
<1>4. QED
  BY <1>1, <1>2, <1>3

(* No block begins after a later one.                                      *)
LEMMA BeforeOrder ==
  \A amt, j, k \in Nat : j <= k => Before(amt, j) <= Before(amt, k)
<1> SUFFICES ASSUME NEW amt \in Nat, NEW j \in Nat, NEW n \in Nat
             PROVE  Before(amt, j) <= Before(amt, j + n)
  <2>1. \A j, k \in Nat : j <= k => k - j \in Nat /\ k = j + (k - j)
    OBVIOUS
  <2>2. QED BY <2>1, Zenon
<1>1. (j + n - 1) * amt = (j - 1) * amt + n * amt
  OBVIOUS
<1>2. n * amt \in Nat /\ (j - 1) * amt \in Int
  OBVIOUS
<1>3. QED
  BY <1>1, <1>2 DEF Before

\* What a file is up to block k, with block k added: a full block leads to
\* block k + 1, a short one is the end of the file.
Leads(file, amt, k) ==
  LET n   == Len(Block(file, amt, k))
      all == SubSeq(file, 1, Before(amt, k)) \o Block(file, amt, k)
  IN /\ n = amt => /\ Before(amt, k + 1) <= Len(file)
                   /\ all = SubSeq(file, 1, Before(amt, k + 1))
     /\ n # amt => Len(file) < Before(amt, k + 1) /\ all = file

(* That is so of every block that begins in the file.                      *)
LEMMA BlockLeads ==
  ASSUME NEW B, NEW file \in Seq(B), NEW amt \in Nat, NEW k \in Nat \ {0},
         Before(amt, k) <= Len(file)
  PROVE  Leads(file, amt, k)
<1> DEFINE here == Before(amt, k)
           next == Before(amt, k + 1)
           d    == Block(file, amt, k)
           n    == Len(d)
           all  == SubSeq(file, 1, here) \o d
<1>1. here \in Int /\ next = here + amt /\ Len(file) \in Nat
  BY BeforeNext
<1>2. n = Least(amt, Len(file) - here) /\ all = SubSeq(file, 1, Least(next, Len(file)))
  BY BlockProperties, ZenonT(30)
<1>3. SubSeq(file, 1, Len(file)) = file
  BY WholeSeq
<1> HIDE DEF here, next, d, n, all
<1>4. n = amt => next <= Len(file) /\ Least(next, Len(file)) = next
  BY <1>1, <1>2 DEF Least, here
<1>5. n # amt => Len(file) < next /\ Least(next, Len(file)) = Len(file)
  BY <1>1, <1>2 DEF Least, here
<1>6. QED
  BY Zenon, <1>2, <1>3, <1>4, <1>5 DEF Leads, next, n, d, all, here
=============================================================================
