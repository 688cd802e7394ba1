--------------------------- MODULE TftpPutProofs ---------------------------
(* Proofs about TftpPut, for every number of tftpd processes, every list   *)
(* of files, every contents and every block size.                          *)
EXTENDS TftpPut, TftpBufProofs

(* The arguments of the command name a local file and a remote name for    *)
(* each transfer.                                                          *)
LEMMA JobsType ==
  /\ Len(Jobs) \in Nat /\ DOMAIN Jobs = 1..Len(Jobs)
  /\ \A k \in 1..Len(Jobs) : Jobs[k].targ \in STRING /\ Local[Jobs[k].src] \in Seq(Byte)
<1> DEFINE n == Len(Args)
           many == [k \in 1..(n - 1) |-> [src |-> Args[k], targ |-> Args[n]]]
           job == [src : STRING, targ : STRING]
<1>1. Args \in Seq(STRING) /\ n \in Nat /\ n > 0
  BY SMTT(30), PutAssumption
<1>2. \A k \in 1..n : Args[k] \in STRING
  BY SMTT(30), <1>1
<1>3. Jobs \in Seq(job)
  <2>1. CASE n = 1
    <3>1. [src |-> Args[1], targ |-> Args[1]] \in job
      BY <1>2, <2>1
    <3>2. Jobs = <<[src |-> Args[1], targ |-> Args[1]]>>
      BY Zenon, <2>1 DEF Jobs
    <3>3. QED BY SMTT(30), <3>1, <3>2
  <2>2. CASE n = 2
    <3>1. [src |-> Args[1], targ |-> Args[2]] \in job
      BY <1>2, <2>2
    <3>2. Jobs = <<[src |-> Args[1], targ |-> Args[2]]>>
      BY Zenon, <2>2 DEF Jobs
    <3>3. QED BY SMTT(30), <3>1, <3>2
  <2>3. CASE n # 1 /\ n # 2
    <3>1. \A k \in 1..(n - 1) : [src |-> Args[k], targ |-> Args[n]] \in job
      BY SMTT(30), <1>1, <1>2
    <3>2. Jobs = many
      BY Zenon, <2>3 DEF Jobs
    <3>3. n - 1 \in Nat /\ many \in [1..(n - 1) -> job]
      BY SMTT(30), <1>1, <3>1
    <3> HIDE DEF many, job
    <3>4. QED BY SMTT(30), <3>2, <3>3
  <2>4. QED BY Zenon, <2>1, <2>2, <2>3
<1>4. Len(Jobs) \in Nat /\ DOMAIN Jobs = 1..Len(Jobs)
      /\ \A k \in 1..Len(Jobs) : Jobs[k] \in job
  <2> HIDE DEF job
  <2>1. QED BY SMTT(30), <1>3
<1>5. QED
  BY SMTT(30), <1>4, PutAssumption

(* What a packet constructor builds is a packet.                           *)
LEMMA PacketType ==
  /\ \A k \in Int : Wire(k) \in Nat
  /\ \A n \in STRING, b \in Nat, t \in Int, z \in BOOLEAN :
       makerequest("WRQ", n, b, t, z) \in Packets
  /\ \A i \in Srv, k \in Int, d \in Seq(Byte) : DATA(i, k, d) \in Packets
  /\ \A i \in Srv, k \in Int : ACK(i, k) \in Packets
  /\ \A i \in Srv, b \in Nat, t \in Nat : OACK(i, b, t) \in Packets
  /\ \A i \in Srv : /\ ERROR(i) \in Packets /\ ZeroPacket(i) \in Packets
                    /\ ClientNak(i) \in Packets
<1>1. \A k \in Int : Wire(k) \in Nat
  BY CommonAssumption DEF Wire
<1>2. \A n \in STRING, b \in Nat, t \in Int, z \in BOOLEAN :
        makerequest("WRQ", n, b, t, z) \in Packets
  BY Zenon DEF makerequest, Packets, Request
<1>3. \A i \in Srv, k \in Int, d \in Seq(Byte) : DATA(i, k, d) \in Packets
  BY Zenon, <1>1 DEF DATA, Packets, Reply
<1>4. \A i \in Srv, k \in Int : ACK(i, k) \in Packets
  BY Zenon, <1>1 DEF ACK, Packets, Reply
<1>5. \A i \in Srv, b \in Nat, t \in Nat : OACK(i, b, t) \in Packets
  BY Zenon DEF OACK, Packets, Reply
<1>6. \A i \in Srv : ERROR(i) \in Packets
  BY Zenon DEF ERROR, Packets, Reply
<1>7. \A i \in Srv : ZeroPacket(i) \in Packets /\ ClientNak(i) \in Packets
  BY Zenon DEF ZeroPacket, ClientNak, Packets
<1>8. QED
  BY Zenon, <1>1, <1>2, <1>3, <1>4, <1>5, <1>6, <1>7

(* The fields of each kind of packet.                                      *)
LEMMA PacketFields ==
  /\ \A n, b, t, z : makerequest("WRQ", n, b, t, z).op = "WRQ"
                     /\ makerequest("WRQ", n, b, t, z).name = n
  /\ \A i, k, d : /\ DATA(i, k, d).op = "DATA" /\ DATA(i, k, d).srv = i
                  /\ DATA(i, k, d).block = Wire(k) /\ DATA(i, k, d).data = d
  /\ \A i, k : /\ ACK(i, k).op = "ACK" /\ ACK(i, k).srv = i
               /\ ACK(i, k).block = Wire(k)
  /\ \A i, b, t : /\ OACK(i, b, t).op = "OACK" /\ OACK(i, b, t).srv = i
                  /\ OACK(i, b, t).blksize = b
  /\ \A i : ERROR(i).op = "ERROR" /\ ZeroPacket(i).op = "ZERO"
            /\ ClientNak(i).op = "CNAK"
  BY Zenon DEF makerequest, DATA, ACK, OACK, ERROR, ZeroPacket, ClientNak

(* The fields of what is in the network, by kind.                          *)
LEMMA PacketParts ==
  ASSUME NEW p \in Packets
  PROVE  /\ p.op # "WRQ" => p.srv \in Srv
         /\ p.op = "WRQ" => /\ p.name \in STRING /\ p.blksize \in Nat
                            /\ p.timeout \in Int /\ p.tsize \in BOOLEAN
         /\ p.op = "DATA" => p.block \in Nat /\ p.data \in Seq(Byte)
         /\ p.op = "ACK" => p.block \in Nat
         /\ p.op = "OACK" => p.blksize \in Nat /\ p.timeout \in Nat
  BY Zenon DEF Packets, Request, Reply

(* A call of the kind k succeeds or, if such calls can fail, fails.        *)
LEMMA FaultyBool == \A k : Faulty(k) \subseteq BOOLEAN
  BY Zenon DEF Faulty

-----------------------------------------------------------------------------
(* The client.                                                             *)

\* The local file of the put that r is the state of.
Source(r) == Local[Jobs[r.job].src]

\* A put under way has a packet to repeat and an offset within its file.
InFile(r) == /\ r.pkt \in Packets /\ r.job \in 1..Len(Jobs)
             /\ r.pos \in 0..Len(Source(r))

\* The part of TypeOK that a step of the client can disturb.
ClientOK == /\ c \in ClientType
            /\ net \subseteq Packets
            /\ c.st = "wait" => InFile(c)

\* The put has ended with this status.
Ends(status) ==
  /\ c'.st = "idle"
  /\ put' = Append(put, [job |-> c'.job, status |-> status, serv |-> c'.serv])

\* Nothing of the file has been read, or the block sent last is in the buffer
\* and the one after it has been read ahead.
Reading(r) ==
  /\ r.block = 0 => r.buf = r_init /\ r.pos = 0
  /\ r.block > 0 => Ahead(r.buf, r.pos, Source(r), r.blksize, r.block)

\* What send_data is entered with: as above, or a block just taken.
Ready(r) ==
  /\ r.block = 0 => r.buf = r_init /\ r.pos = 0
  /\ r.block > 0 => \/ Taken(r.buf, r.pos, Source(r), r.blksize, r.block)
                    \/ Ahead(r.buf, r.pos, Source(r), r.blksize, r.block)

(* abort: the put ends, its place is the one it had.                       *)
LEMMA FinishEffect ==
  ASSUME NEW cc \in ClientType, NEW status, Finish(cc, status)
  PROVE  /\ c' \in ClientType /\ Ends(status)
         /\ c'.job = cc.job /\ c'.block = cc.block /\ c'.serv = cc.serv
<1>1. c' = [cc EXCEPT !.st = "idle"]
  BY Zenon DEF Finish
<1>2. /\ c' \in ClientType /\ c'.st = "idle"
      /\ c'.job = cc.job /\ c'.block = cc.block /\ c'.serv = cc.serv
  BY Zenon, <1>1 DEF ClientType
<1>3. QED
  BY Zenon, <1>2 DEF Finish, Ends

(* send_data sends the packet and reads ahead, or ends the put.            *)
LEMMA SendDataEffect ==
  ASSUME NEW cc \in ClientType, cc.st = "wait", InFile(cc), net \subseteq Packets,
         SendData(cc)
  PROVE  /\ ClientOK'
         /\ c'.job = cc.job /\ c'.block = cc.block /\ c'.serv = cc.serv
         /\ \/ Ends("sendto") /\ net' = net
            \/ /\ c'.st = "wait" /\ put' = put /\ c'.blksize = cc.blksize
               /\ c'.pkt = cc.pkt /\ net' = net \cup {cc.pkt}
               /\ Ready(cc) => Reading(c')
<1> DEFINE file == Source(cc)
<1>1. PICK fails \in Faulty("send"), err \in Faulty("read") :
        IF fails
        THEN Finish(cc, "sendto") /\ UNCHANGED net
        ELSE LET a == read_ahead(cc.buf, cc.pos, file, cc.blksize, FALSE, err)
             IN /\ c' = IF cc.block = 0 THEN cc
                        ELSE [cc EXCEPT !.buf = a.b, !.pos = a.pos]
                /\ net' = net \cup {cc.pkt}
                /\ UNCHANGED put
  BY Zenon DEF SendData, Source
<1>2. fails \in BOOLEAN /\ err \in BOOLEAN
  BY Zenon, <1>1, FaultyBool
<1>3. CASE fails
  <2>1. Finish(cc, "sendto") /\ net' = net
    BY Zenon, <1>1, <1>3
  <2>2. /\ c' \in ClientType /\ Ends("sendto") /\ c'.st = "idle"
        /\ c'.job = cc.job /\ c'.block = cc.block /\ c'.serv = cc.serv
    BY Zenon, <2>1, FinishEffect DEF Ends
  <2>3. QED BY Zenon, <2>1, <2>2 DEF ClientOK
<1>4. CASE ~fails
  <2> DEFINE a == read_ahead(cc.buf, cc.pos, file, cc.blksize, FALSE, err)
             ra == [cc EXCEPT !.buf = a.b, !.pos = a.pos]
  <2>1. /\ c' = IF cc.block = 0 THEN cc ELSE ra
        /\ net' = net \cup {cc.pkt} /\ put' = put
    BY Zenon, <1>1, <1>4
  <2>2. /\ file \in Seq(Byte) /\ cc.buf \in BufType(Byte) /\ cc.blksize \in Nat
        /\ cc.block \in Nat /\ cc.pos \in 0..Len(file)
    BY Zenon, JobsType DEF ClientType, InFile, Source
  <2>3. a.b \in BufType(Byte) /\ a.pos \in 0..Len(file)
    BY Zenon, <1>2, <2>2, ReadAheadType
  <2>4. ASSUME cc.block # 0, Ready(cc)
        PROVE  Ahead(a.b, a.pos, file, cc.blksize, cc.block)
    <3>1. cc.block \in Nat \ {0} /\ cc.block > 0
      BY <2>2, <2>4
    <3>2. \/ Taken(cc.buf, cc.pos, file, cc.blksize, cc.block)
          \/ Ahead(cc.buf, cc.pos, file, cc.blksize, cc.block)
      BY Zenon, <2>4, <3>1 DEF Ready
    <3> HIDE DEF file
    <3>3. QED BY Zenon, <1>2, <2>2, <3>1, <3>2, ReadAheadKeeps
  <2> HIDE DEF a
  <2>5. a.pos \in Nat
    BY <2>2, <2>3
  <2>6. /\ ra \in ClientType /\ ra.st = cc.st /\ ra.job = cc.job
        /\ ra.block = cc.block /\ ra.serv = cc.serv /\ ra.blksize = cc.blksize
        /\ ra.pkt = cc.pkt /\ ra.buf = a.b /\ ra.pos = a.pos
    BY Zenon, <2>3, <2>5 DEF ClientType
  <2> HIDE DEF ra
  <2>7. /\ c' \in ClientType /\ c'.st = cc.st /\ c'.job = cc.job
        /\ c'.block = cc.block /\ c'.serv = cc.serv /\ c'.blksize = cc.blksize
        /\ c'.pkt = cc.pkt /\ c'.pos \in 0..Len(file)
    BY Zenon, <2>1, <2>2, <2>3, <2>6
  <2>8. InFile(c')
    BY Zenon, <2>7 DEF InFile, Source
  <2>9. Ready(cc) => Reading(c')
    <3>1. CASE cc.block = 0
      <4>1. c' = cc /\ ~(cc.block > 0)
        BY <2>1, <3>1
      <4>2. QED BY Zenon, <3>1, <4>1 DEF Ready, Reading
    <3>2. CASE cc.block # 0
      <4>1. c' = ra
        BY Zenon, <2>1, <3>2
      <4>2. QED BY Zenon, <2>4, <2>6, <3>2, <4>1 DEF Reading, Source
    <3>3. QED BY Zenon, <3>1, <3>2
  <2>10. net' \subseteq Packets
    BY Zenon, <2>1 DEF InFile
  <2>11. QED BY Zenon, <2>1, <2>7, <2>8, <2>9, <2>10 DEF ClientOK
<1>5. QED
  BY Zenon, <1>2, <1>3, <1>4

\* What the loop of xmitfile is entered with: nothing read and the first
\* block to be sent, or the block before, just acknowledged.
Entered(r) ==
  \/ r.block = 1 /\ r.buf = r_init /\ r.pos = 0
  \/ \E k \in Nat \ {0} : /\ r.block = k + 1
                          /\ Ahead(r.buf, r.pos, Source(r), r.blksize, k)

\* The block r is at has been sent.
SentBlock(r) ==
  /\ Reading(r)
  /\ r.pkt = DATA(r.serv, r.block, Block(Source(r), r.blksize, r.block))

(* The top of the loop of xmitfile sends the block it was entered with, or *)
(* ends the put.                                                           *)
LEMMA SendBlockEffect ==
  ASSUME NEW cc \in ClientType, cc.st = "wait", InFile(cc), net \subseteq Packets,
         cc.block > 0, cc.serv \in Srv, SendBlock(cc)
  PROVE  /\ ClientOK'
         /\ c'.job = cc.job /\ c'.block = cc.block /\ c'.serv = cc.serv
         /\ \/ /\ Ends("sendto") \/ Ends("nak")
               /\ net' \in {net, net \cup {ClientNak(cc.serv)}}
            \/ /\ c'.st = "wait" /\ put' = put /\ c'.blksize = cc.blksize
               /\ net' = net \cup {c'.pkt}
               /\ Entered(cc) => SentBlock(c')
<1> DEFINE file == Source(cc)
<1>1. PICK err \in Faulty("read") :
        LET a == readit(cc.buf, cc.pos, file, cc.blksize, FALSE, err) IN
        IF BufCount(a.b) < 0
        THEN Finish(cc, "nak") /\ net' = net \cup {ClientNak(cc.serv)}
        ELSE SendData([cc EXCEPT !.buf = a.b, !.pos = a.pos, !.timeout = 0,
                         !.pkt = DATA(cc.serv, cc.block, BufData(a.b))])
  BY Zenon DEF SendBlock, Source
<1> DEFINE a == readit(cc.buf, cc.pos, file, cc.blksize, FALSE, err)
           n == BufCount(a.b)
           d == DATA(cc.serv, cc.block, BufData(a.b))
           q == [cc EXCEPT !.buf = a.b, !.pos = a.pos, !.timeout = 0, !.pkt = d]
<1>2. err \in BOOLEAN
  BY Zenon, <1>1, FaultyBool
<1>3. /\ file \in Seq(Byte) /\ cc.buf \in BufType(Byte) /\ cc.blksize \in Nat
      /\ cc.block \in Int /\ cc.pos \in 0..Len(file)
  BY JobsType DEF ClientType, InFile, Source
<1>4. /\ a.b \in BufType(Byte) /\ a.pos \in 0..Len(file)
      /\ BufData(a.b) \in Seq(Byte) /\ n \in Int
  BY Zenon, <1>2, <1>3, ReaditType
<1>5. \/ Finish(cc, "nak") /\ net' = net \cup {ClientNak(cc.serv)}
      \/ ~(n < 0) /\ SendData(q)
  BY Zenon, <1>1
<1>6. ASSUME Entered(cc), ~(n < 0)
      PROVE  Taken(a.b, a.pos, file, cc.blksize, cc.block)
  <2>1. n # -1
    <3> HIDE DEF n
    <3>1. QED BY <1>6
  <2>2. CASE cc.block = 1 /\ cc.buf = r_init /\ cc.pos = 0
    <3> DEFINE f == readit(r_init, 0, file, cc.blksize, FALSE, err)
    <3>1. BufCount(f.b) = -1 \/ Taken(f.b, f.pos, file, cc.blksize, 1)
      BY Zenon, <1>2, <1>3, ReaditFirst
    <3>2. f = a
      BY Zenon, <2>2
    <3> HIDE DEF f, a
    <3>3. QED BY Zenon, <2>1, <2>2, <3>1, <3>2
  <2>3. CASE \E k \in Nat \ {0} : /\ cc.block = k + 1
                                  /\ Ahead(cc.buf, cc.pos, file, cc.blksize, k)
    <3>1. PICK k \in Nat \ {0} : /\ cc.block = k + 1
                                 /\ Ahead(cc.buf, cc.pos, file, cc.blksize, k)
      BY Zenon, <2>3
    <3>2. BufCount(a.b) = -1 \/ Taken(a.b, a.pos, file, cc.blksize, k + 1)
      BY Zenon, <1>2, <1>3, <3>1, ReaditNext
    <3> HIDE DEF a
    <3>3. QED BY Zenon, <2>1, <3>1, <3>2
  <2>4. QED BY Zenon, <1>6, <2>2, <2>3 DEF Entered
<1> HIDE DEF a, n
<1>7. d \in Packets
  BY Zenon, <1>3, <1>4, PacketType
<1>8. a.pos \in Nat
  BY <1>3, <1>4
<1> HIDE DEF d
<1>9. /\ q \in ClientType /\ q.st = "wait" /\ q.job = cc.job /\ q.block = cc.block
      /\ q.serv = cc.serv /\ q.blksize = cc.blksize /\ q.pkt = d
      /\ q.buf = a.b /\ q.pos = a.pos
  BY Zenon, <1>4, <1>7, <1>8 DEF ClientType
<1> HIDE DEF q
<1>10. InFile(q)
  BY Zenon, <1>4, <1>7, <1>9 DEF InFile, Source
<1>11. CASE Finish(cc, "nak") /\ net' = net \cup {ClientNak(cc.serv)}
  <2>1. net' \subseteq Packets
    BY Zenon, <1>11, PacketType
  <2>2. /\ c' \in ClientType /\ Ends("nak") /\ c'.st = "idle"
        /\ c'.job = cc.job /\ c'.block = cc.block /\ c'.serv = cc.serv
    BY Zenon, <1>11, FinishEffect DEF Ends
  <2>3. QED BY Zenon, <1>11, <2>1, <2>2 DEF ClientOK
<1>12. CASE ~(n < 0) /\ SendData(q)
  <2>1. /\ ClientOK'
        /\ c'.job = q.job /\ c'.block = q.block /\ c'.serv = q.serv
        /\ \/ Ends("sendto") /\ net' = net
           \/ /\ c'.st = "wait" /\ put' = put /\ c'.blksize = q.blksize
              /\ c'.pkt = q.pkt /\ net' = net \cup {q.pkt}
              /\ Ready(q) => Reading(c')
    BY Zenon, <1>9, <1>10, <1>12, SendDataEffect
  <2>2. ASSUME Entered(cc), c'.pkt = q.pkt, Ready(q) => Reading(c'),
               c'.blksize = q.blksize
        PROVE  SentBlock(c')
    <3>1. Taken(a.b, a.pos, file, cc.blksize, cc.block)
      BY Zenon, <1>6, <1>12, <2>2
    <3>2. Ready(q)
      <4>1. q.block # 0
        BY <1>3, <1>9
      <4>2. QED BY Zenon, <1>9, <3>1, <4>1 DEF Ready, Source
    <3>3. BufData(a.b) = Block(file, cc.blksize, cc.block)
      BY Zenon, <3>1 DEF Taken, Holds
    <3>4. c'.pkt = DATA(c'.serv, c'.block, Block(file, c'.blksize, c'.block))
      BY Zenon, <1>9, <2>1, <2>2, <3>3 DEF d
    <3>5. file = Source(c')
      BY Zenon, <1>9, <2>1 DEF Source
    <3>6. QED BY Zenon, <2>2, <3>2, <3>4, <3>5 DEF SentBlock
  <2>3. QED BY Zenon, <1>9, <2>1, <2>2
<1>13. QED
  BY Zenon, <1>5, <1>11, <1>12

\* What one step of the client can do to its place in the transfer: nothing,
\* ask to put a file, give up, send its last packet again (or nothing), send
\* the next block because the last one was answered, or come to the end.
Idles ==
  /\ c.st # "wait" /\ c'.st # "wait" /\ c'.job = c.job /\ c'.block = c.block
  /\ c'.serv = c.serv /\ c'.blksize \in BlkSizes \cup {c.blksize}
  /\ net' = net /\ put' = put
Asks ==
  /\ c.st # "wait" /\ c.job < Len(Jobs) /\ c'.job = c.job + 1
  /\ c'.block = 0 /\ c'.serv = NoSrv
  /\ \/ Ends("sendto") /\ net' = net
     \/ /\ c'.st = "wait" /\ put' = put /\ net' = net \cup {c'.pkt}
        /\ c'.pkt = makerequest("WRQ", Jobs[c'.job].targ, c.blksize, NoOption,
                                c.tsize)
        /\ Reading(c')

\* The first packet that arrives chooses the server.
Peer == c.serv \in {NoSrv, c'.serv}
GivesUp ==
  /\ c.st = "wait" /\ c'.job = c.job /\ c'.block \in {c.block, c.block + 1} /\ Peer
  /\ \E status \in {"sendto", "nak", "timeout", "intr", "mismatch", "error"} :
       Ends(status)
  /\ net' \in {net, net \cup {ClientNak(c'.serv)}}
Again ==
  /\ c.st = "wait" /\ c'.st = "wait" /\ c'.job = c.job /\ c'.block = c.block /\ Peer
  /\ c'.blksize = c.blksize /\ c'.pkt = c.pkt /\ put' = put
  /\ net' \in {net, net \cup {c.pkt}}
  /\ Reading(c) => Reading(c')

\* p is the answer the client waits for, and what it settles on then.
Answers(p) ==
  /\ c.st = "wait" /\ FromServer(p) /\ c'.serv = p.srv
  /\ c'.job = c.job /\ c'.block = c.block + 1
  /\ (p.op = "ACK" /\ AckOfBlock(p)) \/ (p.op = "OACK" /\ c.block = 0)
Settled(p) ==
  IF c.block # 0 THEN c.blksize
  ELSE IF p.op = "ACK" \/ p.blksize = 0 THEN SegSize ELSE p.blksize
GoesOn(p) ==
  /\ Answers(p) /\ (c.block = 0 \/ BufCount(c.buf) = c.blksize)
  /\ c'.st = "wait" /\ put' = put /\ net' = net \cup {c'.pkt}
  /\ c'.blksize = Settled(p) /\ (Reading(c) => SentBlock(c'))
Completes(p) ==
  /\ Answers(p) /\ c.block # 0 /\ BufCount(c.buf) # c.blksize
  /\ Ends("ok") /\ net' = net
ClientEffect ==
  Idles \/ Asks \/ GivesUp \/ Again \/ \E p \in net : GoesOn(p) \/ Completes(p)

(* Commands given between two transfers.                                   *)
LEMMA SetEffect ==
  ASSUME ClientOK, Set \/ Quit
  PROVE  ClientOK' /\ Idles
<1>1. BlkSizes \subseteq Nat /\ Toggles \subseteq BOOLEAN /\ c \in ClientType
  BY Zenon, PutAssumption DEF ClientOK
<1>2. c.st = "idle" /\ net' = net /\ put' = put /\ net \subseteq Packets
  BY Zenon DEF Set, Quit, ClientOK
<1>3. /\ c' \in ClientType /\ c'.st # "wait" /\ c'.job = c.job /\ c'.block = c.block
      /\ c'.serv = c.serv /\ c'.blksize \in BlkSizes \cup {c.blksize}
  <2>1. ASSUME NEW b \in BlkSizes, c' = [c EXCEPT !.blksize = b]
        PROVE  /\ c' \in ClientType /\ c'.st = c.st /\ c'.job = c.job /\ c'.serv = c.serv
               /\ c'.block = c.block /\ c'.blksize = b
    <3>1. b \in Nat
      BY Zenon, <1>1
    <3>2. QED BY Zenon, <1>1, <2>1, <3>1 DEF ClientType
  <2>2. ASSUME NEW b \in Toggles, c' = [c EXCEPT !.tsize = b]
        PROVE  /\ c' \in ClientType /\ c'.st = c.st /\ c'.job = c.job /\ c'.serv = c.serv
               /\ c'.block = c.block /\ c'.blksize = c.blksize
    <3>1. b \in BOOLEAN
      BY Zenon, <1>1
    <3>2. QED BY Zenon, <1>1, <2>2, <3>1 DEF ClientType
  <2>3. ASSUME c' = [c EXCEPT !.st = "quit"]
        PROVE  /\ c' \in ClientType /\ c'.st = "quit" /\ c'.job = c.job
               /\ c'.serv = c.serv /\ c'.block = c.block /\ c'.blksize = c.blksize
    BY Zenon, <1>1, <2>3 DEF ClientType
  <2>4. \/ \E b \in BlkSizes : c' = [c EXCEPT !.blksize = b]
        \/ \E b \in Toggles : c' = [c EXCEPT !.tsize = b]
        \/ c' = [c EXCEPT !.st = "quit"]
    BY Zenon DEF Set, Quit
  <2>5. QED BY Zenon, <1>2, <2>1, <2>2, <2>3, <2>4
<1>4. QED
  BY Zenon, <1>2, <1>3 DEF ClientOK, Idles

(* put(): the write request.                                               *)
LEMMA PutEffect ==
  ASSUME ClientOK, Put
  PROVE  ClientOK' /\ Asks
<1> DEFINE j == c.job + 1
           req == makerequest("WRQ", Jobs[j].targ, c.blksize, NoOption, c.tsize)
           cc == [c EXCEPT !.st = "wait", !.job = j, !.block = 0, !.timeout = 0,
                    !.serv = NoSrv, !.buf = r_init, !.pos = 0, !.pkt = req]
<1>1. /\ c \in ClientType /\ net \subseteq Packets /\ c.st = "idle"
      /\ c.job < Len(Jobs) /\ SendData(cc)
  BY Zenon DEF ClientOK, Put
<1>2. j \in 1..Len(Jobs) /\ j \in 0..Len(Jobs)
  BY <1>1, JobsType DEF ClientType
<1>3. c.blksize \in Nat /\ c.tsize \in BOOLEAN /\ NoOption \in Int
  BY <1>1 DEF ClientType, NoOption
<1>4. req \in Packets
  <2>1. Jobs[j].targ \in STRING
    BY Zenon, <1>2, JobsType
  <2>2. QED BY Zenon, <1>3, <2>1, PacketType
<1>5. r_init \in BufType(Byte) /\ NoSrv \in Srv \cup {NoSrv} /\ 0 \in Nat
  BY Zenon, InitType
<1> HIDE DEF req, j
<1>6. /\ cc \in ClientType /\ cc.st = "wait" /\ cc.job = j /\ cc.block = 0
      /\ cc.serv = NoSrv /\ cc.buf = r_init /\ cc.pos = 0 /\ cc.pkt = req
  BY ZenonT(30), <1>1, <1>2, <1>4, <1>5 DEF ClientType
<1> HIDE DEF cc
<1>7. InFile(cc) /\ Ready(cc)
  <2>1. Local[Jobs[j].src] \in Seq(Byte)
    BY Zenon, <1>2, JobsType
  <2>2. 0 \in 0..Len(Local[Jobs[j].src])
    BY <2>1
  <2>3. ~(cc.block > 0)
    BY <1>6
  <2>4. QED BY Zenon, <1>2, <1>4, <1>6, <2>2, <2>3 DEF InFile, Ready, Source
<1>8. /\ ClientOK'
      /\ c'.job = cc.job /\ c'.block = cc.block /\ c'.serv = cc.serv
      /\ \/ Ends("sendto") /\ net' = net
         \/ /\ c'.st = "wait" /\ put' = put /\ c'.blksize = cc.blksize
            /\ c'.pkt = cc.pkt /\ net' = net \cup {cc.pkt}
            /\ Ready(cc) => Reading(c')
  BY Zenon, <1>1, <1>6, <1>7, SendDataEffect
<1>9. c'.job = c.job + 1 /\ c.st # "wait"
  BY Zenon, <1>1, <1>6, <1>8 DEF j
<1>10. QED
  BY Zenon, <1>1, <1>6, <1>7, <1>8, <1>9 DEF Asks, req, j

(* A put that gives up where it is, or with another server.                *)
LEMMA GiveUpEffect ==
  ASSUME ClientOK, c.st = "wait", NEW cc \in ClientType, cc.job = c.job,
         cc.block = c.block, c.serv \in {NoSrv, cc.serv},
         NEW status \in {"sendto", "nak", "timeout", "intr", "mismatch", "error"},
         Finish(cc, status), net' = net
  PROVE  ClientOK' /\ GivesUp
<1>1. /\ c' \in ClientType /\ Ends(status) /\ c'.st = "idle"
      /\ c'.job = cc.job /\ c'.block = cc.block /\ c'.serv = cc.serv
  BY Zenon, FinishEffect DEF Ends
<1>2. QED
  BY Zenon, <1>1 DEF ClientOK, GivesUp, Peer

(* The packet goes out again: timer(), or an ack of the block before.      *)
LEMMA AgainEffect ==
  ASSUME ClientOK, c.st = "wait", NEW cc \in ClientType, cc.st = "wait",
         cc.job = c.job, cc.block = c.block, cc.blksize = c.blksize,
         cc.pkt = c.pkt, cc.buf = c.buf, cc.pos = c.pos,
         c.serv \in {NoSrv, cc.serv},
         SendData(cc) \/ (c' = cc /\ net' = net /\ put' = put)
  PROVE  ClientOK' /\ (GivesUp \/ Again)
<1>1. /\ InFile(cc) /\ net \subseteq Packets
      /\ Reading(c) => Ready(cc) /\ Reading(cc)
  BY Zenon DEF ClientOK, InFile, Source, Reading, Ready
<1>2. CASE SendData(cc)
  <2>1. /\ ClientOK'
        /\ c'.job = cc.job /\ c'.block = cc.block /\ c'.serv = cc.serv
        /\ \/ Ends("sendto") /\ net' = net
           \/ /\ c'.st = "wait" /\ put' = put /\ c'.blksize = cc.blksize
              /\ c'.pkt = cc.pkt /\ net' = net \cup {cc.pkt}
              /\ Ready(cc) => Reading(c')
    BY Zenon, <1>1, <1>2, SendDataEffect
  <2>2. CASE Ends("sendto") /\ net' = net
    BY Zenon, <2>1, <2>2 DEF GivesUp, Peer
  <2>3. CASE /\ c'.st = "wait" /\ put' = put /\ c'.blksize = cc.blksize
             /\ c'.pkt = cc.pkt /\ net' = net \cup {cc.pkt}
             /\ Ready(cc) => Reading(c')
    BY Zenon, <1>1, <2>1, <2>3 DEF Again, Peer
  <2>4. QED BY Zenon, <2>1, <2>2, <2>3
<1>3. CASE c' = cc /\ net' = net /\ put' = put
  <2>1. ClientOK'
    BY Zenon, <1>1, <1>3 DEF ClientOK
  <2>2. Again
    BY Zenon, <1>1, <1>3 DEF Again, Peer
  <2>3. QED BY Zenon, <2>1, <2>2
<1>4. QED
  BY Zenon, <1>2, <1>3

(* timer()                                                                 *)
LEMMA ClientTimerEffect ==
  ASSUME ClientOK, ClientTimer
  PROVE  ClientOK' /\ (GivesUp \/ Again)
<1> DEFINE t == Elapsed(c)
           cc == [c EXCEPT !.timeout = t]
<1>1. c \in ClientType /\ c.st = "wait" /\ t \in Nat
  BY DEF ClientTimer, ClientOK, ClientType, Elapsed
<1>2. (Finish(c, "timeout") /\ net' = net) \/ SendData(cc)
  BY Zenon DEF ClientTimer
<1> HIDE DEF t
<1>3. /\ cc \in ClientType /\ cc.st = "wait" /\ cc.job = c.job /\ cc.block = c.block
      /\ cc.blksize = c.blksize /\ cc.pkt = c.pkt /\ cc.buf = c.buf
      /\ cc.pos = c.pos /\ cc.serv = c.serv
  BY Zenon, <1>1 DEF ClientType
<1> HIDE DEF cc
<1>4. c.serv \in {NoSrv, cc.serv} /\ c.serv \in {NoSrv, c.serv}
  BY Zenon, <1>3
<1>5. "timeout" \in {"sendto", "nak", "timeout", "intr", "mismatch", "error"}
  BY Zenon
<1>6. QED
  BY ZenonT(30), <1>1, <1>2, <1>3, <1>4, <1>5, AgainEffect, GiveUpEffect

(* After the answer it waited for, the client sends the next block or has  *)
(* come to the end; that can fail.                                         *)
LEMMA AckedEffect ==
  ASSUME ClientOK, c.st = "wait", NEW p \in net, NEW cc \in ClientType,
         cc.st = "wait", cc.job = c.job, cc.block = c.block, cc.pkt = c.pkt,
         cc.buf = c.buf, cc.pos = c.pos, cc.serv = p.srv, p.srv \in Srv,
         cc.blksize = Settled(p), FromServer(p),
         (p.op = "ACK" /\ AckOfBlock(p)) \/ (p.op = "OACK" /\ c.block = 0),
         Acked(cc)
  PROVE  ClientOK' /\ (GivesUp \/ GoesOn(p) \/ Completes(p))
<1> DEFINE b == cc.block + 1
           nx == [cc EXCEPT !.block = b]
<1>1. /\ c \in ClientType /\ net \subseteq Packets /\ c.block \in Nat /\ b \in Nat
      /\ b > 0 /\ b = c.block + 1
  BY DEF ClientOK, ClientType
<1>2. c.serv \in {NoSrv, p.srv}
  BY Zenon DEF FromServer
<1>3. \/ (c.block = 0 \/ BufCount(c.buf) = cc.blksize) /\ SendBlock(nx)
      \/ /\ c.block # 0 /\ BufCount(c.buf) # cc.blksize
         /\ Finish(nx, "ok") /\ net' = net
  BY Zenon DEF Acked
<1> HIDE DEF b
<1>4. /\ nx \in ClientType /\ nx.st = "wait" /\ nx.job = c.job /\ nx.block = b
      /\ nx.blksize = cc.blksize /\ nx.pkt = c.pkt /\ nx.buf = c.buf
      /\ nx.pos = c.pos /\ nx.serv = p.srv
  BY Zenon, <1>1 DEF ClientType
<1> HIDE DEF nx
<1>5. InFile(nx)
  BY Zenon, <1>4 DEF ClientOK, InFile, Source
<1>6. c.block # 0 => cc.blksize = c.blksize
  BY Zenon DEF Settled
<1>7. Reading(c) => Entered(nx)
  <2>1. CASE c.block = 0
    <3>1. nx.block = 1
      BY <1>1, <1>4, <2>1
    <3>2. QED BY Zenon, <1>4, <2>1, <3>1 DEF Reading, Entered
  <2>2. CASE c.block # 0
    <3>1. c.block \in Nat \ {0} /\ c.block > 0 /\ nx.block = c.block + 1
      BY <1>1, <1>4, <2>2
    <3>2. QED BY Zenon, <1>4, <1>6, <2>2, <3>1 DEF Reading, Entered, Source
  <2>3. QED BY Zenon, <2>1, <2>2
<1>8. CASE (c.block = 0 \/ BufCount(c.buf) = cc.blksize) /\ SendBlock(nx)
  <2>1. /\ ClientOK'
        /\ c'.job = nx.job /\ c'.block = nx.block /\ c'.serv = nx.serv
        /\ \/ /\ Ends("sendto") \/ Ends("nak")
              /\ net' \in {net, net \cup {ClientNak(nx.serv)}}
           \/ /\ c'.st = "wait" /\ put' = put /\ c'.blksize = nx.blksize
              /\ net' = net \cup {c'.pkt}
              /\ Entered(nx) => SentBlock(c')
    BY Zenon, <1>1, <1>4, <1>5, <1>8, SendBlockEffect
  <2>2. Answers(p)
    BY Zenon, <1>1, <1>4, <2>1 DEF Answers
  <2>3. CASE /\ Ends("sendto") \/ Ends("nak")
             /\ net' \in {net, net \cup {ClientNak(nx.serv)}}
    <3>1. \E status \in {"sendto", "nak", "timeout", "intr", "mismatch", "error"} :
            Ends(status)
      BY Zenon, <2>3
    <3>2. c'.block \in {c.block, c.block + 1} /\ Peer
      BY Zenon, <1>1, <1>2, <1>4, <2>1 DEF Peer
    <3>3. QED BY Zenon, <1>4, <2>1, <2>3, <3>1, <3>2 DEF GivesUp
  <2>4. CASE /\ c'.st = "wait" /\ put' = put /\ c'.blksize = nx.blksize
             /\ net' = net \cup {c'.pkt}
             /\ Entered(nx) => SentBlock(c')
    BY Zenon, <1>4, <1>6, <1>7, <1>8, <2>1, <2>2, <2>4 DEF GoesOn
  <2>5. QED BY Zenon, <2>1, <2>3, <2>4
<1>9. CASE /\ c.block # 0 /\ BufCount(c.buf) # cc.blksize
           /\ Finish(nx, "ok") /\ net' = net
  <2>1. /\ c' \in ClientType /\ Ends("ok") /\ c'.st = "idle"
        /\ c'.job = nx.job /\ c'.block = nx.block /\ c'.serv = nx.serv
    BY Zenon, <1>4, <1>9, FinishEffect DEF Ends
  <2>2. Answers(p)
    BY Zenon, <1>1, <1>4, <2>1 DEF Answers
  <2>3. ClientOK'
    BY Zenon, <1>1, <1>9, <2>1 DEF ClientOK
  <2>4. QED BY Zenon, <1>6, <1>9, <2>1, <2>2, <2>3 DEF Completes
<1>10. QED
  BY Zenon, <1>3, <1>8, <1>9

(* A packet arrives at the client.                                         *)
LEMMA ClientRecvEffect ==
  ASSUME ClientOK, NEW p \in net,
         \/ p.op = "ACK" /\ (GotAck(p) \/ StaleAck(p))
         \/ p.op = "OACK" /\ (GotOack(p) \/ (c.block # 0 /\ Ignored(p)))
         \/ p.op = "ERROR" /\ GotError(p)
         \/ p.op = "ZERO" /\ Ignored(p)
         \/ p.op \in {"ACK", "OACK", "ERROR", "ZERO"} /\ Mismatch(p)
  PROVE  ClientOK' /\ (GivesUp \/ Again \/ GoesOn(p) \/ Completes(p))
<1> DEFINE sc == [c EXCEPT !.serv = p.srv]
<1>1. /\ c \in ClientType /\ net \subseteq Packets /\ c.st = "wait" /\ p.op # "WRQ"
      /\ SegSize \in Nat /\ TIMEOUT \in Nat
  BY Zenon, CommonAssumption DEF ClientOK, GotAck, StaleAck, GotOack, Ignored, GotError,
                          Mismatch, FromServer
<1>2. /\ p.srv \in Srv
      /\ p.op = "OACK" => p.blksize \in Nat /\ p.timeout \in Nat
  BY Zenon, <1>1, PacketParts
<1>3. /\ sc \in ClientType /\ sc.st = "wait" /\ sc.job = c.job /\ sc.block = c.block
      /\ sc.blksize = c.blksize /\ sc.pkt = c.pkt /\ sc.buf = c.buf
      /\ sc.pos = c.pos /\ sc.serv = p.srv
  BY Zenon, <1>1, <1>2 DEF ClientType
<1>4. CASE p.op = "ACK" /\ GotAck(p)
  <2> DEFINE oc == IF c.block = 0 THEN DefaultOptions(c) ELSE c
             cc == [oc EXCEPT !.serv = p.srv]
  <2>1. FromServer(p) /\ AckOfBlock(p) /\ Acked(cc)
    BY Zenon, <1>4 DEF GotAck
  <2>2. /\ DefaultOptions(c) \in ClientType /\ DefaultOptions(c).blksize = SegSize
        /\ DefaultOptions(c).st = c.st /\ DefaultOptions(c).job = c.job
        /\ DefaultOptions(c).block = c.block /\ DefaultOptions(c).pkt = c.pkt
        /\ DefaultOptions(c).buf = c.buf /\ DefaultOptions(c).pos = c.pos
    BY Zenon, <1>1 DEF DefaultOptions, ClientType
  <2>3. /\ oc \in ClientType /\ oc.st = c.st /\ oc.job = c.job /\ oc.block = c.block
        /\ oc.pkt = c.pkt /\ oc.buf = c.buf /\ oc.pos = c.pos
        /\ oc.blksize = Settled(p)
    BY Zenon, <1>1, <1>4, <2>2 DEF Settled
  <2> HIDE DEF oc
  <2>4. /\ cc \in ClientType /\ cc.st = "wait" /\ cc.job = c.job /\ cc.block = c.block
        /\ cc.pkt = c.pkt /\ cc.buf = c.buf /\ cc.pos = c.pos
        /\ cc.blksize = Settled(p) /\ cc.serv = p.srv
    BY Zenon, <1>1, <1>2, <2>3 DEF ClientType
  <2> HIDE DEF cc
  <2>5. QED BY Zenon, <1>1, <1>2, <1>4, <2>1, <2>4, AckedEffect
<1>5. CASE p.op = "OACK" /\ GotOack(p)
  <2> DEFINE oc == ClientOptions(c, p)
             cc == [oc EXCEPT !.serv = p.srv]
  <2>1. FromServer(p) /\ c.block = 0 /\ Acked(cc)
    BY Zenon, <1>5 DEF GotOack
  <2>2. /\ oc \in ClientType /\ oc.st = c.st /\ oc.job = c.job /\ oc.block = c.block
        /\ oc.pkt = c.pkt /\ oc.buf = c.buf /\ oc.pos = c.pos
        /\ oc.blksize = IF p.blksize = 0 THEN SegSize ELSE p.blksize
    BY ZenonT(30), <1>1, <1>2, <1>5 DEF ClientOptions, ClientType
  <2>3. oc.blksize = Settled(p)
    BY Zenon, <1>5, <2>1, <2>2 DEF Settled
  <2> HIDE DEF oc
  <2>4. /\ cc \in ClientType /\ cc.st = "wait" /\ cc.job = c.job /\ cc.block = c.block
        /\ cc.pkt = c.pkt /\ cc.buf = c.buf /\ cc.pos = c.pos
        /\ cc.blksize = Settled(p) /\ cc.serv = p.srv
    BY Zenon, <1>1, <1>2, <2>2, <2>3 DEF ClientType
  <2> HIDE DEF cc
  <2>5. QED BY Zenon, <1>1, <1>2, <1>5, <2>1, <2>4, AckedEffect
<1>6. CASE (p.op = "ACK" /\ StaleAck(p)) \/ Ignored(p)
  <2>1. /\ FromServer(p)
        /\ SendData(sc) \/ (c' = sc /\ net' = net /\ put' = put)
    BY Zenon, <1>6 DEF StaleAck, Ignored
  <2> HIDE DEF sc
  <2>2. c.serv \in {NoSrv, sc.serv}
    BY Zenon, <1>3, <2>1 DEF FromServer
  <2>3. QED BY Zenon, <1>1, <1>3, <2>1, <2>2, AgainEffect
<1>7. CASE p.op = "ERROR" /\ GotError(p)
  <2>1. FromServer(p) /\ Finish(sc, "error") /\ net' = net
    BY Zenon, <1>7 DEF GotError
  <2> HIDE DEF sc
  <2>2. c.serv \in {NoSrv, sc.serv}
    BY Zenon, <1>3, <2>1 DEF FromServer
  <2>3. "error" \in {"sendto", "nak", "timeout", "intr", "mismatch", "error"}
    BY Zenon
  <2>4. QED BY Zenon, <1>1, <1>3, <2>1, <2>2, <2>3, GiveUpEffect
<1>8. CASE Mismatch(p)
  <2>1. Finish(c, "mismatch") /\ net' = net /\ c.serv \in {NoSrv, c.serv}
    BY Zenon, <1>8 DEF Mismatch
  <2>2. "mismatch" \in {"sendto", "nak", "timeout", "intr", "mismatch", "error"}
    BY Zenon
  <2>3. QED BY Zenon, <1>1, <2>1, <2>2, GiveUpEffect
<1>9. QED
  BY Zenon, <1>4, <1>5, <1>6, <1>7, <1>8

(* Every step of the client is one of the six kinds, and keeps the client  *)
(* well formed.                                                            *)
LEMMA ClientStepEffect ==
  ASSUME ClientOK, Client
  PROVE  ClientOK' /\ ClientEffect /\ s' = s /\ disk' = disk
<1>1. s' = s /\ disk' = disk
  BY ZenonT(30) DEF Client, Set, Put, ClientTimer, Intr, ClientRecv, Quit, GotAck,
              StaleAck, GotOack, Ignored, GotError, Mismatch
<1>2. CASE Set \/ Quit
  BY Zenon, <1>1, <1>2, SetEffect DEF ClientEffect
<1>3. CASE Put
  BY Zenon, <1>1, <1>3, PutEffect DEF ClientEffect
<1>4. CASE ClientTimer
  BY Zenon, <1>1, <1>4, ClientTimerEffect DEF ClientEffect
<1>5. CASE Intr
  <2>1. /\ c \in ClientType /\ c.st = "wait" /\ Finish(c, "intr") /\ net' = net
        /\ c.serv \in {NoSrv, c.serv}
    BY Zenon, <1>5 DEF Intr, ClientOK
  <2>2. "intr" \in {"sendto", "nak", "timeout", "intr", "mismatch", "error"}
    BY Zenon
  <2>3. ClientOK' /\ GivesUp
    BY Zenon, <2>1, <2>2, GiveUpEffect
  <2>4. QED BY Zenon, <1>1, <2>3 DEF ClientEffect
<1>6. CASE ClientRecv
  <2>1. PICK p \in net :
          \/ p.op = "ACK" /\ (GotAck(p) \/ StaleAck(p))
          \/ p.op = "OACK" /\ (GotOack(p) \/ (c.block # 0 /\ Ignored(p)))
          \/ p.op = "ERROR" /\ GotError(p)
          \/ p.op = "ZERO" /\ Ignored(p)
          \/ p.op \in {"ACK", "OACK", "ERROR", "ZERO"} /\ Mismatch(p)
    BY Zenon, <1>6 DEF ClientRecv
  <2>2. ClientOK' /\ (GivesUp \/ Again \/ GoesOn(p) \/ Completes(p))
    BY Zenon, <2>1, ClientRecvEffect
  <2>3. QED BY Zenon, <1>1, <2>2 DEF ClientEffect
<1>7. QED
  BY Zenon, <1>2, <1>3, <1>4, <1>5, <1>6 DEF Client

-----------------------------------------------------------------------------
(* The servers.                                                            *)

\* A tftpd that waits has a packet to repeat, and one to end with.
Armed(r) == /\ r.st = "wait" => r[r.ap] \in Packets
            /\ r.st \in {"wait", "dally"} => r.ackbuf \in Packets

\* The part of TypeOK that a step of a server can disturb.
ServerOK == /\ s \in [Srv -> ServerType]
            /\ disk \in [Remote -> Seq(Byte)]
            /\ net \subseteq Packets
            /\ \A i \in Srv : Armed(s[i])

\* A file only grows while it is written.
Grown(a, b) == \E e \in Seq(Byte) : b = a \o e

\* What a step of tftpd i does to the remote file: nothing, or it writes at
\* the end of what it has written before.
Stores(i) ==
  /\ s'[i].name = s[i].name
  /\ \/ disk' = disk /\ s'[i].out = s[i].out
     \/ /\ Grown(s[i].out, s'[i].out)
        /\ disk' = [disk EXCEPT ![s[i].name] =
                      Overlay(@, Len(s[i].out), SubSeq(s'[i].out, Len(s[i].out) + 1,
                                                       Len(s'[i].out)))]
Others(i) == \A j \in Srv \ {i} : s'[j] = s[j]

(* The packet ap points to is one of the two.                              *)
LEMMA PointedPacket ==
  ASSUME NEW r \in ServerType
  PROVE  /\ r.ap = "ackbuf" => r[r.ap] = r.ackbuf
         /\ r.ap = "oackbuf" => r[r.ap] = r.oackbuf
         /\ r.ap = "ackbuf" \/ r.ap = "oackbuf"
  BY Zenon DEF ServerType

(* What a tftpd writes at any offset leaves a file of bytes.               *)
LEMMA OverlayType ==
  ASSUME NEW d \in Seq(Byte), NEW off \in Nat, NEW data \in Seq(Byte)
  PROVE  Overlay(d, off, data) \in Seq(Byte)
<1> DEFINE n == IF Len(d) < off + Len(data) THEN off + Len(data) ELSE Len(d)
           f == [k \in 1..n |-> IF k \in (off + 1)..(off + Len(data)) THEN data[k - off]
                                ELSE IF k <= Len(d) THEN d[k] ELSE NUL]
<1>1. n \in Nat /\ NUL \in Byte
  BY PutAssumption
<1>2. \A k \in 1..n : f[k] \in Byte
  <2> SUFFICES ASSUME NEW k \in 1..n PROVE f[k] \in Byte
    BY Zenon
  <2>1. k \in Int /\ k >= 1
    BY <1>1
  <2>2. CASE k \in (off + 1)..(off + Len(data))
    <3>1. k - off \in 1..Len(data)
      BY <2>2
    <3>2. QED BY <2>2, <3>1
  <2>3. CASE k \notin (off + 1)..(off + Len(data)) /\ k <= Len(d)
    <3>1. k \in 1..Len(d)
      BY <2>1, <2>3
    <3>2. QED BY <2>3, <3>1
  <2>4. CASE k \notin (off + 1)..(off + Len(data)) /\ ~(k <= Len(d))
    BY Zenon, <1>1, <2>4
  <2>5. QED BY Zenon, <2>2, <2>3, <2>4
<1>3. Overlay(d, off, data) = f
  BY Zenon DEF Overlay
<1> HIDE DEF n
<1>4. f \in [1..n -> Byte]
  BY Zenon, <1>2
<1> HIDE DEF f
<1>5. f \in Seq(Byte)
  BY SMTT(30), <1>1, <1>4
<1>6. QED
  BY Zenon, <1>3, <1>5

(* What is written at the end of a file is appended to it.                 *)
LEMMA OverlayAppends ==
  ASSUME NEW d \in Seq(Byte), NEW e \in Seq(Byte)
  PROVE  LET f == d \o e
         IN Overlay(d, Len(d), SubSeq(f, Len(d) + 1, Len(f))) = f
<1> DEFINE f == d \o e
           x == SubSeq(f, Len(d) + 1, Len(f))
           n == IF Len(d) < Len(d) + Len(x) THEN Len(d) + Len(x) ELSE Len(d)
           g == [k \in 1..n |-> IF k \in (Len(d) + 1)..(Len(d) + Len(x))
                                THEN x[k - Len(d)]
                                ELSE IF k <= Len(d) THEN d[k] ELSE NUL]
<1>1. /\ f \in Seq(Byte) /\ Len(f) = Len(d) + Len(e)
      /\ Len(d) \in Nat /\ Len(e) \in Nat
  OBVIOUS
<1>2. /\ \A k \in 1..Len(d) : f[k] = d[k]
      /\ \A k \in 1..Len(e) : f[Len(d) + k] = e[k]
  OBVIOUS
<1>3. Overlay(d, Len(d), x) = g
  BY Zenon DEF Overlay
<1>4. Len(x) = Len(e) /\ \A k \in 1..Len(e) : x[k] = f[Len(d) + k]
  <2> DEFINE m == Len(d) + 1
  <2>1. m \in Int /\ Len(f) \in Int /\ \A k \in m..Len(f) : f[k] \in Byte
    BY <1>1
  <2> HIDE DEF f, m
  <2>2. /\ Len(SubSeq(f, m, Len(f))) = IF m <= Len(f) THEN Len(f) - m + 1 ELSE 0
        /\ \A k \in 1..(Len(f) - m + 1) : SubSeq(f, m, Len(f))[k] = f[m + k - 1]
    BY <2>1, PartOfSeq
  <2>3. Len(f) - m + 1 = Len(e) /\ \A k \in 1..Len(e) : m + k - 1 = Len(d) + k
    BY <1>1 DEF m
  <2>4. Len(x) = Len(e)
    BY <1>1, <2>2, <2>3 DEF m
  <2>5. QED BY Zenon, <2>2, <2>3, <2>4 DEF m
<1> HIDE DEF x
<1>5. n = Len(f)
  BY <1>1, <1>4
<1>6. \A k \in 1..Len(f) : g[k] = f[k]
  <2> SUFFICES ASSUME NEW k \in 1..Len(f) PROVE g[k] = f[k]
    BY Zenon
  <2> HIDE DEF f
  <2>1. CASE k <= Len(d)
    <3>1. k \in 1..Len(d) /\ k \notin (Len(d) + 1)..(Len(d) + Len(x)) /\ k \in 1..n
      BY <1>1, <1>4, <1>5, <2>1
    <3>2. QED BY Zenon, <1>2, <2>1, <3>1
  <2>2. CASE ~(k <= Len(d))
    <3> DEFINE j == k - Len(d)
    <3>1. /\ k \in (Len(d) + 1)..(Len(d) + Len(x)) /\ j \in 1..Len(e) /\ k \in 1..n
          /\ Len(d) + j = k
      BY <1>1, <1>4, <1>5, <2>2
    <3>2. x[j] = f[Len(d) + j] /\ g[k] = x[j]
      BY Zenon, <1>4, <3>1
    <3>3. QED BY Zenon, <3>1, <3>2
  <2>3. QED BY Zenon, <2>1, <2>2
<1>7. g = f
  <2>1. DOMAIN g = 1..Len(f)
    BY Zenon, <1>5
  <2>2. g = [k \in DOMAIN g |-> g[k]]
    BY Zenon
  <2> HIDE DEF f, g
  <2>3. DOMAIN f = 1..Len(f) /\ f = [k \in DOMAIN f |-> f[k]]
    BY SMTT(30), <1>1
  <2>4. QED BY Zenon, <1>6, <2>1, <2>2, <2>3
<1> HIDE DEF g
<1>8. QED
  BY Zenon, <1>3, <1>7 DEF x

(* r becomes the state of tftpd i, which has written at the end of what it *)
(* had written.                                                            *)
LEMMA BecomeEffect ==
  ASSUME ServerOK, NEW i \in Srv, NEW r \in ServerType, r.name = s[i].name,
         Armed(r), Grown(s[i].out, r.out),
         Become(i, r), net' \subseteq Packets
  PROVE  ServerOK' /\ s'[i] = r /\ Others(i) /\ Stores(i)
<1> DEFINE off == Len(s[i].out)
           data == SubSeq(r.out, off + 1, Len(r.out))
<1>1. /\ s \in [Srv -> ServerType] /\ disk \in [Remote -> Seq(Byte)]
      /\ s' = [s EXCEPT ![i] = r]
      /\ disk' = [disk EXCEPT ![r.name] = Overlay(@, off, data)]
  BY Zenon DEF ServerOK, Become
<1>2. s'[i] = r /\ \A j \in Srv \ {i} : s'[j] = s[j]
  BY Zenon, <1>1
<1>3. off \in Nat /\ r.out \in Seq(Byte)
  BY SMTT(30), <1>1 DEF ServerType
<1>4. data \in Seq(Byte)
  <2>1. off + 1 \in Int /\ Len(r.out) \in Int
        /\ \A k \in (off + 1)..Len(r.out) : r.out[k] \in Byte
    BY <1>3
  <2> HIDE DEF off
  <2>2. QED BY Zenon, <2>1, PartOfSeq
<1> HIDE DEF off, data
<1>5. \A d \in Seq(Byte) : Overlay(d, off, data) \in Seq(Byte)
  BY Zenon, <1>3, <1>4, OverlayType
<1>6. disk' \in [Remote -> Seq(Byte)]
  BY Zenon, <1>1, <1>5
<1>7. s' \in [Srv -> ServerType]
  BY Zenon, <1>1
<1>8. \A j \in Srv : Armed(s'[j])
  BY Zenon, <1>2 DEF ServerOK
<1>9. Stores(i)
  BY Zenon, <1>1, <1>2 DEF Stores, off, data
<1>10. QED
  BY Zenon, <1>2, <1>6, <1>7, <1>8, <1>9 DEF ServerOK, Others

(* A tftpd that only changes how it stands.                                *)
LEMMA TurnEffect ==
  ASSUME ServerOK, NEW i \in Srv, NEW r \in ServerType, r.st \notin {"wait", "dally"},
         r.name = s[i].name, r.out = s[i].out,
         s' = [s EXCEPT ![i] = r], disk' = disk, net' \subseteq Packets
  PROVE  ServerOK' /\ s'[i] = r /\ Others(i) /\ Stores(i)
<1>1. s \in [Srv -> ServerType] /\ disk \in [Remote -> Seq(Byte)]
  BY Zenon DEF ServerOK
<1>2. s'[i] = r /\ (\A j \in Srv \ {i} : s'[j] = s[j]) /\ s' \in [Srv -> ServerType]
  BY Zenon, <1>1
<1>3. \A j \in Srv : Armed(s'[j])
  BY Zenon, <1>2 DEF ServerOK, Armed
<1>4. QED
  BY Zenon, <1>1, <1>2, <1>3 DEF ServerOK, Others, Stores

\* What write_behind() does to the file, and what it leaves alone.
Flushes(r, f) ==
  /\ r.werr => f.werr
  /\ Clean(r.buf) => Clean(f.buf) /\ f.out = r.out
  /\ \A d \in Seq(Byte) : Pending(r.buf, d) =>
       Clean(f.buf) /\ (~f.werr => f.out = r.out \o d)
SamePlace(r, f) ==
  /\ f.name = r.name /\ f.block = r.block /\ f.blksize = r.blksize
  /\ f.ap = r.ap /\ f.ackbuf = r.ackbuf /\ f.oackbuf = r.oackbuf

(* Files grow step by step.                                                *)
LEMMA GrownFacts ==
  /\ \A a \in Seq(Byte) : Grown(a, a)
  /\ \A a, b, d \in Seq(Byte) : Grown(a, b) /\ Grown(b, d) => Grown(a, d)
<1>1. <<>> \in Seq(Byte) /\ \A a \in Seq(Byte) : a \o <<>> = a
  BY ConcatNothing
<1>2. \A a \in Seq(Byte) : Grown(a, a)
  BY Zenon, <1>1 DEF Grown
<1>3. ASSUME NEW a \in Seq(Byte), NEW b \in Seq(Byte), NEW d \in Seq(Byte),
             Grown(a, b), Grown(b, d)
      PROVE  Grown(a, d)
  <2>1. PICK e \in Seq(Byte) : b = a \o e
    BY Zenon, <1>3 DEF Grown
  <2>2. PICK g \in Seq(Byte) : d = b \o g
    BY Zenon, <1>3 DEF Grown
  <2>3. e \o g \in Seq(Byte) /\ d = a \o (e \o g)
    BY SMTT(30), <2>1, <2>2
  <2>4. QED BY Zenon, <2>3 DEF Grown
<1>4. QED
  BY Zenon, <1>2, <1>3

(* write_behind() and writeit() write at the end of the file or not at     *)
(* all.                                                                    *)
LEMMA WritesGrow ==
  ASSUME NEW b \in BufType(Byte), NEW out \in Seq(Byte), NEW err \in BOOLEAN
  PROVE  /\ Grown(out, write_behind(b, out, FALSE, err).disk)
         /\ \A data \in Seq(Byte) :
              Grown(out, writeit(RecvInto(b, data), out, FALSE, err).disk)
<1>1. ASSUME NEW x \in BufType(Byte)
      PROVE  Grown(out, write_behind(x, out, FALSE, err).disk)
  <2>1. x.data[x.nextone] \in Seq(Byte)
    BY Zenon, Fields
  <2>2. write_behind(x, out, FALSE, err).disk \in {out, out \o x.data[x.nextone]}
    BY Zenon DEF write_behind
  <2>3. QED BY Zenon, <2>1, <2>2, GrownFacts DEF Grown
<1>2. ASSUME NEW data \in Seq(Byte)
      PROVE  Grown(out, writeit(RecvInto(b, data), out, FALSE, err).disk)
  <2> DEFINE r == RecvInto(b, data)
             full == [r EXCEPT !.counter[r.current] = Len(r.data[r.current]),
                               !.current = Flip(@)]
             w == write_behind(full, out, FALSE, err)
  <2>1. r \in BufType(Byte)
    BY Zenon, Fields DEF RecvInto, BufType
  <2> HIDE DEF r
  <2>2. Len(r.data[r.current]) \in Int /\ r.current \in Bufs /\ Flip(r.current) \in Bufs
    BY <2>1, Fields
  <2>3. full \in BufType(Byte)
    BY Zenon, <2>1, <2>2 DEF BufType
  <2>4. Grown(out, w.disk)
    BY Zenon, <1>1, <2>3
  <2>5. writeit(r, out, FALSE, err).disk =
          IF full.counter[full.current] # BF_FREE THEN w.disk ELSE out
    <3> HIDE DEF full, w
    <3>1. QED BY Zenon DEF writeit, full, w
  <2>6. writeit(r, out, FALSE, err).disk \in {w.disk, out}
    <3> HIDE DEF full, w
    <3>1. QED BY Zenon, <2>5
  <2>7. QED BY Zenon, <2>4, <2>6, GrownFacts DEF r
<1>3. QED
  BY Zenon, <1>1, <1>2

(* write_behind() writes what waits to be written and leaves the server's  *)
(* place in the transfer alone.                                            *)
LEMMA WriteBehindEffect ==
  ASSUME NEW r \in ServerType, NEW err \in BOOLEAN
  PROVE  LET f == WriteBehind(r, err) IN
         /\ f \in ServerType /\ f.st = r.st /\ f.hdr = r.hdr /\ SamePlace(r, f)
         /\ Flushes(r, f) /\ Grown(r.out, f.out)
<1> DEFINE w == write_behind(r.buf, r.out, FALSE, err)
           e == (r.werr \/ err)
           f == WriteBehind(r, err)
<1>1. f = [r EXCEPT !.buf = w.b, !.out = w.disk, !.werr = e]
  BY Zenon DEF WriteBehind
<1>2. r.buf \in BufType(Byte) /\ r.out \in Seq(Byte) /\ r.werr \in BOOLEAN
  BY Zenon DEF ServerType
<1>3. w.b \in BufType(Byte) /\ w.disk \in Seq(Byte)
  BY Zenon, <1>2, WriteBehindType
<1>4. Clean(r.buf) => w.b = r.buf /\ w.disk = r.out
  BY Zenon, WriteBehindClean
<1>5. \A d \in Seq(Byte) : Pending(r.buf, d) =>
        Clean(w.b) /\ (~err => w.disk = r.out \o d)
  BY ZenonT(30), <1>2, WriteBehindPending
<1>6. Grown(r.out, w.disk)
  BY Zenon, <1>2, WritesGrow
<1>7. e \in BOOLEAN /\ (r.werr => e) /\ (~e => ~err)
  BY Zenon, <1>2
<1> HIDE DEF w, e, f
<1>8. /\ f \in ServerType /\ f.st = r.st /\ f.name = r.name /\ f.block = r.block
      /\ f.blksize = r.blksize /\ f.ap = r.ap /\ f.ackbuf = r.ackbuf
      /\ f.oackbuf = r.oackbuf /\ f.hdr = r.hdr
      /\ f.buf = w.b /\ f.out = w.disk /\ f.werr = e
  BY ZenonT(30), <1>1, <1>3, <1>7 DEF ServerType
<1>9. Flushes(r, f)
  BY Zenon, <1>4, <1>5, <1>7, <1>8 DEF Flushes
<1>10. QED
  BY Zenon, <1>6, <1>8, <1>9 DEF SamePlace, f

(* send_ack sends the packet ap points to and flushes, or gives up.        *)
LEMMA SendAckEffect ==
  ASSUME ServerOK, NEW i \in Srv, NEW r \in ServerType, r.st = "wait",
         r.name = s[i].name, Armed(r), Grown(s[i].out, r.out),
         SendAck(i, r)
  PROVE  /\ ServerOK' /\ Others(i) /\ Stores(i) /\ SamePlace(r, s'[i])
         /\ \/ s'[i].st = "abort" /\ net' = net
            \/ /\ s'[i].st = "wait" /\ net' = net \cup {r[r.ap]}
               /\ Flushes(r, s'[i])
<1>1. PICK fails \in Faulty("send"), err \in Faulty("write") :
        IF fails
        THEN Become(i, [r EXCEPT !.st = "abort"]) /\ UNCHANGED net
        ELSE Become(i, WriteBehind(r, err)) /\ net' = net \cup {r[r.ap]}
  BY Zenon DEF SendAck
<1>2. fails \in BOOLEAN /\ err \in BOOLEAN
  BY Zenon, <1>1, FaultyBool
<1>3. net \subseteq Packets /\ s[i].out \in Seq(Byte) /\ r.out \in Seq(Byte)
  BY Zenon DEF ServerOK, ServerType
<1>4. CASE fails
  <2> DEFINE q == [r EXCEPT !.st = "abort"]
  <2>1. Become(i, q) /\ net' = net
    BY Zenon, <1>1, <1>4
  <2>2. q \in ServerType /\ q.st = "abort" /\ q.out = r.out /\ SamePlace(r, q)
    BY Zenon DEF ServerType, SamePlace
  <2> HIDE DEF q
  <2>3. q.name = s[i].name /\ Grown(s[i].out, q.out) /\ Armed(q)
        /\ net' \subseteq Packets
    BY Zenon, <1>3, <2>1, <2>2 DEF SamePlace, Armed
  <2>4. ServerOK' /\ s'[i] = q /\ Others(i) /\ Stores(i)
    BY Zenon, <2>1, <2>2, <2>3, BecomeEffect
  <2>5. QED BY Zenon, <2>1, <2>2, <2>4
<1>5. CASE ~fails
  <2> DEFINE q == WriteBehind(r, err)
  <2>1. Become(i, q) /\ net' = net \cup {r[r.ap]}
    BY Zenon, <1>1, <1>5
  <2>2. /\ q \in ServerType /\ q.st = r.st /\ SamePlace(r, q)
        /\ Flushes(r, q) /\ Grown(r.out, q.out)
    BY Zenon, <1>2, WriteBehindEffect
  <2> HIDE DEF q
  <2>3. q.out \in Seq(Byte)
    BY Zenon, <2>2 DEF ServerType
  <2>4. q.name = s[i].name /\ Grown(s[i].out, q.out) /\ net' \subseteq Packets
    BY Zenon, <1>3, <2>1, <2>2, <2>3, GrownFacts DEF SamePlace, Armed
  <2>5. Armed(q)
    BY Zenon, <2>2, PointedPacket DEF SamePlace, Armed
  <2>6. ServerOK' /\ s'[i] = q /\ Others(i) /\ Stores(i)
    BY Zenon, <2>1, <2>2, <2>4, <2>5, BecomeEffect
  <2>7. QED BY Zenon, <2>1, <2>2, <2>6
<1>6. QED
  BY Zenon, <1>2, <1>4, <1>5

\* What one step of tftpd i can do to its place in the transfer: refuse or
\* accept a request, stop, send its last packet again, take the next block,
\* take the last one, or leave after it.
Refuses(i) ==
  /\ s[i].st = "free" /\ s'[i].st = "nak" /\ s'[i].block = s[i].block
  /\ net # {} /\ net' = net \cup {ERROR(i)} /\ disk' = disk
Accepted(i, p) ==
  LET o == ServerOptions(p) IN
  /\ s'[i].name = p.name /\ s'[i].block = 1 /\ s'[i].blksize = o.blksize
  /\ Clean(s'[i].buf) /\ s'[i].out = <<>>
  /\ IF o.etftp
     THEN /\ s'[i].ap = "oackbuf" /\ s'[i].ackbuf = ZeroPacket(i)
          /\ s'[i].oackbuf = OACK(i, p.blksize, o.tout)
     ELSE s'[i].ap = "ackbuf" /\ s'[i].ackbuf = ACK(i, 0)
Starts(i, p) ==
  /\ s[i].st = "free" /\ p.op = "WRQ" /\ p.name \in Remote /\ Accepted(i, p)
  /\ disk' = [disk EXCEPT ![p.name] = <<>>]
  /\ \/ s'[i].st = "abort" /\ net' = net
     \/ s'[i].st = "wait" /\ net' = net \cup {s'[i][s'[i].ap]}
Stops(i) ==
  /\ s[i].st = "wait" /\ s'[i].st \in {"abort", "timeout"}
  /\ SamePlace(s[i], s'[i]) /\ Stores(i) /\ net' = net
Repeats(i) ==
  /\ s[i].st = "wait" /\ s'[i].st = "wait" /\ SamePlace(s[i], s'[i])
  /\ Stores(i) /\ Flushes(s[i], s'[i])
  /\ net' = net \cup {s[i][s[i].ap]}

\* What recv() delivers of a packet, and what is on disk once it is written.
Clip(i, p) == SubSeq(p.data, 1, IF s[i].blksize < Len(p.data) THEN s[i].blksize
                                ELSE Len(p.data))
Wrote(i, d) ==
  /\ s[i].werr => s'[i].werr
  /\ Clean(s[i].buf) => Clean(s'[i].buf) /\ (~s'[i].werr => s'[i].out = s[i].out \o d)
Arrives(i, p) ==
  /\ s[i].st = "wait" /\ p.op = "DATA" /\ p.srv = i /\ NextBlock(i, p)
  /\ s'[i].name = s[i].name /\ s'[i].blksize = s[i].blksize /\ Stores(i)
Takes(i, p) ==
  /\ Arrives(i, p) /\ Len(Clip(i, p)) = s[i].blksize
  /\ s'[i].block = s[i].block + 1
  /\ s'[i].ap = "ackbuf" /\ s'[i].ackbuf = ACK(i, s[i].block)
  /\ \/ s'[i].st = "abort" /\ net' = net
     \/ /\ s'[i].st = "wait" /\ net' = net \cup {s'[i].ackbuf}
        /\ Wrote(i, Clip(i, p))
Lasts(i, p) ==
  /\ Arrives(i, p) /\ Len(Clip(i, p)) # s[i].blksize
  /\ s'[i].block = s[i].block /\ s'[i].st = "dally"
  /\ s'[i].ackbuf = IF s[i].ap = "ackbuf" THEN ACK(i, s[i].block) ELSE s[i].ackbuf
  /\ net' = net \cup {s'[i].ackbuf} /\ Wrote(i, Clip(i, p))
Leaves(i) ==
  /\ s[i].st = "dally" /\ s'[i].st = "done" /\ SamePlace(s[i], s'[i])
  /\ s'[i].out = s[i].out /\ s'[i].werr = s[i].werr /\ Stores(i)
  /\ net' \in {net, net \cup {s[i].ackbuf}}
ServerEffect(i) ==
  /\ Others(i)
  /\ \/ Refuses(i) \/ Stops(i) \/ Repeats(i) \/ Leaves(i)
     \/ \E p \in net : Starts(i, p) \/ Takes(i, p) \/ Lasts(i, p)

(* A tftpd that has not been started is well formed.                       *)
LEMMA FreshType ==
  /\ Fresh \in ServerType /\ Fresh.st = "free" /\ Fresh.block = 0
  /\ Fresh.buf = w_init /\ Fresh.out = <<>>
<1> DEFINE m == MaxTimeouts * TIMEOUT
           h == [b \in Bufs |-> 0]
           none == "none"
           P == Packets \cup {NoPacket}
           N == STRING \cup {"none"}
<1>1. m \in Nat /\ SegSize \in Nat /\ TIMEOUT \in Nat /\ 0 \in Nat
  BY CommonAssumption
<1>2. w_init \in BufType(Byte) /\ h \in [Bufs -> Nat] /\ <<>> \in Seq(Byte)
  BY InitType
<1>3. Fresh = [st |-> "free", name |-> none, block |-> 0, blksize |-> SegSize,
               rexmtval |-> TIMEOUT, maxtimeout |-> m, timeout |-> 0,
               ap |-> "oackbuf", ackbuf |-> NoPacket, oackbuf |-> NoPacket,
               buf |-> w_init, hdr |-> h, out |-> <<>>, werr |-> FALSE, finals |-> 0]
  BY Zenon DEF Fresh
<1>4. NoPacket \in P
  BY Zenon
<1>5. none \in N
  BY Zenon
<1>6. ServerType =
        [st : {"free", "wait", "dally", "done", "nak", "abort", "timeout"},
         name : N, block : Nat, blksize : Nat, rexmtval : Nat, maxtimeout : Nat,
         timeout : Nat, ap : {"ackbuf", "oackbuf"}, ackbuf : P, oackbuf : P,
         buf : BufType(Byte), hdr : [Bufs -> Nat], out : Seq(Byte),
         werr : BOOLEAN, finals : Nat]
  BY Zenon DEF ServerType
<1> HIDE DEF m, h, none, P, N
<1>7. Fresh \in ServerType
  BY SMTT(30), <1>1, <1>2, <1>3, <1>4, <1>5, <1>6
<1>8. /\ Fresh.st = "free" /\ Fresh.block = 0 /\ Fresh.buf = w_init
      /\ Fresh.out = <<>>
  BY Zenon, <1>3
<1>9. QED
  BY Zenon, <1>7, <1>8

(* A request starts a tftpd, which truncates the file and answers, or      *)
(* refuses it.                                                             *)
LEMMA StartEffect ==
  ASSUME ServerOK, NEW i \in Srv, Start(i)
  PROVE  ServerOK' /\ Others(i) /\ (Refuses(i) \/ \E p \in net : Starts(i, p))
<1>1. PICK p \in net :
        /\ p.op = "WRQ"
        /\ LET o == ServerOptions(p)
               r == [Fresh EXCEPT !.st = "wait", !.name = p.name, !.block = 1,
                       !.blksize = o.blksize, !.rexmtval = o.rexmtval,
                       !.maxtimeout = o.maxtimeout,
                       !.ap      = IF o.etftp THEN "oackbuf" ELSE "ackbuf",
                       !.oackbuf = OACK(i, p.blksize, o.tout),
                       !.ackbuf  = IF o.etftp THEN ZeroPacket(i) ELSE ACK(i, 0)]
           IN IF p.name \notin Remote
              THEN /\ s' = [s EXCEPT ![i].st = "nak"]
                   /\ net' = net \cup {ERROR(i)}
                   /\ UNCHANGED disk
              ELSE \E fails \in Faulty("send") :
                   /\ s' = [s EXCEPT ![i] = IF fails THEN [r EXCEPT !.st = "abort"]
                                            ELSE r]
                   /\ net' = IF fails THEN net ELSE net \cup {r[r.ap]}
                   /\ disk' = [disk EXCEPT ![p.name] = <<>>]
  BY Zenon DEF Start
<1>2. /\ s[i].st = "free" /\ s[i] \in ServerType /\ net \subseteq Packets
      /\ s \in [Srv -> ServerType] /\ disk \in [Remote -> Seq(Byte)]
  BY Zenon DEF Start, ServerOK
<1>3. p.name \in STRING /\ p.blksize \in Nat /\ p.timeout \in Int
  BY Zenon, <1>1, <1>2, PacketParts
<1>4. CASE p.name \notin Remote
  <2> DEFINE q == [s[i] EXCEPT !.st = "nak"]
  <2>1. s' = [s EXCEPT ![i].st = "nak"] /\ net' = net \cup {ERROR(i)} /\ disk' = disk
    BY Zenon, <1>1, <1>4
  <2>2. s' = [s EXCEPT ![i] = q]
    BY Zenon, <1>2, <2>1
  <2>3. /\ q \in ServerType /\ q.st = "nak" /\ q.block = s[i].block
        /\ q.name = s[i].name /\ q.out = s[i].out
    BY Zenon, <1>2 DEF ServerType
  <2> HIDE DEF q
  <2>4. net' \subseteq Packets
    BY Zenon, <1>2, <2>1, PacketType
  <2>5. q.st \notin {"wait", "dally"}
    BY Zenon, <2>3
  <2>6. ServerOK' /\ s'[i] = q /\ Others(i)
    BY Zenon, <2>1, <2>2, <2>3, <2>4, <2>5, TurnEffect
  <2>7. net # {}
    BY Zenon, <1>1
  <2>8. QED BY Zenon, <1>2, <2>1, <2>3, <2>6, <2>7 DEF Refuses
<1>5. CASE p.name \in Remote
  <2> DEFINE o == ServerOptions(p)
             ap == IF o.etftp THEN "oackbuf" ELSE "ackbuf"
             oack == OACK(i, p.blksize, o.tout)
             ack == IF o.etftp THEN ZeroPacket(i) ELSE ACK(i, 0)
             r == [Fresh EXCEPT !.st = "wait", !.name = p.name, !.block = 1,
                     !.blksize = o.blksize, !.rexmtval = o.rexmtval,
                     !.maxtimeout = o.maxtimeout, !.ap = ap, !.oackbuf = oack,
                     !.ackbuf = ack]
             x == [r EXCEPT !.st = "abort"]
  <2>1. PICK fails \in Faulty("send") :
          /\ s' = [s EXCEPT ![i] = IF fails THEN x ELSE r]
          /\ net' = IF fails THEN net ELSE net \cup {r[r.ap]}
          /\ disk' = [disk EXCEPT ![p.name] = <<>>]
    BY Zenon, <1>1, <1>5
  <2>2. fails \in BOOLEAN
    BY ZenonT(30), <2>1, FaultyBool
  <2>3. /\ o.blksize \in Nat /\ o.rexmtval \in Nat /\ o.maxtimeout \in Nat
        /\ o.tout \in Nat
    BY <1>3, CommonAssumption DEF ServerOptions
  <2>4. ap \in {"ackbuf", "oackbuf"} /\ oack \in Packets /\ ack \in Packets
    <3>1. oack \in Packets
      BY Zenon, <1>3, <2>3, PacketType
    <3>2. 0 \in Int
      OBVIOUS
    <3>3. ack \in Packets
      BY Zenon, <3>2, PacketType
    <3>4. QED BY Zenon, <3>1, <3>3
  <2>5. /\ o.etftp => ap = "oackbuf" /\ ack = ZeroPacket(i)
        /\ ~o.etftp => ap = "ackbuf" /\ ack = ACK(i, 0)
    BY Zenon
  <2> HIDE DEF o, ap, oack, ack
  <2>6. /\ r \in ServerType /\ r.st = "wait" /\ r.name = p.name /\ r.block = 1
        /\ r.blksize = o.blksize /\ r.ap = ap /\ r.oackbuf = oack
        /\ r.ackbuf = ack /\ r.buf = w_init /\ r.out = <<>>
    BY ZenonT(60), <1>3, <2>3, <2>4, FreshType DEF ServerType
  <2> HIDE DEF r
  <2>7. /\ x \in ServerType /\ x.st = "abort" /\ x.name = p.name /\ x.block = 1
        /\ x.blksize = o.blksize /\ x.ap = ap /\ x.oackbuf = oack
        /\ x.ackbuf = ack /\ x.buf = w_init /\ x.out = <<>>
    BY ZenonT(30), <2>6 DEF ServerType
  <2> HIDE DEF x
  <2>8. r[r.ap] \in Packets
    BY Zenon, <2>4, <2>6, PointedPacket
  <2> DEFINE q == IF fails THEN x ELSE r
  <2>9. /\ q \in ServerType /\ Armed(q) /\ q.name = p.name /\ q.block = 1
        /\ q.blksize = o.blksize /\ q.ap = ap /\ q.oackbuf = oack
        /\ q.ackbuf = ack /\ q.buf = w_init /\ q.out = <<>>
        /\ \/ q.st = "abort" /\ net' = net
           \/ q.st = "wait" /\ net' = net \cup {q[q.ap]}
    <3>1. Armed(x) /\ Armed(r)
      BY Zenon, <2>4, <2>6, <2>7, <2>8 DEF Armed
    <3>2. CASE fails
      BY Zenon, <2>1, <2>7, <3>1, <3>2
    <3>3. CASE ~fails
      BY Zenon, <2>1, <2>6, <3>1, <3>3
    <3>4. QED BY Zenon, <2>2, <3>2, <3>3
  <2> HIDE DEF q
  <2>10. s' = [s EXCEPT ![i] = q]
    BY Zenon, <2>1 DEF q
  <2>11. s'[i] = q /\ (\A j \in Srv \ {i} : s'[j] = s[j]) /\ s' \in [Srv -> ServerType]
    BY Zenon, <1>2, <2>9, <2>10
  <2>12. disk' \in [Remote -> Seq(Byte)]
    <3>1. <<>> \in Seq(Byte)
      OBVIOUS
    <3>2. QED BY Zenon, <1>2, <2>1, <3>1
  <2>13. net' \subseteq Packets
    BY Zenon, <1>2, <2>9 DEF Armed
  <2>14. ServerOK' /\ Others(i)
    BY Zenon, <2>9, <2>11, <2>12, <2>13 DEF ServerOK, Others
  <2>15. Accepted(i, p)
    BY Zenon, <2>5, <2>9, <2>11, WInitClean DEF Accepted, o, oack
  <2>16. Starts(i, p)
    BY Zenon, <1>1, <1>2, <1>5, <2>1, <2>9, <2>11, <2>15 DEF Starts
  <2>17. QED BY Zenon, <2>14, <2>16
<1>6. QED
  BY Zenon, <1>4, <1>5

\* The tftpd once writeit() has been given the data that has arrived.
Received(r, data, err, blk) ==
  LET w == writeit(RecvInto(r.buf, data), r.out, FALSE, err) IN
  [r EXCEPT !.buf = w.b, !.out = w.disk, !.werr = @ \/ err,
            !.hdr[r.buf.current] = blk]

(* writeit() takes over the data that has arrived.                         *)
LEMMA ReceiveEffect ==
  ASSUME NEW r \in ServerType, NEW data \in Seq(Byte), NEW err \in BOOLEAN,
         NEW blk \in Nat
  PROVE  LET wr == Received(r, data, err, blk)
         IN /\ wr \in ServerType /\ wr.st = r.st /\ SamePlace(r, wr)
            /\ Grown(r.out, wr.out) /\ (r.werr => wr.werr)
            /\ Clean(r.buf) => Pending(wr.buf, data) /\ wr.out = r.out
<1> DEFINE w  == writeit(RecvInto(r.buf, data), r.out, FALSE, err)
           e  == (r.werr \/ err)
           h  == [r.hdr EXCEPT ![r.buf.current] = blk]
           x  == [r EXCEPT !.buf = w.b, !.out = w.disk, !.werr = e, !.hdr = h]
           wr == Received(r, data, err, blk)
<1>1. /\ r.buf \in BufType(Byte) /\ r.out \in Seq(Byte) /\ r.werr \in BOOLEAN
      /\ r.hdr \in [Bufs -> Nat]
  BY Zenon DEF ServerType
<1>2. w.b \in BufType(Byte) /\ w.disk \in Seq(Byte) /\ Grown(r.out, w.disk)
  BY Zenon, <1>1, WriteitType, WritesGrow
<1>3. Clean(r.buf) => Pending(w.b, data) /\ w.disk = r.out
  BY ZenonT(30), <1>1, WriteitClean
<1>4. e \in BOOLEAN /\ (r.werr => e)
  BY Zenon, <1>1
<1>5. h \in [Bufs -> Nat]
  BY Zenon, <1>1
<1>6. wr = x
  BY Zenon DEF Received
<1> HIDE DEF w, e, h
<1>7. /\ x \in ServerType /\ x.st = r.st /\ x.buf = w.b /\ x.out = w.disk /\ x.werr = e
      /\ x.name = r.name /\ x.block = r.block /\ x.blksize = r.blksize
      /\ x.ap = r.ap /\ x.ackbuf = r.ackbuf /\ x.oackbuf = r.oackbuf
  BY ZenonT(30), <1>2, <1>4, <1>5 DEF ServerType
<1> HIDE DEF x
<1>8. QED
  BY Zenon, <1>2, <1>3, <1>4, <1>6, <1>7 DEF SamePlace

(* A full block is written and acknowledged.                               *)
LEMMA AckBlockEffect ==
  ASSUME ServerOK, NEW i \in Srv, NEW r \in ServerType, r.st = "wait",
         r.name = s[i].name, Grown(s[i].out, r.out), AckBlock(i, r)
  PROVE  /\ ServerOK' /\ Others(i) /\ Stores(i)
         /\ s'[i].block = r.block + 1 /\ s'[i].blksize = r.blksize
         /\ s'[i].ap = "ackbuf" /\ s'[i].ackbuf = ACK(i, r.block)
         /\ \/ s'[i].st = "abort" /\ net' = net
            \/ /\ s'[i].st = "wait" /\ net' = net \cup {s'[i].ackbuf}
               /\ Flushes(r, s'[i])
<1> DEFINE k == r.block + 1
           a == ACK(i, r.block)
           q == [r EXCEPT !.ap = "ackbuf", !.ackbuf = a, !.block = k, !.timeout = 0]
<1>1. SendAck(i, q)
  BY Zenon DEF AckBlock
<1>2. r.block \in Nat
  BY Zenon DEF ServerType
<1>3. k \in Nat /\ r.block \in Int /\ 0 \in Nat
  BY <1>2
<1>4. a \in Packets
  BY Zenon, <1>3, PacketType
<1> HIDE DEF k, a
<1>5. /\ q \in ServerType /\ q.st = "wait" /\ q.name = r.name /\ q.out = r.out
      /\ q.block = k /\ q.blksize = r.blksize /\ q.ap = "ackbuf" /\ q.ackbuf = a
      /\ q.buf = r.buf /\ q.werr = r.werr
  BY ZenonT(30), <1>3, <1>4 DEF ServerType
<1> HIDE DEF q
<1>6. q[q.ap] = a
  BY Zenon, <1>5, PointedPacket
<1>7. Armed(q) /\ Grown(s[i].out, q.out) /\ q.name = s[i].name
  BY Zenon, <1>4, <1>5, <1>6 DEF Armed
<1>8. /\ ServerOK' /\ Others(i) /\ Stores(i) /\ SamePlace(q, s'[i])
      /\ \/ s'[i].st = "abort" /\ net' = net
         \/ /\ s'[i].st = "wait" /\ net' = net \cup {q[q.ap]}
            /\ Flushes(q, s'[i])
  BY Zenon, <1>1, <1>5, <1>7, SendAckEffect
<1>9. Flushes(q, s'[i]) => Flushes(r, s'[i])
  BY Zenon, <1>5 DEF Flushes
<1>10. /\ s'[i].block = k /\ s'[i].blksize = r.blksize
       /\ s'[i].ap = "ackbuf" /\ s'[i].ackbuf = a
  BY Zenon, <1>5, <1>8 DEF SamePlace
<1>11. QED
  BY Zenon, <1>6, <1>8, <1>9, <1>10 DEF k, a

(* The last block is written; the header of its ack goes where ap points,  *)
(* and ackbuf is sent.                                                     *)
LEMMA LastBlockEffect ==
  ASSUME ServerOK, NEW i \in Srv, NEW r \in ServerType, r.st = "wait",
         r.name = s[i].name, r.ackbuf \in Packets, Grown(s[i].out, r.out),
         LastBlock(i, r)
  PROVE  /\ ServerOK' /\ Others(i) /\ Stores(i)
         /\ s'[i].block = r.block /\ s'[i].blksize = r.blksize /\ s'[i].st = "dally"
         /\ s'[i].ackbuf = IF r.ap = "ackbuf" THEN ACK(i, r.block) ELSE r.ackbuf
         /\ net' = net \cup {s'[i].ackbuf} /\ Flushes(r, s'[i])
<1>1. PICK err \in Faulty("write") :
        LET f == [WriteBehind(r, err) EXCEPT ![r.ap] = ACK(i, r.block)] IN
        /\ Become(i, [f EXCEPT !.st = "dally", !.finals = 1])
        /\ net' = net \cup {f.ackbuf}
  BY Zenon DEF LastBlock
<1> DEFINE w == WriteBehind(r, err)
           a == ACK(i, r.block)
           f == [w EXCEPT ![r.ap] = a]
           q == [f EXCEPT !.st = "dally", !.finals = 1]
           b == IF r.ap = "ackbuf" THEN a ELSE r.ackbuf
<1>2. err \in BOOLEAN
  BY Zenon, <1>1, FaultyBool
<1>3. /\ w \in ServerType /\ w.st = r.st /\ SamePlace(r, w) /\ Flushes(r, w)
      /\ Grown(r.out, w.out)
  BY Zenon, <1>2, WriteBehindEffect
<1>4. r.block \in Int /\ r.ap \in {"ackbuf", "oackbuf"} /\ 1 \in Nat
  BY DEF ServerType
<1>5. a \in Packets
  BY Zenon, <1>4, PacketType
<1>6. Become(i, q) /\ net' = net \cup {f.ackbuf}
  BY Zenon, <1>1
<1>7. w.ackbuf = r.ackbuf /\ w.block = r.block /\ w.blksize = r.blksize /\ w.name = r.name
  BY Zenon, <1>3 DEF SamePlace
<1> HIDE DEF w, a
<1>8. /\ f \in ServerType /\ f.ackbuf = b /\ f.block = r.block /\ f.name = r.name
      /\ f.blksize = r.blksize /\ f.out = w.out /\ f.buf = w.buf /\ f.werr = w.werr
  <2>1. CASE r.ap = "ackbuf"
    <3>1. f = [w EXCEPT !.ackbuf = a] /\ b = a
      BY Zenon, <2>1
    <3> HIDE DEF f, b
    <3>2. QED BY ZenonT(30), <1>3, <1>5, <1>7, <3>1 DEF ServerType
  <2>2. CASE r.ap = "oackbuf"
    <3>1. f = [w EXCEPT !.oackbuf = a] /\ b = r.ackbuf
      BY Zenon, <2>2
    <3> HIDE DEF f, b
    <3>2. QED BY ZenonT(30), <1>3, <1>5, <1>7, <3>1 DEF ServerType
  <2>3. QED BY Zenon, <1>4, <2>1, <2>2
<1>9. b \in Packets
  BY Zenon, <1>5
<1> HIDE DEF f, b
<1>10. /\ q \in ServerType /\ q.st = "dally" /\ q.ackbuf = b /\ q.block = r.block
       /\ q.name = r.name /\ q.blksize = r.blksize /\ q.out = w.out
       /\ q.buf = w.buf /\ q.werr = w.werr
  BY ZenonT(30), <1>4, <1>8 DEF ServerType
<1> HIDE DEF q
<1>11. Armed(q) /\ net' \subseteq Packets
  BY Zenon, <1>6, <1>8, <1>9, <1>10 DEF Armed, ServerOK
<1>12. Grown(s[i].out, q.out)
  <2>1. s[i].out \in Seq(Byte) /\ r.out \in Seq(Byte) /\ q.out \in Seq(Byte)
    BY Zenon, <1>10 DEF ServerOK, ServerType
  <2>2. QED BY Zenon, <1>3, <1>10, <2>1, GrownFacts
<1>13. ServerOK' /\ s'[i] = q /\ Others(i) /\ Stores(i)
  BY Zenon, <1>6, <1>10, <1>11, <1>12, BecomeEffect
<1>14. Flushes(r, q)
  BY Zenon, <1>3, <1>10 DEF Flushes
<1>15. QED
  BY Zenon, <1>6, <1>8, <1>10, <1>13, <1>14 DEF b, a

(* DATA with the block waited for is written and acknowledged.             *)
LEMMA DataEffect ==
  ASSUME ServerOK, NEW i \in Srv, NEW p \in net, p.op = "DATA", GotData(i, p)
  PROVE  ServerOK' /\ Others(i) /\ (Takes(i, p) \/ Lasts(i, p))
<1> DEFINE r == s[i]
           data == Clip(i, p)
<1>1. PICK err \in Faulty("write") :
        LET wr == Received(r, data, err, p.block)
        IN IF Len(data) = r.blksize THEN AckBlock(i, wr) ELSE LastBlock(i, wr)
  BY Zenon DEF GotData, Clip, Received
<1>2. r.st = "wait" /\ p.srv = i /\ NextBlock(i, p)
  BY Zenon DEF GotData
<1>3. err \in BOOLEAN
  BY Zenon, <1>1, FaultyBool
<1>4. r \in ServerType /\ Armed(r) /\ p \in Packets
  BY Zenon DEF ServerOK
<1>5. p.block \in Nat /\ p.data \in Seq(Byte) /\ r.blksize \in Nat
  BY Zenon, <1>4, PacketParts DEF ServerType
<1>6. data \in Seq(Byte)
  <2> DEFINE n == IF r.blksize < Len(p.data) THEN r.blksize ELSE Len(p.data)
  <2>1. n \in 0..Len(p.data)
    BY <1>5
  <2>2. SubSeq(p.data, 1, n) \in Seq(Byte)
    BY <1>5, <2>1
  <2>3. QED BY Zenon, <2>2 DEF Clip
<1>7. Armed(r) => r.ackbuf \in Packets
  BY Zenon, <1>2 DEF Armed
<1> DEFINE wr == Received(r, data, err, p.block)
<1>8. /\ wr \in ServerType /\ wr.st = r.st /\ SamePlace(r, wr)
      /\ Grown(r.out, wr.out) /\ (r.werr => wr.werr)
      /\ Clean(r.buf) => Pending(wr.buf, data) /\ wr.out = r.out
  <2> DEFINE k == p.block
  <2>1. r \in ServerType /\ data \in Seq(Byte) /\ k \in Nat
    BY Zenon, <1>4, <1>5, <1>6
  <2> HIDE DEF r, data, k
  <2>2. LET x == Received(r, data, err, k)
        IN /\ x \in ServerType /\ x.st = r.st /\ SamePlace(r, x)
           /\ Grown(r.out, x.out) /\ (r.werr => x.werr)
           /\ Clean(r.buf) => Pending(x.buf, data) /\ x.out = r.out
    BY ONLY Zenon, <1>3, <2>1, ReceiveEffect
  <2>3. QED BY Zenon, <2>2 DEF k
<1>9. /\ Len(data) = r.blksize => AckBlock(i, wr)
      /\ Len(data) # r.blksize => LastBlock(i, wr)
  BY Zenon, <1>1
<1> HIDE DEF wr
<1>10. /\ wr.name = r.name /\ wr.block = r.block /\ wr.blksize = r.blksize
       /\ wr.ap = r.ap /\ wr.ackbuf = r.ackbuf
  BY Zenon, <1>8 DEF SamePlace
<1>11. ASSUME Flushes(wr, s'[i])
       PROVE  Wrote(i, data)
  BY Zenon, <1>6, <1>8, <1>11 DEF Flushes, Wrote
<1> HIDE DEF data
<1>12. CASE Len(data) = r.blksize
  <2> wr.st = "wait" /\ AckBlock(i, wr)
    BY Zenon, <1>2, <1>8, <1>9, <1>12
  <2>1. /\ ServerOK' /\ Others(i) /\ Stores(i)
        /\ s'[i].block = wr.block + 1 /\ s'[i].blksize = wr.blksize
        /\ s'[i].ap = "ackbuf" /\ s'[i].ackbuf = ACK(i, wr.block)
        /\ \/ s'[i].st = "abort" /\ net' = net
           \/ /\ s'[i].st = "wait" /\ net' = net \cup {s'[i].ackbuf}
              /\ Flushes(wr, s'[i])
    BY Zenon, <1>8, <1>10, AckBlockEffect
  <2>2. Arrives(i, p)
    BY Zenon, <1>2, <1>10, <2>1 DEF Arrives, Stores
  <2>3. Takes(i, p)
    BY Zenon, <1>10, <1>11, <1>12, <2>1, <2>2 DEF Takes, data
  <2>4. QED BY Zenon, <2>1, <2>3
<1>13. CASE Len(data) # r.blksize
  <2> wr.st = "wait" /\ wr.ackbuf \in Packets /\ LastBlock(i, wr)
    BY Zenon, <1>2, <1>4, <1>7, <1>8, <1>9, <1>10, <1>13
  <2>1. /\ ServerOK' /\ Others(i) /\ Stores(i)
        /\ s'[i].block = wr.block /\ s'[i].blksize = wr.blksize
        /\ s'[i].st = "dally"
        /\ s'[i].ackbuf = IF wr.ap = "ackbuf" THEN ACK(i, wr.block) ELSE wr.ackbuf
        /\ net' = net \cup {s'[i].ackbuf} /\ Flushes(wr, s'[i])
    BY Zenon, <1>8, <1>10, LastBlockEffect
  <2>2. Arrives(i, p)
    BY Zenon, <1>2, <1>10, <2>1 DEF Arrives, Stores
  <2>3. Lasts(i, p)
    BY Zenon, <1>10, <1>11, <1>13, <2>1, <2>2 DEF Lasts, data
  <2>4. QED BY Zenon, <2>1, <2>3
<1>14. QED
  BY Zenon, <1>12, <1>13

(* The ack sent again.                                                     *)
LEMMA AgainAckEffect ==
  ASSUME ServerOK, NEW i \in Srv, NEW r \in ServerType, s[i].st = "wait",
         r.st = "wait", SamePlace(s[i], r), r.buf = s[i].buf, r.out = s[i].out,
         r.werr = s[i].werr, SendAck(i, r)
  PROVE  ServerOK' /\ Others(i) /\ (Stops(i) \/ Repeats(i))
<1>1. s[i] \in ServerType /\ Armed(s[i])
  BY Zenon DEF ServerOK
<1>2. /\ r.name = s[i].name /\ r.ap = s[i].ap /\ r.ackbuf = s[i].ackbuf
      /\ r.oackbuf = s[i].oackbuf
  BY Zenon DEF SamePlace
<1>3. r[r.ap] = s[i][s[i].ap]
  BY Zenon, <1>1, <1>2, PointedPacket
<1>4. Armed(r)
  BY Zenon, <1>1, <1>2, <1>3 DEF Armed
<1>5. s[i].out \in Seq(Byte)
  BY Zenon, <1>1 DEF ServerType
<1>6. Grown(s[i].out, r.out)
  BY Zenon, <1>5, GrownFacts
<1>7. /\ ServerOK' /\ Others(i) /\ Stores(i) /\ SamePlace(r, s'[i])
      /\ \/ s'[i].st = "abort" /\ net' = net
         \/ /\ s'[i].st = "wait" /\ net' = net \cup {r[r.ap]}
            /\ Flushes(r, s'[i])
  BY Zenon, <1>2, <1>4, <1>6, SendAckEffect
<1>8. SamePlace(s[i], s'[i])
  BY Zenon, <1>7 DEF SamePlace
<1>9. Flushes(r, s'[i]) => Flushes(s[i], s'[i])
  BY Zenon DEF Flushes
<1>10. QED
  BY Zenon, <1>3, <1>7, <1>8, <1>9 DEF Stops, Repeats

(* A tftpd that stops waiting.                                             *)
LEMMA EndEffect ==
  ASSUME ServerOK, NEW i \in Srv, NEW r \in ServerType, s[i].st \in {"wait", "dally"},
         s[i].st = "wait" => r.st \in {"abort", "timeout"},
         s[i].st = "dally" => r.st = "done",
         SamePlace(s[i], r), r.out = s[i].out, r.werr = s[i].werr,
         s' = [s EXCEPT ![i] = r], disk' = disk,
         s[i].st = "wait" => net' = net,
         net' \in {net, net \cup {s[i].ackbuf}}
  PROVE  ServerOK' /\ Others(i) /\ (Stops(i) \/ Leaves(i))
<1>1. net' \subseteq Packets
  BY Zenon DEF ServerOK, Armed
<1>2. r.st \notin {"wait", "dally"}
  BY Zenon
<1>3. r.name = s[i].name
  BY Zenon DEF SamePlace
<1>4. ServerOK' /\ s'[i] = r /\ Others(i) /\ Stores(i)
  BY Zenon, <1>1, <1>2, <1>3, TurnEffect
<1>5. QED
  BY Zenon, <1>4 DEF Stops, Leaves

(* A step of a tftpd: what it does to its own state, the file and the      *)
(* network.                                                                *)
LEMMA ServerStepEffect ==
  ASSUME ServerOK, NEW i \in Srv, Server(i)
  PROVE  ServerOK' /\ ServerEffect(i) /\ c' = c /\ put' = put
<1>1. /\ s \in [Srv -> ServerType] /\ s[i] \in ServerType /\ net \subseteq Packets
      /\ Armed(s[i])
  BY Zenon DEF ServerOK
<1>2. CASE Start(i)
  <2>1. c' = c /\ put' = put
    BY Zenon, <1>2 DEF Start
  <2>2. QED BY Zenon, <1>2, <2>1, StartEffect DEF ServerEffect
<1>3. CASE ServerRecv(i)
  <2>1. PICK p \in net :
          \/ p.op = "DATA" /\ (GotData(i, p) \/ StaleData(i, p) \/ DallyRecv(i, p))
          \/ p.op = "CNAK" /\ GotNak(i, p)
    BY Zenon, <1>3 DEF ServerRecv
  <2>2. CASE p.op = "DATA" /\ GotData(i, p)
    <3>1. c' = c /\ put' = put
      BY Zenon, <2>2 DEF GotData
    <3>2. ServerOK' /\ Others(i) /\ (Takes(i, p) \/ Lasts(i, p))
      BY Zenon, <2>2, DataEffect
    <3>3. QED BY Zenon, <3>1, <3>2 DEF ServerEffect
  <2>3. CASE StaleData(i, p)
    <3>1. c' = c /\ put' = put /\ s[i].st = "wait" /\ SendAck(i, s[i])
      BY Zenon, <2>3 DEF StaleData
    <3>2. SamePlace(s[i], s[i])
      BY Zenon DEF SamePlace
    <3>3. ServerOK' /\ Others(i) /\ (Stops(i) \/ Repeats(i))
      BY Zenon, <1>1, <3>1, <3>2, AgainAckEffect
    <3>4. QED BY Zenon, <3>1, <3>3 DEF ServerEffect
  <2>4. CASE DallyRecv(i, p)
    <3> DEFINE again == s[i].hdr[s[i].buf.current] = s[i].block
               n == IF again THEN s[i].finals + 1 ELSE s[i].finals
               q == [s[i] EXCEPT !.st = "done", !.finals = n]
    <3>1. /\ c' = c /\ put' = put /\ disk' = disk /\ s[i].st = "dally"
          /\ s' = [s EXCEPT ![i].st = "done",
                            ![i].finals = IF again THEN @ + 1 ELSE @]
          /\ net' = net \cup (IF again THEN {s[i].ackbuf} ELSE {})
      BY Zenon, <2>4 DEF DallyRecv
    <3>2. s[i].finals \in Nat
      BY Zenon, <1>1 DEF ServerType
    <3>3. n \in Nat
      BY <3>2
    <3>4. s' = [s EXCEPT ![i] = q]
      BY Zenon, <1>1, <3>1
    <3>5. net' \in {net, net \cup {s[i].ackbuf}}
      BY Zenon, <3>1
    <3> HIDE DEF n
    <3>6. /\ q \in ServerType /\ q.st = "done" /\ SamePlace(s[i], q)
          /\ q.out = s[i].out /\ q.werr = s[i].werr
      BY ZenonT(30), <1>1, <3>3 DEF ServerType, SamePlace
    <3> HIDE DEF q
    <3>7. s[i].st # "wait"
      BY Zenon, <3>1
    <3>8. ServerOK' /\ Others(i) /\ (Stops(i) \/ Leaves(i))
      BY Zenon, <3>1, <3>4, <3>5, <3>6, <3>7, EndEffect
    <3>9. QED BY Zenon, <3>1, <3>8 DEF ServerEffect
  <2>5. CASE GotNak(i, p)
    <3> DEFINE q == [s[i] EXCEPT !.st = "abort"]
    <3>1. /\ c' = c /\ put' = put /\ disk' = disk /\ net' = net /\ s[i].st = "wait"
          /\ s' = [s EXCEPT ![i].st = "abort"]
      BY Zenon, <2>5 DEF GotNak
    <3>2. s' = [s EXCEPT ![i] = q]
      BY Zenon, <3>1
    <3>3. /\ q \in ServerType /\ q.st = "abort" /\ SamePlace(s[i], q)
          /\ q.out = s[i].out /\ q.werr = s[i].werr
      BY ZenonT(30), <1>1 DEF ServerType, SamePlace
    <3> HIDE DEF q
    <3>4. ServerOK' /\ Others(i) /\ (Stops(i) \/ Leaves(i))
      BY Zenon, <3>1, <3>2, <3>3, EndEffect
    <3>5. QED BY Zenon, <3>1, <3>4 DEF ServerEffect
  <2>6. QED BY Zenon, <2>1, <2>2, <2>3, <2>4, <2>5
<1>4. CASE Refused(i)
  <2> DEFINE x == IF s[i].st = "dally" THEN "done" ELSE "abort"
             q == [s[i] EXCEPT !.st = x]
  <2>1. /\ c' = c /\ put' = put /\ disk' = disk /\ net' = net
        /\ s[i].st \in {"wait", "dally"}
        /\ s' = [s EXCEPT ![i].st = IF @ = "dally" THEN "done" ELSE "abort"]
    BY Zenon, <1>4 DEF Refused
  <2>2. s' = [s EXCEPT ![i] = q]
    BY Zenon, <2>1
  <2>3. /\ x \in {"done", "abort"} /\ (s[i].st = "dally" => x = "done")
        /\ s[i].st = "wait" => x = "abort"
    BY Zenon, <2>1
  <2>4. x \in {"free", "wait", "dally", "done", "nak", "abort", "timeout"}
    BY Zenon, <2>3
  <2> HIDE DEF x
  <2>5. /\ q \in ServerType /\ q.st = x /\ SamePlace(s[i], q)
        /\ q.out = s[i].out /\ q.werr = s[i].werr
    BY ZenonT(30), <1>1, <2>4 DEF ServerType, SamePlace
  <2> HIDE DEF q
  <2>6. ServerOK' /\ Others(i) /\ (Stops(i) \/ Leaves(i))
    BY Zenon, <2>1, <2>2, <2>3, <2>5, EndEffect
  <2>7. QED BY Zenon, <2>1, <2>6 DEF ServerEffect
<1>5. CASE ServerTimer(i)
  <2> DEFINE t == Elapsed(s[i])
  <2>1. c' = c /\ put' = put
    BY Zenon, <1>5 DEF ServerTimer
  <2>2. t \in Nat
    BY <1>1 DEF Elapsed, ServerType
  <2>3. CASE s[i].st = "wait" /\ SendAck(i, [s[i] EXCEPT !.timeout = t])
    <3> DEFINE q == [s[i] EXCEPT !.timeout = t]
    <3> HIDE DEF t
    <3>1. /\ q \in ServerType /\ q.st = s[i].st /\ SamePlace(s[i], q)
          /\ q.buf = s[i].buf /\ q.out = s[i].out /\ q.werr = s[i].werr
      BY ZenonT(30), <1>1, <2>2 DEF ServerType, SamePlace
    <3> HIDE DEF q
    <3>2. s[i].st = "wait" /\ q.st = "wait" /\ SendAck(i, q)
      BY Zenon, <2>3, <3>1 DEF q
    <3>3. ServerOK' /\ Others(i) /\ (Stops(i) \/ Repeats(i))
      BY Zenon, <3>1, <3>2, AgainAckEffect
    <3>4. QED BY Zenon, <2>1, <3>3 DEF ServerEffect
  <2>4. ASSUME NEW x \in {"timeout", "done"},
               (s[i].st = "wait" /\ x = "timeout") \/ (s[i].st = "dally" /\ x = "done"),
               s' = [s EXCEPT ![i].st = x], disk' = disk, net' = net
        PROVE  ServerOK' /\ ServerEffect(i)
    <3> DEFINE q == [s[i] EXCEPT !.st = x]
    <3>1. s' = [s EXCEPT ![i] = q]
      BY Zenon, <2>4
    <3>2. x \in {"free", "wait", "dally", "done", "nak", "abort", "timeout"}
      BY Zenon, <2>4
    <3>3. /\ q \in ServerType /\ q.st = x /\ SamePlace(s[i], q)
          /\ q.out = s[i].out /\ q.werr = s[i].werr
      BY ZenonT(30), <1>1, <3>2 DEF ServerType, SamePlace
    <3> HIDE DEF q
    <3>4. /\ s[i].st \in {"wait", "dally"}
          /\ s[i].st = "wait" => q.st \in {"abort", "timeout"}
          /\ s[i].st = "dally" => q.st = "done"
      BY Zenon, <2>4, <3>3
    <3>5. ServerOK' /\ Others(i) /\ (Stops(i) \/ Leaves(i))
      BY Zenon, <2>4, <3>1, <3>3, <3>4, EndEffect
    <3>6. QED BY Zenon, <3>5 DEF ServerEffect
  <2>5. \/ s[i].st = "wait" /\ SendAck(i, [s[i] EXCEPT !.timeout = t])
        \/ s[i].st = "wait" /\ s' = [s EXCEPT ![i].st = "timeout"]
           /\ disk' = disk /\ net' = net
        \/ s[i].st = "dally" /\ s' = [s EXCEPT ![i].st = "done"]
           /\ disk' = disk /\ net' = net
    BY Zenon, <1>5 DEF ServerTimer
  <2> HIDE DEF t
  <2>6. CASE s[i].st = "wait" /\ s' = [s EXCEPT ![i].st = "timeout"]
             /\ disk' = disk /\ net' = net
    BY Zenon, <2>1, <2>4, <2>6
  <2>7. CASE s[i].st = "dally" /\ s' = [s EXCEPT ![i].st = "done"]
             /\ disk' = disk /\ net' = net
    BY Zenon, <2>1, <2>4, <2>7
  <2>8. QED BY Zenon, <2>3, <2>5, <2>6, <2>7
<1>6. QED
  BY Zenon, <1>2, <1>3, <1>4, <1>5 DEF Server

-----------------------------------------------------------------------------
(* TypeOK is a fact about the client and one about the servers.            *)
LEMMA TypeParts == TypeOK => ClientOK /\ ServerOK
<1>1. TypeOK /\ c.st = "wait" => c.job \in 1..Len(Jobs)
  BY JobsType DEF TypeOK, ClientType
<1>2. QED
  BY Zenon, <1>1 DEF TypeOK, ClientOK, ServerOK, Armed, InFile, Source

(* The client and every tftpd stay well formed: every packet has its type, *)
(* the file offset of the client stays in the file, and the packet a timer *)
(* would send again is a packet.                                           *)
THEOREM PutTypeCorrect == Spec => []TypeOK
<1>1. Init => TypeOK
  <2> SUFFICES ASSUME Init PROVE TypeOK
    BY Zenon
  <2> DEFINE r == [st |-> "idle", job |-> 0, block |-> 0, blksize |-> SegSize,
                   rexmtval |-> TIMEOUT, tsize |-> FALSE, timeout |-> 0,
                   serv |-> NoSrv, pkt |-> NoPacket, buf |-> r_init, pos |-> 0]
             P == Packets \cup {NoPacket}
             S == Srv \cup {NoSrv}
             J == 0..Len(Jobs)
  <2>1. /\ c = r /\ s = [i \in Srv |-> Fresh] /\ disk = [n \in Remote |-> <<>>]
        /\ net = {}
    BY Zenon DEF Init
  <2>2. /\ SegSize \in Nat /\ TIMEOUT \in Nat /\ 0 \in J /\ 0 \in Nat
        /\ r_init \in BufType(Byte) /\ <<>> \in Seq(Byte)
    BY CommonAssumption, JobsType, InitType
  <2>3. NoPacket \in P /\ NoSrv \in S
    BY Zenon
  <2>4. ClientType =
          [st : {"idle", "wait", "quit"}, job : J, block : Nat, blksize : Nat,
           rexmtval : Nat, tsize : BOOLEAN, timeout : Nat, serv : S, pkt : P,
           buf : BufType(Byte), pos : Nat]
    BY Zenon DEF ClientType
  <2> HIDE DEF P, S, J
  <2>5. r \in ClientType
    BY SMTT(30), <2>2, <2>3, <2>4
  <2>6. r.st = "idle"
    BY Zenon
  <2> HIDE DEF r
  <2>7. /\ s \in [Srv -> ServerType] /\ disk \in [Remote -> Seq(Byte)]
        /\ \A i \in Srv : s[i].st = "free"
    BY Zenon, <2>1, <2>2, FreshType
  <2>8. \A i \in Srv : s[i].st # "wait" /\ s[i].st \notin {"wait", "dally"}
    BY Zenon, <2>7
  <2>9. c \in ClientType /\ net \subseteq Packets /\ c.st # "wait"
    BY Zenon, <2>1, <2>5, <2>6
  <2>10. QED BY Zenon, <2>7, <2>8, <2>9 DEF TypeOK
<1>2. TypeOK => ClientOK /\ ServerOK
  BY Zenon, TypeParts
<1>3. TypeOK /\ [Next]_vars => TypeOK'
  <2> SUFFICES ASSUME TypeOK, [Next]_vars PROVE TypeOK'
    BY Zenon
  <2>1. ASSUME ClientOK', ServerOK' PROVE TypeOK'
    <3>1. c'.st = "wait" => c'.job > 0
      BY <2>1 DEF ClientOK, InFile
    <3>2. QED BY Zenon, <2>1, <3>1 DEF TypeOK, ClientOK, ServerOK, Armed, InFile, Source
  <2>2. CASE Client
    <3>1. ClientOK' /\ s' = s /\ disk' = disk
      BY Zenon, <1>2, <2>2, ClientStepEffect
    <3>2. ServerOK'
      BY Zenon, <1>2, <3>1 DEF ServerOK, ClientOK
    <3>3. QED BY Zenon, <2>1, <3>1, <3>2
  <2>3. ASSUME NEW i \in Srv, Server(i) PROVE TypeOK'
    <3>1. ServerOK' /\ c' = c
      BY Zenon, <1>2, <2>3, ServerStepEffect
    <3>2. ClientOK'
      BY Zenon, <1>2, <3>1 DEF ClientOK, ServerOK
    <3>3. QED BY Zenon, <2>1, <3>1, <3>2
  <2>4. CASE UNCHANGED vars
    BY Zenon, <2>4 DEF vars, TypeOK
  <2>5. QED BY Zenon, <2>2, <2>3, <2>4 DEF Next
<1>4. QED
  BY <1>1, <1>3, PTL DEF Spec

-----------------------------------------------------------------------------
(* One put.  The write request q stands for all of them: the client sends  *)
(* no other.                                                               *)

\* (u_short)block tells the blocks of the transfer apart.
NoWrap ==
  /\ c.block <= BlockMod /\ (c.st = "wait" => c.block < BlockMod)
  /\ \A i \in Srv : s[i].block < BlockMod

File == Local[Jobs[1].src]
Size(q) == ServerOptions(q).blksize
Etftp(q) == ServerOptions(q).etftp
Asked(q) == /\ q \in Packets /\ q.op = "WRQ" /\ q.name = Jobs[1].targ
            /\ q.blksize \in BlkSizes \cup {0}

Started(i) == s[i].st \notin {"free", "nak"}
Closing(i) == s[i].st \in {"dally", "done"}

\* The answer tftpd i would repeat, and the final ack once it is sent.
AckMade(i, q) ==
  /\ s[i].st = "wait" =>
       \/ /\ s[i].ap = "ackbuf" /\ s[i].ackbuf = ACK(i, s[i].block - 1)
          /\ s[i].block = 1 => ~Etftp(q)
       \/ /\ s[i].ap = "oackbuf" /\ s[i].block = 1 /\ Etftp(q)
          /\ s[i].ackbuf = ZeroPacket(i)
          /\ s[i].oackbuf = OACK(i, q.blksize, ServerOptions(q).tout)
  /\ Closing(i) =>
       /\ s[i].ackbuf \in net
       /\ \/ s[i].ackbuf = ACK(i, s[i].block)
          \/ s[i].ackbuf = ZeroPacket(i) /\ s[i].block = 1

\* What tftpd i has written: the blocks before the one it waits for, or the
\* whole file.
Stored(i, q) ==
  /\ ~Started(i) => s[i].block = 0
  /\ Started(i) => /\ s[i].block > 0 /\ s[i].blksize = Size(q) /\ s[i].name = q.name
                   /\ Before(Size(q), s[i].block) <= Len(File)
  /\ s[i].st = "wait" =>
       /\ Clean(s[i].buf)
       /\ ~s[i].werr => s[i].out = SubSeq(File, 1, Before(Size(q), s[i].block))
  /\ Closing(i) => /\ Len(File) < Before(Size(q), s[i].block + 1)
                   /\ ~s[i].werr => s[i].out = File

\* What a packet that was sent says: an ack counts a block that its tftpd has
\* received, a data packet is a block the client has reached.
Carries(p, q) ==
  /\ p.op = "WRQ" => p = q
  /\ p.op = "OACK" => Etftp(q) /\ p.blksize = q.blksize /\ Started(p.srv)
  /\ p.op = "ACK" =>
       /\ Started(p.srv)
       /\ \E k \in 0..s[p.srv].block :
            /\ p = ACK(p.srv, k) /\ (k = 0 => ~Etftp(q))
            /\ k = s[p.srv].block => Closing(p.srv)
  /\ p.op = "DATA" =>
       /\ p.srv = c.serv
       /\ \E k \in 1..c.block : p = DATA(p.srv, k, Block(File, Size(q), k))

\* No tftpd is more than one block ahead of the client.
Near(i) == s[i].block <= IF i = c.serv THEN c.block + 1 ELSE 1

\* The client waits for the answer to q or for the ack of a block that its
\* tftpd has not passed by.
Sending(q) ==
  /\ c.block = 0 => c.pkt = q /\ c.buf = r_init /\ c.pos = 0
  /\ c.block > 0 =>
       /\ c.serv \in Srv /\ c.blksize = Size(q) /\ Started(c.serv)
       /\ c.block <= s[c.serv].block
       /\ Before(Size(q), c.block) <= Len(File)
       /\ c.pkt = DATA(c.serv, c.block, Block(File, Size(q), c.block))
       /\ Ahead(c.buf, c.pos, File, Size(q), c.block)

Kept(q) ==
  /\ Asked(q) /\ q \in net
  /\ \A i \in Srv : Stored(i, q) /\ AckMade(i, q) /\ Near(i)
  /\ \A p \in net : Carries(p, q)
  /\ c.st = "wait" => Sending(q)

\* Before the request is sent.
Quiet ==
  /\ c.st # "wait" /\ net = {} /\ \A i \in Srv : s[i] = Fresh
  /\ c.job = 0 => c.blksize \in BlkSizes \cup {SegSize}

Logged ==
  /\ c.job = 0 \/ c.st = "wait" => put = <<>>
  /\ c.job = 1 /\ c.st # "wait" =>
       \E e : /\ put = <<e>> /\ e.job = 1
              /\ e.status = "ok" => e.serv \in Srv /\ Closing(e.serv)

PInv == /\ c.job \in {0, 1} /\ (c.job = 0 => Quiet) /\ Logged
        /\ Quiet \/ \E q \in net : Kept(q)

(* The options of the request.                                             *)
LEMMA OptionFacts ==
  ASSUME NEW q, Asked(q)
  PROVE  /\ Size(q) \in Nat \ {0} /\ (~Etftp(q) => Size(q) = SegSize)
         /\ Size(q) = IF q.blksize = 0 THEN SegSize ELSE q.blksize
         /\ Size(q) \in BlkSizes \cup {SegSize}
         /\ ServerOptions(q).tout \in Nat
<1>1. q.blksize \in Nat /\ q.timeout \in Int
  BY Zenon, PacketParts DEF Asked
<1>2. q.blksize \in BlkSizes \cup {0} /\ SegSize \in Nat \ {0}
  BY Zenon, CommonAssumption DEF Asked
<1>3. /\ Size(q) = IF q.blksize = 0 THEN SegSize ELSE q.blksize
      /\ ServerOptions(q).tout = IF q.timeout \in 1..255 THEN q.timeout ELSE 0
  BY Zenon DEF Size, ServerOptions
<1>4. q.blksize # 0 => Etftp(q)
  BY Zenon DEF Etftp, ServerOptions
<1>5. Size(q) \in Nat \ {0} /\ ServerOptions(q).tout \in Nat
  BY <1>1, <1>2, <1>3
<1>6. Size(q) \in BlkSizes \cup {SegSize}
  BY Zenon, <1>2, <1>3
<1>7. QED
  BY Zenon, <1>3, <1>4, <1>5, <1>6

(* The file and what its blocks are.                                       *)
LEMMA FileFacts ==
  ASSUME Len(Jobs) <= 1
  PROVE  Len(Jobs) = 1 /\ File \in Seq(Byte) /\ Len(File) \in Nat
<1>1. Len(Jobs) = 1
  <2>1. Args \in Seq(STRING) /\ Args # <<>>
    BY Zenon, PutAssumption
  <2>2. Len(Args) \in Nat \ {0}
    BY <2>1
  <2>3. Len(Jobs) # 0
    BY <2>2 DEF Jobs
  <2>4. QED BY <2>3, JobsType
<1>2. File \in Seq(Byte)
  <2>1. 1 \in 1..Len(Jobs)
    BY <1>1
  <2>2. QED BY Zenon, <2>1, JobsType DEF File
<1>3. QED
  BY <1>1, <1>2

(* A step of tftpd i after which its own place, and what it has sent, are  *)
(* in order leaves the rest in order.                                      *)
LEMMA ServerKeeps ==
  ASSUME NEW q, Kept(q), TypeOK, NEW i \in Srv, Others(i), c' = c, net \subseteq net',
         Started(i) => /\ Started(i)' /\ s[i].block <= s'[i].block
                       /\ Closing(i) => Closing(i)',
         s'[i] \in ServerType,
         Stored(i, q)', AckMade(i, q)', Near(i)',
         \A p \in net' : p \in net \/ Carries(p, q)'
  PROVE  Kept(q)'
<1>1. /\ s \in [Srv -> ServerType] /\ net \subseteq Packets /\ c \in ClientType
  BY Zenon DEF TypeOK
<1>2. \A j \in Srv : s[j].block \in Nat
  BY Zenon, <1>1 DEF ServerType
<1>3. s'[i].block \in Nat
  BY Zenon DEF ServerType
<1>4. ASSUME NEW j \in Srv
      PROVE  /\ Stored(j, q)' /\ AckMade(j, q)' /\ Near(j)'
             /\ Started(j) => /\ Started(j)' /\ s[j].block <= s'[j].block
                              /\ Closing(j) => Closing(j)'
  <2>1. CASE j = i
    BY Zenon, <2>1
  <2>2. CASE j # i
    <3>1. s'[j] = s[j]
      BY Zenon, <2>2 DEF Others
    <3>2. s[j].block <= s[j].block
      BY <1>2
    <3>3. Stored(j, q)' /\ Near(j)'
      BY ZenonT(30), <3>1 DEF Kept, Stored, Near, Started, Closing
    <3>4. AckMade(j, q)'
      BY Zenon, <3>1 DEF Kept, AckMade, Closing
    <3>5. QED BY Zenon, <3>1, <3>2, <3>3, <3>4 DEF Started, Closing
  <2>3. QED BY Zenon, <2>1, <2>2
<1>5. ASSUME NEW p \in net
      PROVE  Carries(p, q)'
  <2>1. Carries(p, q) /\ p \in Packets
    BY Zenon, <1>1 DEF Kept
  <2>2. CASE p.op = "ACK"
    <3>1. p.srv \in Srv /\ Started(p.srv)
      BY Zenon, <2>1, <2>2, PacketParts DEF Carries
    <3>2. PICK k \in 0..s[p.srv].block :
            /\ p = ACK(p.srv, k) /\ (k = 0 => ~Etftp(q))
            /\ k = s[p.srv].block => Closing(p.srv)
      BY Zenon, <2>1, <2>2 DEF Carries
    <3>3. s[p.srv].block <= s'[p.srv].block /\ s'[p.srv].block \in Nat
      BY Zenon, <1>2, <1>3, <1>4, <3>1 DEF Others
    <3>4. /\ k \in 0..s'[p.srv].block
          /\ k = s'[p.srv].block => k = s[p.srv].block
      BY SMTT(30), <1>2, <3>1, <3>2, <3>3
    <3>5. Started(p.srv)' /\ (Closing(p.srv) => Closing(p.srv)')
      BY Zenon, <1>4, <3>1
    <3>6. p.op # "WRQ" /\ p.op # "OACK" /\ p.op # "DATA"
      BY Zenon, <2>2
    <3>7. QED BY Zenon, <3>2, <3>4, <3>5, <3>6 DEF Carries
  <2>3. CASE p.op = "OACK"
    <3>1. p.srv \in Srv /\ Started(p.srv)
      BY Zenon, <2>1, <2>3, PacketParts DEF Carries
    <3>2. Started(p.srv)'
      BY Zenon, <1>4, <3>1
    <3>3. p.op # "WRQ" /\ p.op # "ACK" /\ p.op # "DATA"
      BY Zenon, <2>3
    <3>4. QED BY Zenon, <2>1, <2>3, <3>2, <3>3 DEF Carries
  <2>4. CASE p.op \notin {"ACK", "OACK"}
    <3>1. p.op # "ACK" /\ p.op # "OACK"
      BY Zenon, <2>4
    <3>2. QED BY Zenon, <2>1, <3>1 DEF Carries
  <2>5. QED BY Zenon, <2>2, <2>3, <2>4
<1>6. ASSUME c.st = "wait"
      PROVE  Sending(q)'
  <2>1. Sending(q) /\ c.block \in Nat
    BY Zenon, <1>1, <1>6 DEF Kept, ClientType
  <2>2. CASE c.block = 0
    <3>1. ~(c.block > 0)
      BY <2>2
    <3>2. QED BY Zenon, <2>1, <2>2, <3>1 DEF Sending
  <2>3. CASE c.block # 0
    <3>1. c.block > 0
      BY <2>1, <2>3
    <3>2. c.serv \in Srv /\ Started(c.serv) /\ c.block <= s[c.serv].block
      BY Zenon, <2>1, <3>1 DEF Sending
    <3>3. Started(c.serv)' /\ s[c.serv].block <= s'[c.serv].block
      BY Zenon, <1>4, <3>2 DEF Started
    <3>4. s'[c.serv].block \in Nat
      BY Zenon, <1>2, <1>3, <3>2 DEF Others
    <3>5. c.block <= s'[c.serv].block
      BY SMTT(30), <1>2, <2>1, <3>2, <3>3, <3>4
    <3>6. QED BY Zenon, <2>1, <2>3, <3>1, <3>3, <3>5 DEF Sending, Started
  <2>4. QED BY Zenon, <2>2, <2>3
<1>7. QED
  BY Zenon, <1>4, <1>5, <1>6 DEF Kept

(* What the packets a tftpd sends say.                                     *)
LEMMA SentCarries ==
  ASSUME NEW q, NEW i \in Srv, Started(i)'
  PROVE  /\ \A k \in 0..s'[i].block :
              (k = 0 => ~Etftp(q)) /\ (k = s'[i].block => Closing(i)')
                => Carries(ACK(i, k), q)'
         /\ \A t : Etftp(q) => Carries(OACK(i, q.blksize, t), q)'
         /\ Carries(ZeroPacket(i), q)'
<1>1. ASSUME NEW k \in 0..s'[i].block, k = 0 => ~Etftp(q),
             k = s'[i].block => Closing(i)'
      PROVE  Carries(ACK(i, k), q)'
  <2> DEFINE p == ACK(i, k)
  <2>1. p.op = "ACK" /\ p.srv = i
    BY Zenon DEF ACK
  <2> HIDE DEF p
  <2>2. p.op # "WRQ" /\ p.op # "OACK" /\ p.op # "DATA"
    BY Zenon, <2>1
  <2>3. p = ACK(p.srv, k)
    BY Zenon, <2>1 DEF p
  <2>4. QED BY Zenon, <1>1, <2>1, <2>2, <2>3 DEF Carries, p
<1>2. ASSUME NEW t, Etftp(q)
      PROVE  Carries(OACK(i, q.blksize, t), q)'
  <2> DEFINE p == OACK(i, q.blksize, t)
  <2>1. p.op = "OACK" /\ p.srv = i /\ p.blksize = q.blksize
    BY Zenon DEF OACK
  <2> HIDE DEF p
  <2>2. p.op # "WRQ" /\ p.op # "ACK" /\ p.op # "DATA"
    BY Zenon, <2>1
  <2>3. QED BY Zenon, <1>2, <2>1, <2>2 DEF Carries, p
<1>3. Carries(ZeroPacket(i), q)'
  <2> DEFINE p == ZeroPacket(i)
  <2>1. p.op = "ZERO"
    BY Zenon DEF ZeroPacket
  <2> HIDE DEF p
  <2>2. p.op # "WRQ" /\ p.op # "OACK" /\ p.op # "ACK" /\ p.op # "DATA"
    BY Zenon, <2>1
  <2>3. QED BY Zenon, <2>2 DEF Carries, p
<1>4. QED
  BY Zenon, <1>1, <1>2, <1>3

(* A request that is refused.                                              *)
LEMMA RefusesKeeps ==
  ASSUME NEW q, Kept(q), TypeOK, NEW i \in Srv, Others(i), c' = c,
         s'[i] \in ServerType, Refuses(i)
  PROVE  Kept(q)'
<1> DEFINE e == ERROR(i)
<1>1. /\ s[i].st = "free" /\ s'[i].st = "nak" /\ s'[i].block = s[i].block
      /\ net' = net \cup {e}
  BY Zenon DEF Refuses
<1>2. /\ ~Started(i) /\ ~Started(i)' /\ ~Closing(i)' /\ s'[i].st # "wait"
  BY Zenon, <1>1 DEF Started, Closing
<1>3. s'[i].block = 0
  BY Zenon, <1>1, <1>2 DEF Kept, Stored
<1>4. Stored(i, q)' /\ AckMade(i, q)'
  BY Zenon, <1>2, <1>3 DEF Stored, AckMade
<1>5. Near(i)'
  BY <1>3 DEF Near, TypeOK, ClientType
<1>6. e.op = "ERROR"
  BY Zenon DEF ERROR
<1> HIDE DEF e
<1>7. Carries(e, q)'
  <2>1. e.op # "WRQ" /\ e.op # "OACK" /\ e.op # "ACK" /\ e.op # "DATA"
    BY Zenon, <1>6
  <2>2. QED BY Zenon, <2>1 DEF Carries
<1>8. net \subseteq net' /\ \A p \in net' : p \in net \/ Carries(p, q)'
  BY Zenon, <1>1, <1>7
<1>9. QED
  BY Zenon, <1>2, <1>4, <1>5, <1>8, ServerKeeps

(* A request that starts a tftpd.                                          *)
LEMMA StartsKeeps ==
  ASSUME Len(Jobs) <= 1, NEW q, Kept(q), TypeOK, NEW i \in Srv, Others(i), c' = c,
         s'[i] \in ServerType, NEW p \in net, Starts(i, p)
  PROVE  Kept(q)'
<1>1. p = q
  BY Zenon DEF Kept, Carries, Starts
<1>2. /\ s[i].st = "free" /\ Accepted(i, q) /\ p.op = "WRQ"
      /\ \/ s'[i].st = "abort" /\ net' = net
         \/ s'[i].st = "wait" /\ net' = net \cup {s'[i][s'[i].ap]}
  BY Zenon, <1>1 DEF Starts
<1>3. /\ ~Started(i) /\ Started(i)' /\ ~Closing(i)'
  BY Zenon, <1>2 DEF Started, Closing
<1>4. /\ s'[i].name = q.name /\ s'[i].block = 1 /\ s'[i].blksize = Size(q)
      /\ Clean(s'[i].buf) /\ s'[i].out = <<>>
      /\ Etftp(q) => /\ s'[i].ap = "oackbuf" /\ s'[i].ackbuf = ZeroPacket(i)
                     /\ s'[i].oackbuf = OACK(i, q.blksize, ServerOptions(q).tout)
      /\ ~Etftp(q) => s'[i].ap = "ackbuf" /\ s'[i].ackbuf = ACK(i, 0)
  BY Zenon, <1>2 DEF Accepted, Size, Etftp
<1>5. Size(q) \in Nat /\ File \in Seq(Byte) /\ Len(File) \in Nat /\ c.block \in Nat
  <2>1. Asked(q) /\ c \in ClientType
    BY Zenon DEF Kept, TypeOK
  <2>2. Size(q) \in Nat
    BY Zenon, <2>1, OptionFacts
  <2>3. c.block \in Nat
    BY Zenon, <2>1 DEF ClientType
  <2>4. QED BY Zenon, <2>2, <2>3, FileFacts
<1>6. Before(Size(q), 1) = 0 /\ SubSeq(File, 1, 0) = <<>>
  <2>1. Before(Size(q), 1) = 0
    BY Zenon, <1>5, BeforeNext
  <2>2. SubSeq(File, 1, 0) = <<>>
    BY EmptyPart
  <2>3. QED BY Zenon, <2>1, <2>2
<1>7. 1 > 0 /\ 0 <= Len(File) /\ 1 - 1 = 0 /\ 0 \in 0..1 /\ 0 # 1
  BY <1>5
<1>8. Stored(i, q)'
  BY Zenon, <1>3, <1>4, <1>6, <1>7 DEF Stored
<1>9. AckMade(i, q)'
  BY Zenon, <1>3, <1>4, <1>7 DEF AckMade
<1>10. Near(i)'
  BY <1>4, <1>5 DEF Near
<1>11. ASSUME NEW x, x = s'[i][s'[i].ap]
       PROVE  Carries(x, q)'
  <2>1. CASE Etftp(q)
    <3>1. x = OACK(i, q.blksize, ServerOptions(q).tout)
      BY Zenon, <1>4, <1>11, <2>1, PointedPacket
    <3>2. QED BY Zenon, <1>3, <2>1, <3>1, SentCarries
  <2>2. CASE ~Etftp(q)
    <3>1. x = ACK(i, 0)
      BY Zenon, <1>4, <1>11, <2>2, PointedPacket
    <3>2. 0 \in 0..s'[i].block /\ 0 # s'[i].block
      BY Zenon, <1>4, <1>7
    <3>3. QED BY Zenon, <1>3, <2>2, <3>1, <3>2, SentCarries
  <2>3. QED BY Zenon, <2>1, <2>2
<1>12. net \subseteq net' /\ \A x \in net' : x \in net \/ Carries(x, q)'
  BY Zenon, <1>2, <1>11
<1>13. QED
  BY Zenon, <1>3, <1>8, <1>9, <1>10, <1>12, ServerKeeps

(* A tftpd that gives up keeps its place.                                  *)
LEMMA StopsKeeps ==
  ASSUME NEW q, Kept(q), TypeOK, NEW i \in Srv, Others(i), c' = c,
         s'[i] \in ServerType, Stops(i)
  PROVE  Kept(q)'
<1>1. /\ s[i].st = "wait" /\ s'[i].st \in {"abort", "timeout"} /\ net' = net
      /\ s'[i].name = s[i].name /\ s'[i].block = s[i].block
      /\ s'[i].blksize = s[i].blksize
  BY Zenon DEF Stops, SamePlace
<1>2. /\ Started(i) /\ ~Closing(i) /\ Started(i)' /\ ~Closing(i)' /\ s'[i].st # "wait"
  BY Zenon, <1>1 DEF Started, Closing
<1>3. Stored(i, q) /\ Near(i)
  BY Zenon DEF Kept
<1>4. Stored(i, q)' /\ AckMade(i, q)' /\ Near(i)'
  BY Zenon, <1>1, <1>2, <1>3 DEF Stored, AckMade, Near
<1>5. s[i].block <= s'[i].block
  BY <1>1 DEF ServerType
<1>6. QED
  BY Zenon, <1>1, <1>2, <1>4, <1>5, ServerKeeps

(* The ack sent again says what it said.                                   *)
LEMMA RepeatsKeeps ==
  ASSUME NEW q, Kept(q), TypeOK, NEW i \in Srv, Others(i), c' = c,
         s'[i] \in ServerType, Repeats(i)
  PROVE  Kept(q)'
<1>1. /\ s[i].st = "wait" /\ s'[i].st = "wait" /\ net' = net \cup {s[i][s[i].ap]}
      /\ s'[i].name = s[i].name /\ s'[i].block = s[i].block
      /\ s'[i].blksize = s[i].blksize /\ s'[i].ap = s[i].ap
      /\ s'[i].ackbuf = s[i].ackbuf /\ s'[i].oackbuf = s[i].oackbuf
  BY Zenon DEF Repeats, SamePlace
<1>2. /\ Started(i) /\ ~Closing(i) /\ Started(i)' /\ ~Closing(i)'
  BY Zenon, <1>1 DEF Started, Closing
<1>3. Stored(i, q) /\ AckMade(i, q) /\ Near(i) /\ s[i] \in ServerType
  BY Zenon DEF Kept, TypeOK
<1>4. Clean(s'[i].buf) /\ s'[i].out = s[i].out /\ (s[i].werr => s'[i].werr)
  BY Zenon, <1>1, <1>3 DEF Repeats, Flushes, Stored
<1>5. Stored(i, q)' /\ Near(i)'
  BY Zenon, <1>1, <1>2, <1>3, <1>4 DEF Stored, Near
<1>6. AckMade(i, q)'
  BY ZenonT(30), <1>1, <1>2, <1>3 DEF AckMade
<1>7. s[i].block <= s'[i].block /\ s[i].block \in Nat /\ s[i].block > 0
  BY <1>1, <1>2, <1>3 DEF ServerType, Stored
<1>8. ASSUME NEW x, x = s[i][s[i].ap]
      PROVE  Carries(x, q)'
  <2>1. CASE /\ s[i].ap = "ackbuf" /\ s[i].ackbuf = ACK(i, s[i].block - 1)
             /\ s[i].block = 1 => ~Etftp(q)
    <3> DEFINE k == s[i].block - 1
    <3>1. x = ACK(i, k)
      BY Zenon, <1>3, <1>8, <2>1, PointedPacket
    <3>2. k \in 0..s'[i].block /\ k # s'[i].block /\ (k = 0 => s[i].block = 1)
      BY <1>1, <1>7
    <3> HIDE DEF k
    <3>3. QED BY Zenon, <1>2, <2>1, <3>1, <3>2, SentCarries
  <2>2. CASE /\ s[i].ap = "oackbuf" /\ Etftp(q)
             /\ s[i].oackbuf = OACK(i, q.blksize, ServerOptions(q).tout)
    <3>1. x = OACK(i, q.blksize, ServerOptions(q).tout)
      BY Zenon, <1>3, <1>8, <2>2, PointedPacket
    <3>2. QED BY Zenon, <1>2, <2>2, <3>1, SentCarries
  <2>3. QED BY Zenon, <1>1, <1>3, <2>1, <2>2 DEF AckMade
<1>9. net \subseteq net' /\ \A x \in net' : x \in net \/ Carries(x, q)'
  BY Zenon, <1>1, <1>8
<1>10. QED
  BY Zenon, <1>2, <1>5, <1>6, <1>7, <1>9, ServerKeeps

(* The final ack has been sent, so nothing new is said by sending it again *)
(* or by leaving.                                                          *)
LEMMA LeavesKeeps ==
  ASSUME NEW q, Kept(q), TypeOK, NEW i \in Srv, Others(i), c' = c,
         s'[i] \in ServerType, Leaves(i)
  PROVE  Kept(q)'
<1>1. /\ s[i].st = "dally" /\ s'[i].st = "done"
      /\ s'[i].name = s[i].name /\ s'[i].block = s[i].block
      /\ s'[i].blksize = s[i].blksize /\ s'[i].ackbuf = s[i].ackbuf
      /\ s'[i].out = s[i].out /\ s'[i].werr = s[i].werr
      /\ net' \in {net, net \cup {s[i].ackbuf}}
  BY Zenon DEF Leaves, SamePlace
<1>2. /\ Started(i) /\ Closing(i) /\ Started(i)' /\ Closing(i)' /\ s'[i].st # "wait"
  BY Zenon, <1>1 DEF Started, Closing
<1>3. Stored(i, q) /\ AckMade(i, q) /\ Near(i)
  BY Zenon DEF Kept
<1>4. net' = net
  BY Zenon, <1>1, <1>2, <1>3 DEF AckMade
<1>5. Stored(i, q)' /\ Near(i)'
  BY Zenon, <1>1, <1>2, <1>3 DEF Stored, Near
<1>6. AckMade(i, q)'
  BY Zenon, <1>1, <1>2, <1>3, <1>4 DEF AckMade
<1>7. s[i].block <= s'[i].block
  BY <1>1 DEF ServerType
<1>8. QED
  BY Zenon, <1>2, <1>4, <1>5, <1>6, <1>7, ServerKeeps

(* The data packet a tftpd takes is the block it waits for, whole, and its *)
(* client has reached that block.                                          *)
LEMMA ArrivesBlock ==
  ASSUME Len(Jobs) <= 1, NEW q, Kept(q), TypeOK, NoWrap, NEW i \in Srv,
         NEW p \in net, Arrives(i, p)
  PROVE  /\ Started(i) /\ i = c.serv /\ s[i].block \in Nat \ {0}
         /\ s[i].block <= c.block /\ s[i].blksize = Size(q)
         /\ Clip(i, p) = Block(File, Size(q), s[i].block)
         /\ Leads(File, Size(q), s[i].block)
<1>1. s[i].st = "wait" /\ p.op = "DATA" /\ p.srv = i /\ p.block = Wire(s[i].block)
  BY Zenon DEF Arrives, NextBlock
<1>2. Started(i)
  BY Zenon, <1>1 DEF Started
<1>3. Stored(i, q) /\ Carries(p, q) /\ Asked(q)
  BY Zenon DEF Kept
<1>4. /\ s[i].block > 0 /\ s[i].blksize = Size(q)
      /\ Before(Size(q), s[i].block) <= Len(File)
  BY Zenon, <1>2, <1>3 DEF Stored
<1>5. s[i].block \in Nat /\ c.block \in Nat
  BY Zenon DEF TypeOK, ServerType, ClientType
<1>6. PICK k \in 1..c.block : p = DATA(p.srv, k, Block(File, Size(q), k))
  BY Zenon, <1>1, <1>3 DEF Carries
<1>7. p.block = Wire(k) /\ p.data = Block(File, Size(q), k)
  <2> DEFINE b == Block(File, Size(q), k)
             x == DATA(i, k, b)
  <2>1. x.block = Wire(k) /\ x.data = b
    BY Zenon DEF DATA
  <2> HIDE DEF x
  <2>2. p = x
    BY Zenon, <1>1, <1>6 DEF x
  <2>3. QED BY Zenon, <2>1, <2>2
<1>8. i = c.serv
  BY Zenon, <1>1, <1>3 DEF Carries
<1>9. k = s[i].block
  <2>1. /\ BlockMod \in Nat \ {0} /\ c.block <= BlockMod /\ s[i].block < BlockMod
        /\ k % BlockMod = s[i].block % BlockMod
    BY Zenon, <1>1, <1>7, CommonAssumption DEF NoWrap, Wire
  <2>2. CASE k < BlockMod
    BY SMTT(30), <1>4, <1>5, <1>6, <2>1, <2>2
  <2>3. CASE k = BlockMod
    <3>1. k % BlockMod = 0 /\ s[i].block % BlockMod = s[i].block
      BY <1>5, <2>1, <2>3
    <3>2. QED BY <1>4, <2>1, <3>1
  <2>4. QED BY SMTT(30), <1>5, <1>6, <2>1, <2>2, <2>3
<1>10. Size(q) \in Nat /\ File \in Seq(Byte)
  BY Zenon, <1>3, OptionFacts, FileFacts
<1>11. s[i].block \in Nat \ {0} /\ s[i].block <= c.block
  BY <1>4, <1>5, <1>6, <1>9
<1> DEFINE d == Block(File, Size(q), s[i].block)
<1>12. d \in Seq(Byte) /\ Len(d) \in 0..Size(q)
  BY Zenon, <1>10, <1>11, BlockProperties
<1>13. Leads(File, Size(q), s[i].block)
  BY Zenon, <1>4, <1>10, <1>11, BlockLeads
<1>14. p.data = d
  BY Zenon, <1>7, <1>9
<1> HIDE DEF d
<1>15. Clip(i, p) = d
  <2>1. (IF s[i].blksize < Len(p.data) THEN s[i].blksize ELSE Len(p.data)) = Len(d)
    BY <1>4, <1>10, <1>12, <1>14
  <2>2. SubSeq(d, 1, Len(d)) = d
    BY Zenon, <1>12, WholeSeq
  <2>3. QED BY Zenon, <1>14, <2>1, <2>2 DEF Clip
<1>16. QED
  BY Zenon, <1>2, <1>4, <1>8, <1>11, <1>13, <1>15 DEF d

(* A full block taken: the tftpd has one block more of the file, and has   *)
(* acknowledged it.                                                        *)
LEMMA TakesKeeps ==
  ASSUME Len(Jobs) <= 1, NEW q, Kept(q), TypeOK, NoWrap, NEW i \in Srv, Others(i),
         c' = c, s'[i] \in ServerType, NEW p \in net, Takes(i, p)
  PROVE  Kept(q)'
<1> DEFINE k == s[i].block
           d == Block(File, Size(q), k)
<1>1. /\ Started(i) /\ i = c.serv /\ k \in Nat \ {0} /\ k <= c.block
      /\ s[i].blksize = Size(q) /\ Clip(i, p) = d /\ Leads(File, Size(q), k)
  BY Zenon, ArrivesBlock DEF Takes
<1>2. /\ s[i].st = "wait" /\ s'[i].name = s[i].name /\ s'[i].blksize = s[i].blksize
      /\ s'[i].block = k + 1 /\ s'[i].ap = "ackbuf" /\ s'[i].ackbuf = ACK(i, k)
      /\ Len(d) = Size(q)
      /\ \/ s'[i].st = "abort" /\ net' = net
         \/ /\ s'[i].st = "wait" /\ net' = net \cup {ACK(i, k)}
            /\ Wrote(i, d)
  BY Zenon, <1>1 DEF Takes, Arrives
<1>3. /\ ~Closing(i) /\ Started(i)' /\ ~Closing(i)'
  BY Zenon, <1>2 DEF Started, Closing
<1>4. Stored(i, q) /\ Asked(q) /\ c.block \in Nat
  BY Zenon DEF Kept, TypeOK, ClientType
<1>5. /\ Before(Size(q), k + 1) <= Len(File)
      /\ SubSeq(File, 1, Before(Size(q), k)) \o d = SubSeq(File, 1, Before(Size(q), k + 1))
  BY Zenon, <1>1, <1>2 DEF Leads
<1>6. /\ s[i].name = q.name /\ Clean(s[i].buf)
      /\ ~s[i].werr => s[i].out = SubSeq(File, 1, Before(Size(q), k))
  BY ZenonT(30), <1>1, <1>2, <1>4 DEF Stored
<1>7. /\ k + 1 > 0 /\ (k + 1) - 1 = k /\ k + 1 # 1 /\ k <= k + 1
      /\ k \in 0..(k + 1) /\ k # k + 1 /\ k # 0 /\ k + 1 <= c.block + 1
  BY SMTT(30), <1>1, <1>4
<1>8. Near(i)'
  BY Zenon, <1>1, <1>2, <1>7 DEF Near
<1>9. AckMade(i, q)'
  BY Zenon, <1>2, <1>3, <1>7 DEF AckMade
<1> HIDE DEF d
<1>10. Stored(i, q)'
  <2>1. s'[i].st = "wait" =>
          /\ Clean(s'[i].buf)
          /\ ~s'[i].werr => s'[i].out = SubSeq(File, 1, Before(Size(q), k + 1))
    <3>1. CASE s'[i].st = "wait"
      <4>1. Wrote(i, d)
        BY Zenon, <1>2, <3>1
      <4>2. QED BY Zenon, <1>5, <1>6, <4>1 DEF Wrote
    <3>2. QED BY Zenon, <3>1
  <2>2. QED BY ZenonT(30), <1>1, <1>2, <1>3, <1>5, <1>6, <1>7, <2>1 DEF Stored
<1>11. ASSUME NEW x, x = ACK(i, k)
       PROVE  Carries(x, q)'
  <2>1. k \in 0..s'[i].block /\ k # s'[i].block
    BY Zenon, <1>2, <1>7
  <2> HIDE DEF k
  <2>2. ASSUME NEW n, n = k PROVE Carries(ACK(i, n), q)'
    BY Zenon, <1>3, <1>7, <2>1, <2>2, SentCarries
  <2>3. QED BY Zenon, <1>11, <2>2
<1>12. net \subseteq net' /\ \A x \in net' : x \in net \/ Carries(x, q)'
  BY Zenon, <1>2, <1>11
<1>13. s[i].block <= s'[i].block
  BY Zenon, <1>2, <1>7
<1>14. QED
  BY ZenonT(30), <1>3, <1>8, <1>9, <1>10, <1>12, <1>13, ServerKeeps

(* A short block taken: the tftpd has the whole file, and ackbuf, the ack  *)
(* of that block unless nothing was stored in it before, is sent.          *)
LEMMA LastsKeeps ==
  ASSUME Len(Jobs) <= 1, NEW q, Kept(q), TypeOK, NoWrap, NEW i \in Srv, Others(i),
         c' = c, s'[i] \in ServerType, NEW p \in net, Lasts(i, p)
  PROVE  Kept(q)'
<1> DEFINE k == s[i].block
           d == Block(File, Size(q), k)
<1>1. /\ Started(i) /\ i = c.serv /\ k \in Nat \ {0} /\ k <= c.block
      /\ s[i].blksize = Size(q) /\ Clip(i, p) = d /\ Leads(File, Size(q), k)
  BY Zenon, ArrivesBlock DEF Lasts
<1>2. /\ s[i].st = "wait" /\ s'[i].name = s[i].name /\ s'[i].blksize = s[i].blksize
      /\ s'[i].block = k /\ s'[i].st = "dally" /\ Len(d) # Size(q)
      /\ s'[i].ackbuf = IF s[i].ap = "ackbuf" THEN ACK(i, k) ELSE s[i].ackbuf
      /\ net' = net \cup {s'[i].ackbuf} /\ Wrote(i, d)
  BY Zenon, <1>1 DEF Lasts, Arrives
<1>3. /\ ~Closing(i) /\ Started(i)' /\ Closing(i)' /\ s'[i].st # "wait"
  BY Zenon, <1>2 DEF Started, Closing
<1>4. Stored(i, q) /\ AckMade(i, q) /\ Near(i)
  BY Zenon DEF Kept
<1>5. /\ Len(File) < Before(Size(q), k + 1)
      /\ SubSeq(File, 1, Before(Size(q), k)) \o d = File
  BY Zenon, <1>1, <1>2 DEF Leads
<1>6. /\ s[i].name = q.name /\ Clean(s[i].buf) /\ k > 0
      /\ Before(Size(q), k) <= Len(File)
      /\ ~s[i].werr => s[i].out = SubSeq(File, 1, Before(Size(q), k))
  BY Zenon, <1>1, <1>2, <1>4 DEF Stored
<1>7. \/ s'[i].ackbuf = ACK(i, k)
      \/ s'[i].ackbuf = ZeroPacket(i) /\ k = 1
  BY Zenon, <1>2, <1>4 DEF AckMade
<1>8. AckMade(i, q)'
  <2>1. s'[i].ackbuf \in net'
    BY Zenon, <1>2
  <2>2. QED BY Zenon, <1>2, <1>3, <1>7, <2>1 DEF AckMade
<1>9. Near(i)'
  BY Zenon, <1>2, <1>4 DEF Near
<1> HIDE DEF d
<1>10. Stored(i, q)'
  <2>1. ~s'[i].werr => s'[i].out = File
    BY Zenon, <1>2, <1>5, <1>6 DEF Wrote
  <2>2. QED BY Zenon, <1>1, <1>2, <1>3, <1>5, <1>6, <2>1 DEF Stored
<1>11. ASSUME NEW x, x = s'[i].ackbuf
       PROVE  Carries(x, q)'
  <2>1. k \in 0..s'[i].block /\ k # 0
    BY <1>1, <1>2
  <2> HIDE DEF k
  <2>2. ASSUME NEW n, n = k PROVE Carries(ACK(i, n), q)'
    BY Zenon, <1>3, <2>1, <2>2, SentCarries
  <2>3. Carries(ZeroPacket(i), q)'
    BY Zenon, <1>3, SentCarries
  <2>4. QED BY ZenonT(30), <1>7, <1>11, <2>2, <2>3
<1>12. net \subseteq net' /\ \A x \in net' : x \in net \/ Carries(x, q)'
  BY Zenon, <1>2, <1>11
<1>13. s[i].block <= s'[i].block
  BY <1>1, <1>2
<1>14. QED
  BY Zenon, <1>3, <1>8, <1>9, <1>10, <1>12, <1>13, ServerKeeps

(* No step of a tftpd breaks the invariant.                                *)
LEMMA ServerStepKeeps ==
  ASSUME Len(Jobs) <= 1, NEW q, Kept(q), TypeOK, NoWrap, NEW i \in Srv,
         ServerEffect(i), ServerOK', c' = c
  PROVE  Kept(q)'
<1>1. s'[i] \in ServerType /\ Others(i)
  BY Zenon DEF ServerOK, ServerEffect
<1>2. CASE Refuses(i)
  BY Zenon, <1>1, <1>2, RefusesKeeps
<1>3. CASE Stops(i)
  BY ZenonT(30), <1>1, <1>3, StopsKeeps
<1>4. CASE Repeats(i)
  BY Zenon, <1>1, <1>4, RepeatsKeeps
<1>5. CASE Leaves(i)
  BY Zenon, <1>1, <1>5, LeavesKeeps
<1>6. ASSUME NEW p \in net, Starts(i, p) \/ Takes(i, p) \/ Lasts(i, p)
      PROVE  Kept(q)'
  BY Zenon, <1>1, <1>6, StartsKeeps, TakesKeeps, LastsKeeps
<1>7. QED
  BY Zenon, <1>2, <1>3, <1>4, <1>5, <1>6 DEF ServerEffect

(* A step of the client after which it waits for the right thing, and what *)
(* it has sent is in order, leaves the rest in order.                      *)
LEMMA ClientKeeps ==
  ASSUME NEW q, Kept(q), TypeOK, c' \in ClientType, s' = s, Peer,
         c'.block \in {c.block, c.block + 1}, net \subseteq net',
         \A p \in net' : p \in net \/ Carries(p, q)',
         c'.st = "wait" => Sending(q)'
  PROVE  Kept(q)'
<1>1. /\ c \in ClientType /\ net \subseteq Packets /\ NoSrv \notin Srv
      /\ c.block \in Nat /\ \A i \in Srv : s[i].block \in Nat
  BY Zenon, CommonAssumption DEF TypeOK, ClientType, ServerType
<1>2. ASSUME NEW i \in Srv
      PROVE  Stored(i, q)' /\ AckMade(i, q)' /\ Near(i)'
  <2>1. Stored(i, q) /\ AckMade(i, q) /\ Near(i)
    BY Zenon DEF Kept
  <2>2. Stored(i, q)'
    BY Zenon, <2>1 DEF Stored, Started, Closing
  <2>3. AckMade(i, q)'
    BY Zenon, <2>1 DEF AckMade, Closing
  <2>4. Near(i)'
    <3>1. c.serv = NoSrv \/ c.serv = c'.serv
      BY Zenon DEF Peer
    <3>2. QED BY <1>1, <2>1, <3>1 DEF Near
  <2>5. QED BY Zenon, <2>2, <2>3, <2>4
<1>3. ASSUME NEW p \in net
      PROVE  Carries(p, q)'
  <2>1. Carries(p, q) /\ p \in Packets
    BY Zenon, <1>1 DEF Kept
  <2>2. CASE p.op = "DATA"
    <3>1. p.srv \in Srv /\ p.srv = c.serv
      BY Zenon, <2>1, <2>2, PacketParts DEF Carries
    <3>2. p.srv = c'.serv
      BY Zenon, <1>1, <3>1 DEF Peer
    <3>3. PICK k \in 1..c.block : p = DATA(p.srv, k, Block(File, Size(q), k))
      BY Zenon, <2>1, <2>2 DEF Carries
    <3>4. k \in 1..c'.block
      BY <1>1, <3>3
    <3>5. p.op # "WRQ" /\ p.op # "OACK" /\ p.op # "ACK"
      BY Zenon, <2>2
    <3>6. QED BY Zenon, <3>2, <3>3, <3>4, <3>5 DEF Carries
  <2>3. CASE p.op # "DATA"
    BY Zenon, <2>1, <2>3 DEF Carries, Started, Closing
  <2>4. QED BY Zenon, <2>2, <2>3
<1>4. QED
  BY Zenon, <1>2, <1>3 DEF Kept

(* The client of a put under way is in the middle of its file.             *)
LEMMA SendingReads ==
  ASSUME NEW q, Sending(q), c.job = 1, c.block \in Nat
  PROVE  Reading(c) /\ Source(c) = File
<1>1. Source(c) = File
  BY Zenon DEF Source, File
<1>2. c.block > 0 => Ahead(c.buf, c.pos, Source(c), c.blksize, c.block)
  BY Zenon, <1>1 DEF Sending
<1>3. QED
  BY Zenon, <1>1, <1>2 DEF Sending, Reading

(* What the data packets of the client say.                                *)
LEMMA BlockCarries ==
  ASSUME NEW q, NEW k \in 1..c'.block, NEW x,
         x = DATA(c'.serv, k, Block(File, Size(q), k))
  PROVE  Carries(x, q)'
<1> DEFINE i == c'.serv
           d == Block(File, Size(q), k)
           y == DATA(i, k, d)
<1>1. y.op = "DATA" /\ y.srv = i
  BY Zenon DEF DATA
<1> HIDE DEF y
<1>2. x = y
  BY Zenon DEF y
<1>3. x.op = "DATA" /\ x.srv = i
  BY Zenon, <1>1, <1>2
<1>4. x.op # "WRQ" /\ x.op # "OACK" /\ x.op # "ACK"
  BY Zenon, <1>3
<1>5. x = DATA(x.srv, k, d)
  BY Zenon, <1>3
<1>6. QED
  BY Zenon, <1>3, <1>4, <1>5 DEF Carries

(* The put ends, or the client sends the same packet again.                *)
LEMMA SameKeeps ==
  ASSUME NEW q, Kept(q), TypeOK, c' \in ClientType, s' = s, c.job = 1,
         GivesUp \/ Again
  PROVE  Kept(q)'
<1>1. CASE GivesUp
  <2> DEFINE n == ClientNak(c'.serv)
  <2>1. /\ c'.block \in {c.block, c.block + 1} /\ Peer /\ c'.st = "idle"
        /\ net' \in {net, net \cup {n}}
    BY Zenon, <1>1 DEF GivesUp, Ends
  <2>2. n.op = "CNAK"
    BY Zenon DEF ClientNak
  <2> HIDE DEF n
  <2>3. ASSUME NEW x, x = n PROVE Carries(x, q)'
    <3>1. x.op # "WRQ" /\ x.op # "OACK" /\ x.op # "ACK" /\ x.op # "DATA"
      BY Zenon, <2>2, <2>3
    <3>2. QED BY Zenon, <3>1 DEF Carries
  <2>4. net \subseteq net' /\ \A x \in net' : x \in net \/ x = n
    BY Zenon, <2>1
  <2>5. c'.st # "wait"
    BY Zenon, <2>1
  <2>6. QED BY Zenon, <2>1, <2>3, <2>4, <2>5, ClientKeeps
<1>2. CASE Again
  <2>1. /\ c.st = "wait" /\ c'.st = "wait" /\ c'.job = c.job /\ c'.block = c.block /\ Peer
        /\ c'.blksize = c.blksize /\ c'.pkt = c.pkt
        /\ net' \in {net, net \cup {c.pkt}} /\ (Reading(c) => Reading(c'))
    BY Zenon, <1>2 DEF Again
  <2>2. Sending(q) /\ c.block \in Nat /\ q \in net /\ NoSrv \notin Srv
    BY Zenon, <2>1, CommonAssumption DEF Kept, TypeOK, ClientType
  <2>3. Reading(c) /\ Source(c) = File
    BY Zenon, <2>2, SendingReads
  <2>4. Source(c') = File
    BY Zenon, <2>1 DEF Source, File
  <2>5. CASE c.block = 0
    <3>1. ~(c.block > 0)
      BY <2>5
    <3>2. c.pkt = q
      BY Zenon, <2>2, <2>5 DEF Sending
    <3>3. net' = net
      BY Zenon, <2>1, <2>2, <3>2
    <3>4. c'.buf = r_init /\ c'.pos = 0
      BY Zenon, <2>1, <2>3, <2>5 DEF Reading
    <3>5. Sending(q)'
      BY Zenon, <2>1, <2>5, <3>1, <3>2, <3>4 DEF Sending
    <3>6. QED BY Zenon, <2>1, <3>3, <3>5, ClientKeeps
  <2>6. CASE c.block # 0
    <3> DEFINE d == Block(File, Size(q), c.block)
    <3>1. c.block > 0
      BY <2>2, <2>6
    <3>2. /\ c.serv \in Srv /\ c.blksize = Size(q) /\ Started(c.serv)
          /\ c.block <= s[c.serv].block /\ Before(Size(q), c.block) <= Len(File)
          /\ c.pkt = DATA(c.serv, c.block, d)
      BY Zenon, <2>2, <3>1 DEF Sending
    <3>3. c'.serv = c.serv
      BY Zenon, <2>1, <2>2, <3>2 DEF Peer
    <3>4. Ahead(c'.buf, c'.pos, File, Size(q), c.block)
      BY Zenon, <2>1, <2>3, <2>4, <3>1, <3>2 DEF Reading
    <3>5. Sending(q)'
      BY Zenon, <2>1, <2>6, <3>2, <3>3, <3>4 DEF Sending, Started
    <3>6. ASSUME NEW x, x = c.pkt PROVE Carries(x, q)'
      <4>1. c.block \in 1..c'.block
        BY <2>1, <2>2, <3>1
      <4>2. x = DATA(c'.serv, c.block, d)
        BY Zenon, <3>2, <3>3, <3>6
      <4>3. QED BY Zenon, <4>1, <4>2, BlockCarries
    <3>7. net \subseteq net' /\ \A x \in net' : x \in net \/ x = c.pkt
      BY Zenon, <2>1
    <3>8. QED BY Zenon, <2>1, <3>5, <3>6, <3>7, ClientKeeps
  <2>7. QED BY Zenon, <2>5, <2>6
<1>3. QED
  BY Zenon, <1>1, <1>2

(* The answer the client waits for comes from a tftpd that has received    *)
(* the block sent, or that was started by the request and cuts the file as *)
(* the client will.                                                        *)
LEMMA AnswerFacts ==
  ASSUME Len(Jobs) <= 1, NEW q, Kept(q), TypeOK, NoWrap, c.job = 1,
         NEW p \in net, Answers(p)
  PROVE  /\ p.srv \in Srv /\ Started(p.srv) /\ Peer /\ Settled(p) = Size(q)
         /\ s[p.srv].block \in Nat \ {0}
         /\ c.block # 0 => /\ c.block <= s[p.srv].block
                           /\ c.block = s[p.srv].block => Closing(p.srv)
<1>1. /\ c.st = "wait" /\ c.serv \in {NoSrv, p.srv} /\ c'.serv = p.srv
      /\ (p.op = "ACK" /\ AckOfBlock(p)) \/ (p.op = "OACK" /\ c.block = 0)
  BY Zenon DEF Answers, FromServer
<1>2. /\ p \in Packets /\ Carries(p, q) /\ Asked(q) /\ Sending(q)
      /\ c \in ClientType /\ s \in [Srv -> ServerType]
  BY Zenon, <1>1 DEF Kept, TypeOK
<1>3. p.op # "WRQ"
  BY Zenon, <1>1
<1>4. p.srv \in Srv /\ Started(p.srv)
  BY Zenon, <1>1, <1>2, <1>3, PacketParts DEF Carries
<1>5. s[p.srv].block \in Nat /\ c.block \in Nat
  BY Zenon, <1>2, <1>4 DEF ServerType, ClientType
<1>6. s[p.srv].block > 0
  BY Zenon, <1>4 DEF Kept, Stored
<1>7. ASSUME p.op = "ACK", AckOfBlock(p)
      PROVE  /\ c.block = 0 => ~Etftp(q)
             /\ c.block <= s[p.srv].block
             /\ c.block = s[p.srv].block => Closing(p.srv)
  <2>1. PICK k \in 0..s[p.srv].block :
          /\ p = ACK(p.srv, k) /\ (k = 0 => ~Etftp(q))
          /\ k = s[p.srv].block => Closing(p.srv)
    BY Zenon, <1>2, <1>7 DEF Carries
  <2>2. p.block = Wire(k)
    <3> DEFINE i == p.srv
               y == ACK(i, k)
    <3>1. y.block = Wire(k)
      BY Zenon DEF ACK
    <3> HIDE DEF y
    <3>2. p = y
      BY Zenon, <2>1 DEF y
    <3>3. QED BY Zenon, <3>1, <3>2
  <2>3. k = c.block
    <3>1. /\ BlockMod \in Nat \ {0} /\ c.block < BlockMod /\ s[p.srv].block < BlockMod
          /\ k % BlockMod = c.block % BlockMod
      BY Zenon, <1>1, <1>4, <1>7, <2>2, CommonAssumption DEF NoWrap, Wire, AckOfBlock
    <3>2. k \in Nat /\ k < BlockMod
      BY SMTT(30), <1>5, <2>1, <3>1
    <3>3. QED BY SMTT(30), <1>5, <3>1, <3>2
  <2>4. k <= s[p.srv].block
    BY <1>5, <2>1
  <2>5. QED BY Zenon, <2>1, <2>3, <2>4
<1>8. Peer
  BY Zenon, <1>1 DEF Peer
<1>9. Settled(p) = Size(q)
  <2>1. CASE c.block # 0
    <3>1. c.block > 0
      BY <1>5, <2>1
    <3>2. c.blksize = Size(q)
      BY Zenon, <1>2, <3>1 DEF Sending
    <3>3. QED BY Zenon, <2>1, <3>2 DEF Settled
  <2>2. CASE c.block = 0 /\ p.op = "ACK"
    <3>1. Size(q) = SegSize
      BY Zenon, <1>1, <1>2, <1>7, <2>2, OptionFacts
    <3>2. QED BY Zenon, <2>2, <3>1 DEF Settled
  <2>3. CASE c.block = 0 /\ p.op = "OACK"
    <3>1. p.blksize = q.blksize /\ p.op # "ACK"
      BY Zenon, <1>2, <2>3 DEF Carries
    <3>2. Size(q) = IF q.blksize = 0 THEN SegSize ELSE q.blksize
      BY Zenon, <1>2, OptionFacts
    <3>3. QED BY Zenon, <2>3, <3>1, <3>2 DEF Settled
  <2>4. QED BY Zenon, <1>1, <2>1, <2>2, <2>3
<1>10. s[p.srv].block \in Nat \ {0}
  BY <1>5, <1>6
<1>11. QED
  BY Zenon, <1>1, <1>4, <1>7, <1>8, <1>9, <1>10

(* The block in the client's buffer ends the file exactly when it is       *)
(* shorter than the block size.                                            *)
LEMMA BufferLeads ==
  ASSUME Len(Jobs) <= 1, NEW q, Asked(q), Sending(q), c.block \in Nat \ {0}
  PROVE  /\ Size(q) \in Nat /\ c.serv \in Srv
         /\ BufCount(c.buf) = c.blksize => Before(Size(q), c.block + 1) <= Len(File)
         /\ BufCount(c.buf) # c.blksize => Len(File) < Before(Size(q), c.block + 1)
<1>1. c.block > 0
  OBVIOUS
<1>2. /\ c.serv \in Srv /\ c.blksize = Size(q)
      /\ Before(Size(q), c.block) <= Len(File)
      /\ Ahead(c.buf, c.pos, File, Size(q), c.block)
  BY Zenon, <1>1 DEF Sending
<1>3. Size(q) \in Nat /\ File \in Seq(Byte)
  BY Zenon, OptionFacts, FileFacts
<1>4. Leads(File, Size(q), c.block)
  BY Zenon, <1>2, <1>3, BlockLeads
<1>5. BufCount(c.buf) = Len(Block(File, Size(q), c.block))
  BY Zenon, <1>2 DEF Ahead, Holds
<1>6. QED
  BY Zenon, <1>2, <1>3, <1>4, <1>5 DEF Leads

(* The next block is sent.                                                 *)
LEMMA GoesOnKeeps ==
  ASSUME Len(Jobs) <= 1, NEW q, Kept(q), TypeOK, NoWrap, c' \in ClientType, s' = s,
         c.job = 1, NEW p \in net, GoesOn(p)
  PROVE  Kept(q)'
<1> DEFINE k == c.block + 1
<1>1. /\ Answers(p) /\ c.st = "wait" /\ c'.job = 1 /\ c'.block = k /\ c'.serv = p.srv
      /\ c'.st = "wait" /\ net' = net \cup {c'.pkt}
      /\ c.block = 0 \/ BufCount(c.buf) = c.blksize
      /\ c'.blksize = Settled(p) /\ (Reading(c) => SentBlock(c'))
  BY Zenon DEF GoesOn, Answers
<1>2. /\ p.srv \in Srv /\ Started(p.srv) /\ Peer /\ Settled(p) = Size(q)
      /\ s[p.srv].block \in Nat \ {0}
      /\ c.block # 0 => /\ c.block <= s[p.srv].block
                        /\ c.block = s[p.srv].block => Closing(p.srv)
  BY Zenon, <1>1, AnswerFacts
<1>3. c.block \in Nat /\ Sending(q) /\ Asked(q)
  BY Zenon, <1>1 DEF Kept, TypeOK, ClientType
<1>4. SentBlock(c') /\ Source(c') = File
  <2>1. Reading(c)
    BY Zenon, <1>3, SendingReads
  <2>2. QED BY Zenon, <1>1, <2>1 DEF Source, File
<1>5. k \in Nat /\ k > 0 /\ k # 0 /\ k \in 1..k
  BY <1>3
<1>6. /\ c'.pkt = DATA(c'.serv, k, Block(File, Size(q), k))
      /\ Ahead(c'.buf, c'.pos, File, Size(q), k)
  BY Zenon, <1>1, <1>2, <1>4, <1>5 DEF SentBlock, Reading
<1>7. k <= s[p.srv].block /\ Before(Size(q), k) <= Len(File)
  <2>1. CASE c.block = 0
    <3>1. k = 1 /\ 1 <= s[p.srv].block
      BY <1>2, <2>1
    <3>2. Size(q) \in Nat /\ Len(File) \in Nat
      BY Zenon, <1>3, OptionFacts, FileFacts
    <3>3. Before(Size(q), 1) = 0
      BY Zenon, <3>2, BeforeNext
    <3>4. 0 <= Len(File)
      BY SMTT(30), <3>2
    <3>5. QED BY Zenon, <3>1, <3>3, <3>4
  <2>2. CASE c.block # 0
    <3>1. c.block \in Nat \ {0}
      BY Zenon, <1>3, <2>2
    <3>2. Before(Size(q), k) <= Len(File) /\ Size(q) \in Nat
      BY Zenon, <1>1, <1>3, <2>2, <3>1, BufferLeads
    <3>3. c.block # s[p.srv].block
      <4>1. SUFFICES ASSUME c.block = s[p.srv].block PROVE FALSE
        BY Zenon
      <4>2. Len(File) < Before(Size(q), k)
        BY Zenon, <1>2, <2>2, <4>1 DEF Kept, Stored
      <4>3. Before(Size(q), k) \in Nat /\ Len(File) \in Nat
        BY Zenon, <1>3, <3>2, BeforeNext, FileFacts
      <4>4. QED BY <3>2, <4>2, <4>3
    <3>4. QED BY SMTT(30), <1>2, <1>3, <2>2, <3>2, <3>3
  <2>3. QED BY Zenon, <2>1, <2>2
<1>8. Sending(q)'
  BY Zenon, <1>1, <1>2, <1>5, <1>6, <1>7 DEF Sending, Started
<1>9. ASSUME NEW x, x = c'.pkt PROVE Carries(x, q)'
  <2>1. k \in 1..c'.block
    BY Zenon, <1>1, <1>5
  <2> HIDE DEF k
  <2>2. QED BY Zenon, <1>6, <1>9, <2>1, BlockCarries
<1>10. /\ net \subseteq net' /\ \A x \in net' : x \in net \/ Carries(x, q)'
       /\ c'.block \in {c.block, c.block + 1}
  BY Zenon, <1>1, <1>9
<1>11. QED
  BY Zenon, <1>2, <1>8, <1>10, ClientKeeps

(* The put ends with the ack of its last block: the tftpd that sent it has *)
(* the whole file.                                                         *)
LEMMA CompletesKeeps ==
  ASSUME Len(Jobs) <= 1, NEW q, Kept(q), TypeOK, NoWrap, c' \in ClientType, s' = s,
         c.job = 1, NEW p \in net, Completes(p)
  PROVE  Kept(q)' /\ p.srv \in Srv /\ Closing(p.srv)
<1>1. /\ Answers(p) /\ c.st = "wait" /\ c'.block = c.block + 1 /\ c.block # 0
      /\ c'.st = "idle" /\ net' = net /\ BufCount(c.buf) # c.blksize
  BY Zenon DEF Completes, Answers, Ends
<1>2. /\ p.srv \in Srv /\ Started(p.srv) /\ Peer
      /\ s[p.srv].block \in Nat \ {0}
      /\ c.block <= s[p.srv].block /\ (c.block = s[p.srv].block => Closing(p.srv))
  BY Zenon, <1>1, AnswerFacts
<1>3. c.block \in Nat /\ Sending(q) /\ Asked(q)
  BY Zenon, <1>1 DEF Kept, TypeOK, ClientType
<1>4. c.block \in Nat \ {0}
  BY Zenon, <1>1, <1>3
<1>5. Len(File) < Before(Size(q), c.block + 1) /\ Size(q) \in Nat
  BY Zenon, <1>1, <1>3, <1>4, BufferLeads
<1>6. Before(Size(q), s[p.srv].block) <= Len(File)
  BY Zenon, <1>2 DEF Kept, Stored
<1>7. c.block = s[p.srv].block
  <2>1. SUFFICES ASSUME c.block # s[p.srv].block PROVE FALSE
    BY Zenon
  <2>2. c.block + 1 \in Nat /\ s[p.srv].block \in Nat /\ c.block + 1 <= s[p.srv].block
    BY SMTT(30), <1>2, <1>3, <2>1
  <2>3. Before(Size(q), c.block + 1) <= Before(Size(q), s[p.srv].block)
    BY Zenon, <1>5, <2>2, BeforeOrder
  <2>4. /\ Before(Size(q), c.block + 1) \in Int /\ Before(Size(q), s[p.srv].block) \in Int
        /\ Len(File) \in Nat
    BY Zenon, <1>5, <2>2, BeforeNext, FileFacts
  <2>5. QED BY SMTT(30), <1>5, <1>6, <2>3, <2>4
<1>8. c'.st # "wait" /\ c'.block \in {c.block, c.block + 1}
  BY Zenon, <1>1
<1>9. Kept(q)'
  BY Zenon, <1>1, <1>2, <1>8, ClientKeeps
<1>10. QED
  BY Zenon, <1>2, <1>7, <1>9

(* The log once the put has ended, and while nothing ends.                 *)
LEMMA LoggedEnds ==
  ASSUME put = <<>>, c'.job = 1, NEW status, Ends(status),
         status = "ok" => c'.serv \in Srv /\ s'[c'.serv].st \in {"dally", "done"}
  PROVE  Logged'
<1> DEFINE j == c'.job
           i == c'.serv
           e == [job |-> j, status |-> status, serv |-> i]
<1>1. c'.st = "idle" /\ put' = Append(put, e)
  BY Zenon DEF Ends
<1>2. e.job = j /\ e.status = status /\ e.serv = i
  BY Zenon
<1> HIDE DEF e
<1>3. put' = <<e>>
  BY <1>1
<1>4. c'.st # "wait" /\ c'.job # 0
  BY <1>1
<1>5. QED
  BY Zenon, <1>2, <1>3, <1>4 DEF Logged, Closing

(* A step that does not end the put leaves its record alone: a tftpd that  *)
(* has the whole file keeps it (recvfile, dally).                          *)
LEMMA LoggedStays ==
  ASSUME Logged, put' = put, c'.job = c.job, c'.st = "wait" <=> c.st = "wait",
         \A i \in Srv : Closing(i) => Closing(i)'
  PROVE  Logged'
<1>1. c.job = 0 \/ c.st = "wait" => put = <<>>
  BY Zenon DEF Logged
<1>2. ASSUME c.job = 1, c.st # "wait"
      PROVE  \E e : /\ put' = <<e>> /\ e.job = 1
                    /\ e.status = "ok" => e.serv \in Srv /\ Closing(e.serv)'
  <2>1. PICK e : /\ put = <<e>> /\ e.job = 1
                 /\ e.status = "ok" => e.serv \in Srv /\ Closing(e.serv)
    BY Zenon, <1>2 DEF Logged
  <2>2. QED BY Zenon, <2>1
<1>3. QED
  BY Zenon, <1>1, <1>2 DEF Logged

(* The request goes out.                                                   *)
LEMMA AsksKeeps ==
  ASSUME Len(Jobs) <= 1, PInv, TypeOK, TypeOK', s' = s, Asks
  PROVE  PInv'
<1>1. /\ c.job < Len(Jobs) /\ c'.job = c.job + 1 /\ c'.block = 0
      /\ \/ Ends("sendto") /\ net' = net
         \/ /\ c'.st = "wait" /\ put' = put /\ net' = net \cup {c'.pkt}
            /\ c'.pkt = makerequest("WRQ", Jobs[c'.job].targ, c.blksize, NoOption,
                                    c.tsize)
            /\ Reading(c')
  BY Zenon DEF Asks
<1>2. c.job = 0 /\ c'.job = 1
  BY <1>1, FileFacts DEF PInv
<1>3. Quiet /\ put = <<>>
  BY Zenon, <1>2 DEF PInv, Logged
<1>4. c'.job # 0
  BY <1>2
<1>5. CASE Ends("sendto") /\ net' = net
  <2>1. Logged'
    <3>1. "sendto" # "ok"
      BY Zenon
    <3>2. QED BY Zenon, <1>2, <1>3, <1>5, <3>1, LoggedEnds
  <2>2. c'.st # "wait"
    BY Zenon, <1>5 DEF Ends
  <2>3. Quiet'
    BY ZenonT(30), <1>3, <1>4, <1>5, <2>2 DEF Quiet
  <2>4. QED BY Zenon, <1>2, <2>1, <2>3 DEF PInv
<1>6. CASE /\ c'.st = "wait" /\ put' = put /\ net' = net \cup {c'.pkt}
           /\ c'.pkt = makerequest("WRQ", Jobs[c'.job].targ, c.blksize, NoOption,
                                   c.tsize)
           /\ Reading(c')
  <2> DEFINE n == Jobs[1].targ
             b == c.blksize
             t == c.tsize
             r == makerequest("WRQ", n, b, NoOption, t)
  <2>0. r.op = "WRQ" /\ r.name = n /\ r.blksize = IF b = SegSize THEN 0 ELSE b
    BY Zenon DEF makerequest
  <2> HIDE DEF r
  <2>1. PICK q : q = r /\ c'.pkt = q
    BY Zenon, <1>2, <1>6 DEF r
  <2>2. q.op = "WRQ" /\ q.name = n /\ q.blksize = IF b = SegSize THEN 0 ELSE b
    BY Zenon, <2>0, <2>1
  <2>3. net' = {q}
    BY Zenon, <1>3, <1>6, <2>1 DEF Quiet
  <2>4. q \in Packets
    BY Zenon, <2>3 DEF TypeOK
  <2>5. Asked(q)
    <3>1. b \in BlkSizes \cup {SegSize}
      BY Zenon, <1>2, <1>3 DEF Quiet
    <3>2. q.blksize \in BlkSizes \cup {0}
      BY Zenon, <2>2, <3>1
    <3>3. QED BY Zenon, <2>2, <2>4, <3>2 DEF Asked
  <2>6. ASSUME NEW i \in Srv
        PROVE  Stored(i, q)' /\ AckMade(i, q)' /\ Near(i)'
    <3>1. s'[i].st = "free" /\ s'[i].block = 0
      BY Zenon, <1>3, FreshType DEF Quiet
    <3>2. ~Started(i)' /\ ~Closing(i)' /\ s'[i].st # "wait"
      BY Zenon, <3>1 DEF Started, Closing
    <3>3. Stored(i, q)' /\ AckMade(i, q)'
      BY Zenon, <3>1, <3>2 DEF Stored, AckMade
    <3>4. Near(i)'
      BY <1>1, <3>1 DEF Near
    <3>5. QED BY Zenon, <3>3, <3>4
  <2>7. Carries(q, q)'
    <3>1. q.op # "OACK" /\ q.op # "ACK" /\ q.op # "DATA"
      BY Zenon, <2>2
    <3>2. QED BY Zenon, <3>1 DEF Carries
  <2>8. Sending(q)'
    <3>1. ~(c'.block > 0)
      BY <1>1
    <3>2. c'.buf = r_init /\ c'.pos = 0
      BY Zenon, <1>1, <1>6 DEF Reading
    <3>3. QED BY Zenon, <2>1, <3>1, <3>2 DEF Sending
  <2>9. Kept(q)' /\ q \in net'
    <3>1. q \in net' /\ \A p \in net' : p = q
      BY Zenon, <2>3
    <3>2. \A p \in net' : Carries(p, q)'
      BY Zenon, <2>7, <3>1
    <3>3. QED BY ZenonT(30), <2>5, <2>6, <2>8, <3>1, <3>2 DEF Kept
  <2>10. \E x \in net' : Kept(x)'
    BY Zenon, <2>9
  <2>11. Logged'
    BY Zenon, <1>2, <1>3, <1>6 DEF Logged
  <2>12. QED BY SMTT(30), <1>2, <2>10, <2>11 DEF PInv
<1>7. QED
  BY Zenon, <1>1, <1>5, <1>6

(* The client never breaks the invariant.                                  *)
LEMMA ClientStepKeeps ==
  ASSUME Len(Jobs) <= 1, PInv, TypeOK, TypeOK', NoWrap, s' = s, ClientEffect
  PROVE  PInv'
<1>1. \A i \in Srv : Closing(i) => Closing(i)'
  BY Zenon DEF Closing
<1>2. c' \in ClientType
  BY Zenon DEF TypeOK
<1>3. CASE Idles
  <2>1. /\ c.st # "wait" /\ c'.st # "wait" /\ c'.job = c.job /\ c'.block = c.block
        /\ c'.serv = c.serv /\ c'.blksize \in BlkSizes \cup {c.blksize}
        /\ net' = net /\ put' = put
    BY Zenon, <1>3 DEF Idles
  <2>2. Logged'
    BY Zenon, <1>1, <2>1, LoggedStays DEF PInv
  <2>3. Quiet => Quiet'
    BY Zenon, <2>1 DEF Quiet
  <2>4. ASSUME NEW q \in net, Kept(q) PROVE Kept(q)'
    <3>1. Peer /\ c'.block \in {c.block, c.block + 1}
      BY Zenon, <2>1 DEF Peer
    <3>2. QED BY Zenon, <1>2, <2>1, <2>4, <3>1, ClientKeeps
  <2>5. QED BY Zenon, <2>1, <2>2, <2>3, <2>4 DEF PInv
<1>4. CASE Asks
  BY Zenon, <1>4, AsksKeeps
<1>5. ASSUME c.st = "wait"
      PROVE  c.job = 1 /\ put = <<>> /\ \E q \in net : Kept(q)
  <2>1. ~Quiet
    BY Zenon, <1>5 DEF Quiet
  <2>2. c.job # 0
    BY Zenon, <2>1 DEF PInv
  <2>3. QED BY Zenon, <1>5, <2>1, <2>2 DEF PInv, Logged
<1>6. ASSUME c'.job = 1, NEW q \in net, Kept(q)', net \subseteq net', Logged'
      PROVE  PInv'
  <2>1. c'.job # 0 /\ c'.job \in {0, 1} /\ q \in net'
    BY <1>6
  <2>2. QED BY Zenon, <1>6, <2>1 DEF PInv
<1>7. CASE GivesUp
  <2>1. /\ c.st = "wait" /\ c'.job = c.job
        /\ net' \in {net, net \cup {ClientNak(c'.serv)}}
    BY Zenon, <1>7 DEF GivesUp
  <2>2. PICK status \in {"sendto", "nak", "timeout", "intr", "mismatch", "error"} :
          Ends(status)
    BY Zenon, <1>7 DEF GivesUp
  <2>3. c.job = 1 /\ put = <<>>
    BY Zenon, <1>5, <2>1
  <2>4. PICK q \in net : Kept(q)
    BY Zenon, <1>5, <2>1
  <2>5. Kept(q)'
    BY Zenon, <1>2, <1>7, <2>3, <2>4, SameKeeps
  <2>6. status # "ok"
    BY Zenon, <2>2
  <2>7. Logged'
    BY Zenon, <2>1, <2>2, <2>3, <2>6, LoggedEnds
  <2>8. net \subseteq net'
    BY Zenon, <2>1
  <2>9. QED BY Zenon, <1>6, <2>1, <2>3, <2>5, <2>7, <2>8
<1>8. CASE Again
  <2>1. /\ c.st = "wait" /\ c'.st = "wait" /\ c'.job = c.job /\ put' = put
        /\ net' \in {net, net \cup {c.pkt}}
    BY Zenon, <1>8 DEF Again
  <2>2. c.job = 1
    BY Zenon, <1>5, <2>1
  <2>3. PICK q \in net : Kept(q)
    BY Zenon, <1>5, <2>1
  <2>4. Kept(q)'
    BY ZenonT(30), <1>2, <1>8, <2>2, <2>3, SameKeeps
  <2>5. Logged'
    BY Zenon, <1>1, <2>1, LoggedStays DEF PInv
  <2>6. net \subseteq net'
    BY Zenon, <2>1
  <2>7. QED BY ZenonT(30), <1>6, <2>1, <2>2, <2>4, <2>5, <2>6
<1>9. ASSUME NEW p \in net, GoesOn(p) PROVE PInv'
  <2>1. /\ c.st = "wait" /\ c'.st = "wait" /\ c'.job = c.job /\ put' = put
        /\ net' = net \cup {c'.pkt}
    BY Zenon, <1>9 DEF GoesOn, Answers
  <2>2. c.job = 1
    BY Zenon, <1>5, <2>1
  <2>3. PICK q \in net : Kept(q)
    BY Zenon, <1>5, <2>1
  <2>4. Kept(q)'
    BY ZenonT(30), <1>2, <1>9, <2>2, <2>3, GoesOnKeeps
  <2>5. Logged'
    BY Zenon, <1>1, <2>1, LoggedStays DEF PInv
  <2>6. net \subseteq net'
    BY Zenon, <2>1
  <2>7. QED BY ZenonT(30), <1>6, <2>1, <2>2, <2>4, <2>5, <2>6
<1>10. ASSUME NEW p \in net, Completes(p) PROVE PInv'
  <2>1. /\ c.st = "wait" /\ c'.job = c.job /\ c'.serv = p.srv /\ Ends("ok")
        /\ net' = net
    BY Zenon, <1>10 DEF Completes, Answers
  <2>2. c.job = 1 /\ put = <<>>
    BY Zenon, <1>5, <2>1
  <2>3. PICK q \in net : Kept(q)
    BY Zenon, <1>5, <2>1
  <2>4. Kept(q)' /\ p.srv \in Srv /\ Closing(p.srv)
    BY Zenon, <1>2, <1>10, <2>2, <2>3, CompletesKeeps
  <2>5. c'.serv \in Srv /\ s'[c'.serv].st \in {"dally", "done"}
    BY Zenon, <2>1, <2>4 DEF Closing
  <2>6. Logged'
    BY Zenon, <2>1, <2>2, <2>5, LoggedEnds
  <2>7. net \subseteq net'
    BY Zenon, <2>1
  <2>8. QED BY Zenon, <1>6, <2>1, <2>2, <2>4, <2>6, <2>7
<1>11. QED
  BY Zenon, <1>3, <1>4, <1>7, <1>8, <1>9, <1>10 DEF ClientEffect

(* Nor does a tftpd.                                                       *)
LEMMA ServerStepKeepsAll ==
  ASSUME Len(Jobs) <= 1, PInv, TypeOK, NoWrap, NEW i \in Srv, ServerEffect(i),
         ServerOK', c' = c, put' = put
  PROVE  PInv'
<1>1. ~Quiet
  <2> SUFFICES ASSUME Quiet PROVE FALSE
    BY Zenon
  <2>1. s[i].st = "free" /\ net = {}
    BY Zenon, FreshType DEF Quiet
  <2>2. s[i].st # "wait" /\ s[i].st # "dally"
    BY Zenon, <2>1
  <2>3. QED
    BY Zenon, <2>1, <2>2 DEF ServerEffect, Refuses, Stops, Repeats, Leaves, Starts,
                             Takes, Lasts, Arrives
<1>2. PICK q \in net : Kept(q)
  BY Zenon, <1>1 DEF PInv
<1>3. Kept(q)'
  BY Zenon, <1>2, ServerStepKeeps
<1>4. net \subseteq net'
  BY Zenon DEF ServerEffect, Refuses, Stops, Repeats, Leaves, Starts, Takes, Lasts
<1>5. ASSUME NEW j \in Srv, Closing(j) PROVE Closing(j)'
  <2>1. CASE j = i
    <3>1. s[i].st # "free" /\ s[i].st # "wait"
      BY Zenon, <1>5, <2>1 DEF Closing
    <3>2. Leaves(i)
      BY Zenon, <3>1 DEF ServerEffect, Refuses, Stops, Repeats, Starts, Takes, Lasts,
                         Arrives
    <3>3. QED BY Zenon, <2>1, <3>2 DEF Leaves, Closing
  <2>2. CASE j # i
    BY Zenon, <1>5, <2>2 DEF ServerEffect, Others, Closing
  <2>3. QED BY Zenon, <2>1, <2>2
<1>6. Logged'
  BY Zenon, <1>5, LoggedStays DEF PInv
<1>7. c.job # 0 /\ q \in net'
  BY Zenon, <1>1, <1>2, <1>4 DEF PInv
<1>8. QED
  BY Zenon, <1>3, <1>6, <1>7 DEF PInv

(* The invariant of a put.                                                 *)
LEMMA PutInvariant ==
  Len(Jobs) <= 1 => (Spec /\ []NoWrap => [](TypeOK /\ PInv))
<1> SUFFICES ASSUME Len(Jobs) <= 1
             PROVE  Spec /\ []NoWrap => [](TypeOK /\ PInv)
  BY Zenon
<1>1. Init => PInv
  <2> SUFFICES ASSUME Init PROVE PInv
    BY Zenon
  <2>1. /\ c.st = "idle" /\ c.job = 0 /\ c.blksize = SegSize /\ net = {} /\ put = <<>>
        /\ \A i \in Srv : s[i] = Fresh
    BY Zenon DEF Init
  <2>2. c.st # "wait" /\ c.job # 1 /\ c.job \in {0, 1}
    BY <2>1
  <2>3. Quiet /\ Logged
    BY Zenon, <2>1, <2>2 DEF Quiet, Logged
  <2>4. QED BY Zenon, <2>2, <2>3 DEF PInv
<1>2. TypeOK /\ TypeOK' /\ PInv /\ NoWrap /\ [Next]_vars => PInv'
  <2> SUFFICES ASSUME TypeOK, TypeOK', PInv, NoWrap, [Next]_vars PROVE PInv'
    BY Zenon
  <2>1. ClientOK /\ ServerOK
    BY Zenon, TypeParts
  <2>2. CASE Client
    <3>1. ClientEffect /\ s' = s
      BY Zenon, <2>1, <2>2, ClientStepEffect
    <3>2. QED BY Zenon, <3>1, ClientStepKeeps
  <2>3. ASSUME NEW i \in Srv, Server(i) PROVE PInv'
    <3>1. ServerOK' /\ ServerEffect(i) /\ c' = c /\ put' = put
      BY Zenon, <2>1, <2>3, ServerStepEffect
    <3>2. QED BY Zenon, <3>1, ServerStepKeepsAll
  <2>4. CASE UNCHANGED vars
    <3>1. c' = c /\ s' = s /\ net' = net /\ put' = put
      BY Zenon, <2>4 DEF vars
    <3>2. Quiet => Quiet'
      BY Zenon, <3>1 DEF Quiet
    <3>3. ASSUME NEW q \in net, Kept(q) PROVE Kept(q)'
      BY ZenonT(30), <3>1, <3>3 DEF Kept, Stored, AckMade, Near, Carries, Sending,
                               Started, Closing
    <3>4. Logged'
      BY Zenon, <3>1, LoggedStays DEF PInv, Closing
    <3>5. QED BY Zenon, <3>1, <3>2, <3>3, <3>4 DEF PInv
  <2>5. QED BY Zenon, <2>2, <2>3, <2>4 DEF Next
<1>3. Spec => []TypeOK
  BY Zenon, PutTypeCorrect
<1>4. QED
  BY <1>1, <1>2, <1>3, PTL DEF Spec

(* Lock step: while the client waits, the tftpd it talks to waits for the  *)
(* block it is sending or for the next one, whatever is lost, repeated or  *)
(* late, however many tftpd processes copies of the request start.         *)
THEOREM PutLockStep ==
  Len(Jobs) <= 1 => (Spec /\ []NoWrap => []InStep)
<1> SUFFICES ASSUME Len(Jobs) <= 1
             PROVE  Spec /\ []NoWrap => []InStep
  BY Zenon
<1>1. TypeOK /\ PInv => InStep
  <2> SUFFICES ASSUME TypeOK, PInv, c.st = "wait", c.serv # NoSrv,
                      s[c.serv].st = "wait"
               PROVE  s[c.serv].block \in {c.block, c.block + 1}
    BY Zenon DEF InStep
  <2>1. PICK q \in net : Kept(q)
    BY Zenon DEF PInv, Quiet
  <2>2. c.serv \in Srv /\ c.block \in Nat /\ s[c.serv].block \in Nat
    <3>1. c.serv \in Srv /\ c.block \in Nat
      BY Zenon DEF TypeOK, ClientType
    <3>2. QED BY Zenon, <3>1 DEF TypeOK, ServerType
  <2>3. Started(c.serv)
    BY Zenon DEF Started
  <2>4. s[c.serv].block > 0 /\ s[c.serv].block <= c.block + 1
    BY Zenon, <2>1, <2>2, <2>3 DEF Kept, Stored, Near
  <2>5. c.block > 0 => c.block <= s[c.serv].block
    BY Zenon, <2>1 DEF Kept, Sending
  <2>6. QED BY <2>2, <2>4, <2>5
<1>2. Spec /\ []NoWrap => [](TypeOK /\ PInv)
  BY Zenon, PutInvariant
<1>3. QED
  BY <1>1, <1>2, PTL

(* What the log says of a put that was reported done.                      *)
LEMMA LoggedFile ==
  ASSUME PInv, NEW k \in DOMAIN put, put[k].status = "ok"
  PROVE  /\ put[k].job = 1 /\ put[k].serv \in Srv /\ Started(put[k].serv)
         /\ ~s[put[k].serv].werr => s[put[k].serv].out = File
         /\ s[put[k].serv].name = Jobs[1].targ
<1>1. put # <<>>
  OBVIOUS
<1>2. c.job = 1 /\ c.st # "wait"
  BY Zenon, <1>1 DEF PInv, Logged
<1>3. PICK e : /\ put = <<e>> /\ e.job = 1
               /\ e.status = "ok" => e.serv \in Srv /\ Closing(e.serv)
  BY Zenon, <1>2 DEF PInv, Logged
<1>4. put[k] = e
  BY <1>3
<1>5. e.serv \in Srv /\ Closing(e.serv)
  BY Zenon, <1>3, <1>4
<1>6. Started(e.serv)
  BY Zenon, <1>5 DEF Started, Closing
<1>7. ~Quiet
  <2>1. Quiet => s[e.serv].st = "free"
    BY Zenon, <1>5, FreshType DEF Quiet
  <2>2. QED BY Zenon, <1>5, <2>1 DEF Closing
<1>8. PICK q \in net : Kept(q)
  BY Zenon, <1>7 DEF PInv
<1>9. /\ ~s[e.serv].werr => s[e.serv].out = File
      /\ s[e.serv].name = Jobs[1].targ
  BY Zenon, <1>5, <1>6, <1>8 DEF Kept, Stored, Asked
<1>10. QED
  BY Zenon, <1>3, <1>4, <1>5, <1>6, <1>9

(* A put reported done has had its whole file written, in order, by the    *)
(* tftpd that acknowledged the last block, when no write failed there: for *)
(* every file, every block size, and any number of tftpd processes.        *)
THEOREM PutAlwaysWritten ==
  Len(Jobs) <= 1 => (Spec /\ []NoWrap => []PutWritten)
<1> SUFFICES ASSUME Len(Jobs) <= 1
             PROVE  Spec /\ []NoWrap => []PutWritten
  BY Zenon
<1>1. PInv => PutWritten
  BY Zenon, LoggedFile DEF PutWritten, File
<1>2. Spec /\ []NoWrap => [](TypeOK /\ PInv)
  BY Zenon, PutInvariant
<1>3. QED
  BY <1>1, <1>2, PTL

(* A tftpd that has the whole file has sent the ack of its last block, if  *)
(* the file fills at least one block.  A shorter one is acknowledged from  *)
(* a buffer in which nothing was stored when options were negotiated.      *)
THEOREM FinalAckAlwaysSent ==
  Len(Jobs) <= 1 /\ (\A b \in BlkSizes \cup {SegSize} : b <= Len(File)) =>
    (Spec /\ []NoWrap => []FinalAckSent)
<1> SUFFICES ASSUME Len(Jobs) <= 1, \A b \in BlkSizes \cup {SegSize} : b <= Len(File)
             PROVE  Spec /\ []NoWrap => []FinalAckSent
  BY Zenon
<1>1. PInv /\ TypeOK => FinalAckSent
  <2> SUFFICES ASSUME PInv, TypeOK, NEW i \in Srv, s[i].st = "dally"
               PROVE  ACK(i, s[i].block) \in net
    BY Zenon DEF FinalAckSent
  <2>1. Closing(i) /\ s[i].st # "free"
    BY Zenon DEF Closing
  <2>2. ~Quiet
    BY Zenon, <2>1, FreshType DEF Quiet
  <2>3. PICK q \in net : Kept(q)
    BY Zenon, <2>2 DEF PInv
  <2>4. /\ Len(File) < Before(Size(q), s[i].block + 1) /\ s[i].ackbuf \in net
        /\ \/ s[i].ackbuf = ACK(i, s[i].block)
           \/ s[i].ackbuf = ZeroPacket(i) /\ s[i].block = 1
    BY Zenon, <2>1, <2>3 DEF Kept, Stored, AckMade
  <2>5. Size(q) \in BlkSizes \cup {SegSize} /\ Size(q) \in Nat /\ Len(File) \in Nat
    BY ZenonT(30), <2>3, OptionFacts, FileFacts DEF Kept
  <2>6. s[i].block # 1
    <3>1. SUFFICES ASSUME s[i].block = 1 PROVE FALSE
      BY Zenon
    <3>2. 1 + 1 = 2 /\ 0 \in Nat /\ 0 + 1 = 1 /\ 0 + 2 = 2
      OBVIOUS
    <3>3. Before(Size(q), 1) = 0 /\ Before(Size(q), 2) = Before(Size(q), 1) + Size(q)
      BY ONLY SMTT(30), <2>5, <3>2, BeforeNext
    <3>4. Len(File) < Before(Size(q), 2)
      BY Zenon, <2>4, <3>1, <3>2
    <3>5. Size(q) <= Len(File)
      BY Zenon, <2>5
    <3>6. QED BY SMTT(30), <2>5, <3>3, <3>4, <3>5
  <2>7. QED BY Zenon, <2>4, <2>6
<1>2. Spec /\ []NoWrap => [](TypeOK /\ PInv)
  BY Zenon, PutInvariant
<1>3. QED
  BY <1>1, <1>2, PTL

\* The request was delivered once: no copy of it has started a second tftpd.
RequestOnce == \A i, j \in Srv : Started(i) /\ Started(j) => i = j

\* The remote file is what the tftpd that has it open has written.
OnDisk ==
  \A i \in Srv : Started(i) => s[i].name \in Remote /\ disk[s[i].name] = s[i].out

(* A tftpd that is alone with its file writes at the end of it.            *)
LEMMA StoresOnDisk ==
  ASSUME TypeOK, NEW i \in Srv, s[i].name \in Remote, disk[s[i].name] = s[i].out,
         Stores(i)
  PROVE  s'[i].name \in Remote /\ disk'[s'[i].name] = s'[i].out
<1> DEFINE n == s[i].name
           f == s[i].out
           g == s'[i].out
<1>1. s'[i].name = n /\ disk \in [Remote -> Seq(Byte)] /\ f \in Seq(Byte)
  BY Zenon DEF Stores, TypeOK, ServerType
<1>2. CASE disk' = disk /\ g = f
  BY Zenon, <1>1, <1>2
<1>3. CASE /\ Grown(f, g)
           /\ disk' = [disk EXCEPT ![n] = Overlay(@, Len(f), SubSeq(g, Len(f) + 1, Len(g)))]
  <2>1. PICK e \in Seq(Byte) : g = f \o e
    BY Zenon, <1>3 DEF Grown
  <2>2. disk'[n] = Overlay(f, Len(f), SubSeq(g, Len(f) + 1, Len(g)))
    BY Zenon, <1>1, <1>3
  <2>3. QED BY ZenonT(30), <1>1, <2>1, <2>2, OverlayAppends
<1>4. QED
  BY Zenon, <1>2, <1>3 DEF Stores

(* "the file is stored remotely as remotename" (tftp.1): after a put that  *)
(* was reported done the remote file is the local one, when no write       *)
(* failed and the request was delivered once.                              *)
THEOREM PutAlwaysStored ==
  Len(Jobs) <= 1 => (Spec /\ []NoWrap /\ []RequestOnce => []PutStored)
<1> SUFFICES ASSUME Len(Jobs) <= 1
             PROVE  Spec /\ []NoWrap /\ []RequestOnce => []PutStored
  BY Zenon
<1>1. Init => OnDisk
  <2> SUFFICES ASSUME Init, NEW i \in Srv PROVE ~Started(i)
    BY Zenon DEF OnDisk
  <2>1. s[i].st = "free"
    BY Zenon, FreshType DEF Init
  <2>2. QED BY Zenon, <2>1 DEF Started
<1>2. TypeOK /\ RequestOnce' /\ OnDisk /\ [Next]_vars => OnDisk'
  <2> SUFFICES ASSUME TypeOK, RequestOnce', OnDisk, [Next]_vars,
                      NEW j \in Srv, Started(j)'
               PROVE  s'[j].name \in Remote /\ disk'[s'[j].name] = s'[j].out
    BY Zenon DEF OnDisk
  <2>1. ClientOK /\ ServerOK /\ disk \in [Remote -> Seq(Byte)]
    BY Zenon, TypeParts DEF TypeOK
  <2>2. ASSUME s' = s, disk' = disk
        PROVE  s'[j].name \in Remote /\ disk'[s'[j].name] = s'[j].out
    BY Zenon, <2>2 DEF OnDisk, Started
  <2>3. CASE Client
    BY ZenonT(30), <2>1, <2>2, <2>3, ClientStepEffect
  <2>4. ASSUME NEW i \in Srv, Server(i)
        PROVE  s'[j].name \in Remote /\ disk'[s'[j].name] = s'[j].out
    <3>1. ServerEffect(i)
      BY Zenon, <2>1, <2>4, ServerStepEffect
    <3>2. CASE Refuses(i)
      <4>1. ~Started(i)' /\ disk' = disk
        BY Zenon, <3>2 DEF Refuses, Started
      <4>2. j # i
        BY Zenon, <4>1
      <4>3. s'[j] = s[j]
        BY Zenon, <3>1, <4>2 DEF ServerEffect, Others
      <4>4. QED BY Zenon, <4>1, <4>3 DEF OnDisk, Started
    <3>3. ASSUME NEW p \in net, Starts(i, p)
          PROVE  s'[j].name \in Remote /\ disk'[s'[j].name] = s'[j].out
      <4>1. Started(i)'
        BY Zenon, <3>3 DEF Starts, Started
      <4>2. j = i
        BY Zenon, <4>1 DEF RequestOnce
      <4>3. QED BY Zenon, <2>1, <3>3, <4>2 DEF Starts, Accepted
    <3>4. ASSUME s[i].st \in {"wait", "dally"}, Stores(i), Started(i)'
          PROVE  s'[j].name \in Remote /\ disk'[s'[j].name] = s'[j].out
      <4>1. Started(i) /\ j = i
        BY Zenon, <3>4 DEF Started, RequestOnce
      <4>2. QED BY Zenon, <3>4, <4>1, StoresOnDisk DEF OnDisk
    <3>5. CASE Stops(i) \/ Repeats(i) \/ Leaves(i)
      <4>1. s[i].st \in {"wait", "dally"} /\ Stores(i) /\ Started(i)'
        BY Zenon, <3>5 DEF Stops, Repeats, Leaves, Started
      <4>2. QED BY Zenon, <3>4, <4>1
    <3>6. ASSUME NEW p \in net, Takes(i, p) \/ Lasts(i, p)
          PROVE  s'[j].name \in Remote /\ disk'[s'[j].name] = s'[j].out
      <4>1. s[i].st \in {"wait", "dally"} /\ Stores(i) /\ Started(i)'
        BY Zenon, <3>6 DEF Takes, Lasts, Arrives, Started
      <4>2. QED BY Zenon, <3>4, <4>1
    <3>7. QED BY ZenonT(30), <3>1, <3>2, <3>3, <3>5, <3>6 DEF ServerEffect
  <2>5. CASE UNCHANGED vars
    BY Zenon, <2>2, <2>5 DEF vars
  <2>6. QED BY Zenon, <2>3, <2>4, <2>5 DEF Next
<1>3. PInv /\ OnDisk => PutStored
  BY ZenonT(30), LoggedFile DEF PutStored, OnDisk, File
<1>4. Spec /\ []NoWrap => [](TypeOK /\ PInv)
  BY Zenon, PutInvariant
<1>5. QED
  BY <1>1, <1>2, <1>3, <1>4, PTL DEF Spec
=============================================================================
