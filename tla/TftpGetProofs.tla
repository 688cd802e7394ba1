--------------------------- MODULE TftpGetProofs ---------------------------
(* Proofs about TftpGet, for every number of servers, every set of files,  *)
(* every list of jobs and every block size.                                *)
EXTENDS TftpGet, TftpBufProofs

(* What a packet constructor builds is a packet.                           *)
LEMMA PacketType ==
  /\ \A k \in Int : Wire(k) \in Nat
  /\ \A n \in STRING, b \in Nat, t \in Int, z \in BOOLEAN :
       makerequest("RRQ", n, b, t, z) \in Packets
  /\ \A i \in Srv, k \in Int, d \in Seq(Byte) : DATA(i, k, d) \in Packets
  /\ \A i \in Srv, k \in Int : ACK(i, k) \in Packets
  /\ \A i \in Srv, b \in Nat, t \in Nat : OACK(i, b, t) \in Packets
  /\ \A i \in Srv : ERROR(i) \in Packets
<1>1. \A k \in Int : Wire(k) \in Nat
  BY CommonAssumption DEF Wire
<1>2. \A n \in STRING, b \in Nat, t \in Int, z \in BOOLEAN :
        makerequest("RRQ", n, b, t, z) \in Packets
  BY DEF makerequest, Packets, Request
<1>3. \A i \in Srv, k \in Int, d \in Seq(Byte) : DATA(i, k, d) \in Packets
  BY <1>1 DEF DATA, Packets, Reply
<1>4. \A i \in Srv, k \in Int : ACK(i, k) \in Packets
  BY <1>1 DEF ACK, Packets, Reply
<1>5. \A i \in Srv, b \in Nat, t \in Nat : OACK(i, b, t) \in Packets
  BY DEF OACK, Packets, Reply
<1>6. \A i \in Srv : ERROR(i) \in Packets
  BY DEF ERROR, Packets, Reply
<1>7. QED
  BY SMTT(30), <1>1, <1>2, <1>3, <1>4, <1>5, <1>6

(* The locals of recvfile stay well formed over write_behind.              *)
LEMMA WriteBehindClient ==
  ASSUME NEW cc \in ClientType, NEW err \in BOOLEAN
  PROVE  /\ WriteBehind(cc, err) \in ClientType
         /\ WriteBehind(cc, err).pkt = cc.pkt
         /\ WriteBehind(cc, err).st = cc.st
<1> DEFINE w == write_behind(cc.buf, cc.disk, FALSE, err)
           e == (cc.werr \/ err)
<1>1. cc.buf \in BufType(Byte) /\ cc.disk \in Seq(Byte) /\ cc.werr \in BOOLEAN
  BY DEF ClientType
<1>2. w.b \in BufType(Byte) /\ w.disk \in Seq(Byte)
  BY Zenon, <1>1, WriteBehindType
<1>3. e \in BOOLEAN
  BY <1>1
<1>4. WriteBehind(cc, err) = [cc EXCEPT !.buf = w.b, !.disk = w.disk, !.werr = e]
  BY DEF WriteBehind
<1> HIDE DEF w, e
<1> DEFINE f == WriteBehind(cc, err)
<1>5. f = [cc EXCEPT !.buf = w.b, !.disk = w.disk, !.werr = e]
  BY <1>4
<1> HIDE DEF f
<1>6. f \in ClientType /\ f.pkt = cc.pkt /\ f.st = cc.st
  BY Zenon, <1>2, <1>3, <1>5 DEF ClientType
<1>7. QED
  BY <1>6 DEF f

(* A call of the kind k succeeds or, if such calls can fail, fails.        *)
LEMMA FaultyBool == \A k : Faulty(k) \subseteq BOOLEAN
  BY Zenon DEF Faulty

\* The part of TypeOK that a step of the client can disturb.
ClientOK == /\ c \in ClientType
            /\ net \subseteq Packets
            /\ c.st = "wait" => c.pkt \in Packets
\* The part of TypeOK that a step of a server can disturb.
ServerOK == /\ s \in [Srv -> ServerType]
            /\ net \subseteq Packets
            /\ \A i \in Srv : s[i].st = "wait" => Serving(s[i])

(* The end of a get keeps the client well formed.                          *)
LEMMA FinishType ==
  ASSUME NEW cc \in ClientType, NEW status, net \subseteq Packets,
         Finish(cc, status)
  PROVE  ClientOK'
<1>1. PICK err \in Faulty("write") : c' = [WriteBehind(cc, err) EXCEPT !.st = "idle"]
  BY DEF Finish
<1>2. err \in BOOLEAN
  BY <1>1, FaultyBool
<1> DEFINE f == WriteBehind(cc, err)
<1>3. f \in ClientType
  BY <1>2, WriteBehindClient
<1>4. c' = [f EXCEPT !.st = "idle"]
  BY <1>1
<1> HIDE DEF f
<1>5. c' \in ClientType /\ c'.st = "idle"
  BY Zenon, <1>3, <1>4 DEF ClientType
<1>6. cc.block \in Int /\ cc.serv \in Srv \cup {NoSrv}
  BY DEF ClientType
<1>7. net' \subseteq Packets
  BY SMTT(30), <1>6, PacketType DEF Finish
<1>8. QED
  BY <1>5, <1>7 DEF ClientOK

(* Sending the packet in ackbuf keeps the client well formed.              *)
LEMMA SendAckType ==
  ASSUME NEW cc \in ClientType, cc.pkt \in Packets, net \subseteq Packets,
         SendAck(cc)
  PROVE  ClientOK'
<1>1. PICK fails \in Faulty("send"), err \in Faulty("write") :
        IF fails THEN Finish(cc, "sendto")
        ELSE c' = WriteBehind(cc, err) /\ net' = net \cup {cc.pkt} /\ UNCHANGED got
  BY DEF SendAck
<1>2. fails \in BOOLEAN /\ err \in BOOLEAN
  BY <1>1, FaultyBool
<1>3. CASE fails
  BY SMTT(30), <1>1, <1>3, FinishType
<1>4. CASE ~fails
  <2>1. c' = WriteBehind(cc, err) /\ net' = net \cup {cc.pkt}
    BY <1>1, <1>4
  <2>2. c' \in ClientType /\ c'.pkt = cc.pkt
    BY SMTT(30), <1>2, <2>1, WriteBehindClient
  <2>3. QED
    BY <2>1, <2>2 DEF ClientOK
<1>5. QED
  BY SMTT(30), <1>2, <1>3, <1>4

(* Every step of the client keeps it well formed.                          *)
LEMMA ClientStepType ==
  ASSUME TypeOK, Client
  PROVE  ClientOK' /\ s' = s
<1>1. c \in ClientType /\ net \subseteq Packets
  BY DEF TypeOK
<1>2. /\ SegSize \in Nat /\ TIMEOUT \in Nat /\ BlkSizes \subseteq Nat
      /\ Rexmts \subseteq Nat /\ MaxTimes \subseteq Nat
      /\ Toggles \subseteq BOOLEAN
  BY CommonAssumption, GetAssumption
<1>3. CASE Set
  <2>1. c' \in ClientType /\ c'.st = "idle"
    <3>0. c.st = "idle"
      BY <1>3 DEF Set
    <3>1. CASE \E b \in BlkSizes : c' = [c EXCEPT !.blksize = b]
      <4>1. PICK b \in Nat : c' = [c EXCEPT !.blksize = b]
        BY SMTT(30), <1>2, <3>1
      <4>2. QED
        BY SMTT(30), <1>1, <3>0, <4>1 DEF ClientType
    <3>2. CASE \E t \in Rexmts : c' = [c EXCEPT !.rexmtval = t]
      <4>1. PICK t \in Nat : c' = [c EXCEPT !.rexmtval = t]
        BY <1>2, <3>2
      <4>2. QED
        BY SMTT(30), <1>1, <3>0, <4>1 DEF ClientType
    <3>3. CASE \E t \in MaxTimes : c' = [c EXCEPT !.maxtimeout = t]
      <4>1. PICK t \in Nat : c' = [c EXCEPT !.maxtimeout = t]
        BY <1>2, <3>3
      <4>2. QED
        BY SMTT(30), <1>1, <3>0, <4>1 DEF ClientType
    <3>4. CASE \E b \in Toggles : c' = [c EXCEPT !.tout = b]
      <4>1. PICK b \in BOOLEAN : c' = [c EXCEPT !.tout = b]
        BY <1>2, <3>4
      <4>2. QED
        BY SMTT(30), <1>1, <3>0, <4>1 DEF ClientType
    <3>5. CASE \E b \in Toggles : c' = [c EXCEPT !.tsize = b]
      <4>1. PICK b \in BOOLEAN : c' = [c EXCEPT !.tsize = b]
        BY <1>2, <3>5
      <4>2. QED
        BY SMTT(30), <1>1, <3>0, <4>1 DEF ClientType
    <3>6. QED
      BY SMTT(30), <1>3, <3>1, <3>2, <3>3, <3>4, <3>5 DEF Set
  <2>2. QED
    BY SMTT(30), <1>1, <1>3, <2>1 DEF Set, ClientOK
<1>4. CASE Get
  <2> DEFINE n == Jobs[c.job + 1]
             tout == IF c.tout THEN c.rexmtval ELSE NoOption
             req == makerequest("RRQ", n, c.blksize, tout, c.tsize)
             j == c.job + 1
             e == <<>>
             cc == [c EXCEPT !.st = "wait", !.job = j, !.block = 1,
                       !.oack = FALSE, !.readlen = SegSize, !.timeout = 0,
                       !.serv = NoSrv, !.buf = w_init, !.disk = e,
                       !.werr = FALSE, !.pkt = req]
  <2>1. c.job \in Nat /\ c.job + 1 \in 1..Len(Jobs)
    BY SMTT(30), <1>1, <1>4, GetAssumption DEF Get, ClientType
  <2>2. n \in STRING
    BY SMTT(30), <2>1, GetAssumption
  <2>3. c.blksize \in Nat /\ tout \in Int /\ c.tsize \in BOOLEAN
    BY <1>1 DEF ClientType, NoOption
  <2>4. req \in Packets
    <3> HIDE DEF n, tout
    <3>1. QED BY SMTT(30), <2>2, <2>3, PacketType
  <2>5. w_init \in BufType(Byte) /\ e \in Seq(Byte) /\ j \in Nat
    BY SMTT(30), InitType, <2>1
  <2>6. SendAck(cc) /\ s' = s
    BY <1>4 DEF Get
  <2> HIDE DEF req, j, e
  <2>7. cc \in ClientType /\ cc.pkt = req
    BY ZenonT(40), <1>1, <1>2, <2>4, <2>5 DEF ClientType
  <2> HIDE DEF cc
  <2>8. QED
    BY SMTT(30), <1>1, <2>4, <2>6, <2>7, SendAckType
<1>5. CASE ClientTimer
  <2> DEFINE t == Elapsed(c)
             cc == [c EXCEPT !.timeout = t,
                  !.oack    = IF c.block = 1 /\ "oack" \in Registers
                              THEN FALSE ELSE @,
                  !.readlen = IF c.block = 1 /\ "readlen" \in Registers
                              THEN SegSize ELSE @]
  <2>1. t \in Nat
    BY SMTT(30), <1>1 DEF ClientType, Elapsed
  <2>2. /\ s' = s
        /\ \/ c' = [c EXCEPT !.st = "idle", !.timeout = t] /\ net' = net
           \/ SendAck(cc)
    BY <1>5 DEF ClientTimer
  <2> HIDE DEF t
  <2>3. CASE c' = [c EXCEPT !.st = "idle", !.timeout = t] /\ net' = net
    <3>1. c' \in ClientType /\ c'.st = "idle"
      BY ZenonT(40), <1>1, <2>1, <2>3 DEF ClientType
    <3>2. QED BY SMTT(30), <1>1, <2>2, <2>3, <3>1 DEF ClientOK
  <2>4. CASE SendAck(cc)
    <3>1. cc \in ClientType /\ cc.pkt = c.pkt
      BY ZenonT(40), <1>1, <1>2, <2>1 DEF ClientType
    <3>2. c.pkt \in Packets
      BY <1>5 DEF ClientTimer, TypeOK
    <3> HIDE DEF cc
    <3>3. QED BY SMTT(30), <1>1, <2>2, <2>4, <3>1, <3>2, SendAckType
  <2>5. QED BY SMTT(30), <2>2, <2>3, <2>4
<1>6. CASE Intr
  <2>1. c' \in ClientType /\ c'.st = "idle"
    BY Zenon, <1>1, <1>6 DEF Intr, ClientType
  <2>2. QED BY SMTT(30), <1>1, <1>6, <2>1 DEF Intr, ClientOK
<1>8. CASE Quit
  <2>1. c' \in ClientType /\ c'.st = "quit"
    BY <1>1, <1>8 DEF Quit, ClientType
  <2>2. QED BY SMTT(30), <1>1, <1>8, <2>1 DEF Quit, ClientOK
<1>7. CASE ClientRecv
  <2>1. PICK p \in net : \/ p.op = "DATA" /\ GotData(p)
                         \/ p.op = "DATA" /\ StaleData(p)
                         \/ p.op = "OACK" /\ GotOack(p)
                         \/ p.op = "ERROR" /\ GotError(p)
    BY SMTT(30), <1>7 DEF ClientRecv
  <2>2. p \in Packets /\ c.st = "wait" /\ c.pkt \in Packets
    BY ZenonT(40), <1>1, <2>1 DEF TypeOK, GotData, StaleData, GotOack, GotError, FromServer
  <2>3. CASE p.op = "DATA" /\ GotData(p)
    <3> DEFINE n == IF c.readlen < Len(p.data) THEN c.readlen ELSE Len(p.data)
               data == SubSeq(p.data, 1, n)
               dc == IF c.block = 1 /\ ~c.oack THEN DefaultOptions(c) ELSE c
               cc == [dc EXCEPT !.serv = p.srv]
    <3>1. p.srv \in Srv /\ p.data \in Seq(Byte)
      BY <2>2, <2>3 DEF Packets, Request, Reply
    <3>2. data \in Seq(Byte)
      <4>1. n \in 0..Len(p.data)
        BY <1>1, <3>1 DEF ClientType
      <4>2. \A k \in 1..n : p.data[k] \in Byte
        BY <3>1, <4>1
      <4> HIDE DEF n
      <4>3. QED BY SMTT(30), <4>1, <4>2, PartOfSeq
    <3>3. dc \in ClientType /\ dc.block = c.block
      <4>1. DefaultOptions(c) \in ClientType /\ DefaultOptions(c).block = c.block
        BY Zenon, <1>1, <1>2 DEF DefaultOptions, ClientType
      <4>2. QED BY <1>1, <4>1
    <3> HIDE DEF dc
    <3>4. /\ cc \in ClientType /\ cc.serv = p.srv /\ cc.buf \in BufType(Byte)
          /\ cc.disk \in Seq(Byte) /\ cc.blksize \in Nat /\ c.block \in Nat
      BY ZenonT(40), <1>1, <3>1, <3>3 DEF ClientType
    <3>5. PICK err \in Faulty("write") :
            LET w  == writeit(RecvInto(cc.buf, data), cc.disk, FALSE, err)
                wr == [cc EXCEPT !.buf = w.b, !.disk = w.disk, !.werr = @ \/ err]
            IN IF Len(data) = cc.blksize
               THEN SendAck([wr EXCEPT !.pkt = ACK(cc.serv, c.block),
                                       !.readlen = cc.blksize,
                                       !.block = @ + 1, !.timeout = 0])
               ELSE Finish(wr, "ok")
      BY ZenonT(40), <2>3 DEF GotData, dc
    <3> HIDE DEF cc, data
    <3> DEFINE w  == writeit(RecvInto(cc.buf, data), cc.disk, FALSE, err)
               e  == cc.werr \/ err
               wr == [cc EXCEPT !.buf = w.b, !.disk = w.disk, !.werr = e]
               nx == [wr EXCEPT !.pkt = ACK(cc.serv, c.block),
                                !.readlen = cc.blksize,
                                !.block = @ + 1, !.timeout = 0]
    <3>6. w.b \in BufType(Byte) /\ w.disk \in Seq(Byte)
      BY Zenon, <3>2, <3>4, <3>5, FaultyBool, WriteitType
    <3>7. e \in BOOLEAN
      BY SMTT(30), <3>4, <3>5, FaultyBool DEF ClientType
    <3>8. SendAck(nx) \/ Finish(wr, "ok")
      BY <3>5
    <3> HIDE DEF w, e
    <3>9. wr \in ClientType
      BY Zenon, <3>4, <3>6, <3>7 DEF ClientType
    <3> DEFINE a == ACK(cc.serv, c.block)
    <3>10. a \in Packets
      <4>1. c.block \in Int
        BY <3>4
      <4>2. ACK(p.srv, c.block) \in Packets
        BY SMTT(30), <3>1, <4>1, PacketType
      <4>3. QED BY <3>4, <4>2
    <3> HIDE DEF wr, a
    <3>11. nx \in ClientType /\ nx.pkt \in Packets
      <4> DEFINE b == wr.block + 1
      <4>1. b \in Nat
        BY <3>9 DEF ClientType
      <4> HIDE DEF b
      <4>2. [wr EXCEPT !.pkt = a, !.readlen = cc.blksize, !.block = b,
                       !.timeout = 0] \in ClientType
        BY Zenon, <3>4, <3>9, <3>10, <4>1 DEF ClientType
      <4>3. [wr EXCEPT !.pkt = a, !.readlen = cc.blksize, !.block = b,
                       !.timeout = 0].pkt = a
        BY <3>9 DEF ClientType
      <4>4. QED
        BY SMTT(30), <3>10, <4>2, <4>3 DEF a, b
    <3> HIDE DEF nx
    <3>12. s' = s
      BY <2>3 DEF GotData
    <3>13. QED
      BY SMTT(30), <1>1, <3>8, <3>9, <3>11, <3>12, SendAckType, FinishType
  <2>4. CASE p.op = "DATA" /\ StaleData(p)
    BY SMTT(30), <1>1, <2>2, <2>4, SendAckType DEF StaleData
  <2>5. CASE p.op = "OACK" /\ GotOack(p)
    <3> DEFINE oc == ClientOptions(c, p)
               cc == [oc EXCEPT !.serv = p.srv, !.oack = TRUE,
                                !.pkt = ACK(p.srv, 0), !.readlen = oc.blksize]
    <3>1. p.srv \in Srv /\ p.blksize \in Nat /\ p.timeout \in Nat
      BY <2>2, <2>5 DEF Packets, Request, Reply
    <3>2. oc \in ClientType
      BY ZenonT(40), <1>1, <1>2, <3>1 DEF ClientOptions, ClientType
    <3>3. SendAck(cc) /\ s' = s
      BY <2>5 DEF GotOack
    <3>4. ACK(p.srv, 0) \in Packets
      BY SMTT(30), <3>1, PacketType
    <3> HIDE DEF oc
    <3>5. cc \in ClientType /\ cc.pkt \in Packets
      BY Zenon, <3>1, <3>2, <3>4 DEF ClientType
    <3> HIDE DEF cc
    <3>6. QED
      BY SMTT(30), <1>1, <3>3, <3>5, SendAckType
  <2>6. CASE p.op = "ERROR" /\ GotError(p)
    <3>1. p.srv \in Srv
      BY <2>2, <2>6 DEF Packets, Request, Reply
    <3> DEFINE cc == [c EXCEPT !.serv = p.srv]
    <3>2. cc \in ClientType
      BY SMTT(30), <1>1, <3>1 DEF ClientType
    <3>3. Finish(cc, "error") /\ s' = s
      BY <2>6 DEF GotError
    <3> HIDE DEF cc
    <3>4. QED
      BY SMTT(30), <1>1, <3>2, <3>3, FinishType
  <2>7. QED
    BY SMTT(30), <2>1, <2>3, <2>4, <2>5, <2>6
<1>9. QED
  BY SMTT(30), <1>3, <1>4, <1>5, <1>6, <1>7, <1>8 DEF Client

-----------------------------------------------------------------------------
(* The state of one server is replaced by a well-formed one.               *)
LEMMA BecomeType ==
  ASSUME ServerOK, NEW i \in Srv, NEW r \in ServerType,
         r.st = "wait" => Serving(r),
         s' = [s EXCEPT ![i] = r], net' \subseteq Packets
  PROVE  ServerOK'
  BY DEF ServerOK

(* A server that exits stays well formed.                                  *)
LEMMA ExitType ==
  ASSUME ServerOK, NEW i \in Srv, net' \subseteq Packets,
         NEW status \in {"done", "nak", "abort", "timeout"}, Exit(i, status)
  PROVE  ServerOK'
<1> DEFINE r == [s[i] EXCEPT !.st = status]
<1>1. s[i] \in ServerType
  BY DEF ServerOK
<1>2. r \in ServerType /\ r.st # "wait"
  BY <1>1 DEF ServerType
<1>3. s' = [s EXCEPT ![i] = r]
  BY DEF Exit
<1> HIDE DEF r
<1>4. QED
  BY ZenonT(40), <1>2, <1>3, BecomeType

(* Sending a packet and reading ahead keeps the server well formed.        *)
LEMMA SendDataType ==
  ASSUME ServerOK, NEW i \in Srv, NEW r \in ServerType, Serving(r),
         SendData(i, r)
  PROVE  ServerOK'
<1>1. PICK fails \in Faulty("send"), err \in Faulty("read") :
        IF fails
        THEN Exit(i, "abort") /\ UNCHANGED net
        ELSE LET a == read_ahead(r.buf, r.pos, Files[r.name], r.blksize, FALSE, err)
             IN /\ s' = [s EXCEPT ![i] =
                           IF r.block = 0 THEN r
                           ELSE [r EXCEPT !.buf = a.b, !.pos = a.pos]]
                /\ net' = net \cup {r.pkt}
  BY Zenon DEF SendData
<1>2. fails \in BOOLEAN /\ err \in BOOLEAN
  BY SMTT(30), <1>1, FaultyBool
<1>3. CASE fails
  <2>1. Exit(i, "abort") /\ net' \subseteq Packets
    BY SMTT(30), <1>1, <1>3 DEF ServerOK
  <2>2. QED BY SMTT(30), <2>1, ExitType
<1>4. CASE ~fails
  <2> DEFINE file == Files[r.name]
             a == read_ahead(r.buf, r.pos, file, r.blksize, FALSE, err)
             ra == [r EXCEPT !.buf = a.b, !.pos = a.pos]
             q == IF r.block = 0 THEN r ELSE ra
  <2>1. s' = [s EXCEPT ![i] = q] /\ net' = net \cup {r.pkt}
    BY SMTT(30), <1>1, <1>4
  <2>2. file \in Seq(Byte) /\ r.pos \in 0..Len(file)
    BY GetAssumption DEF Serving
  <2>3. r.buf \in BufType(Byte) /\ r.blksize \in Nat
    BY DEF ServerType
  <2>4. a.b \in BufType(Byte) /\ a.pos \in 0..Len(file)
    BY Zenon, <1>2, <2>2, <2>3, ReadAheadType
  <2> HIDE DEF a
  <2>10. a.pos \in Nat
    BY SMTT(30), <2>2, <2>4
  <2>5. ra \in ServerType /\ ra.pkt = r.pkt /\ ra.name = r.name /\ ra.pos = a.pos
    BY Zenon, <2>4, <2>10 DEF ServerType
  <2> HIDE DEF ra
  <2>6. Serving(ra)
    BY SMTT(30), <2>4, <2>5 DEF Serving
  <2>7. q \in ServerType /\ Serving(q)
    BY SMTT(30), <2>5, <2>6
  <2>8. net' \subseteq Packets
    BY <2>1 DEF ServerOK, Serving
  <2> HIDE DEF q
  <2>9. QED BY Zenon, <2>1, <2>7, <2>8, BecomeType
<1>5. QED
  BY SMTT(30), <1>2, <1>3, <1>4

(* Reading a block and sending it keeps the server well formed.            *)
LEMMA SendBlockType ==
  ASSUME ServerOK, NEW i \in Srv, NEW r \in ServerType,
         r.name \in DOMAIN Files, r.pos \in 0..Len(Files[r.name]),
         SendBlock(i, r)
  PROVE  ServerOK'
<1>1. PICK err \in Faulty("read") :
        LET a == readit(r.buf, r.pos, Files[r.name], r.blksize, FALSE, err) IN
        IF ReadFailed(a.b)
        THEN Exit(i, "nak") /\ net' = net \cup {ERROR(i)}
        ELSE SendData(i, [r EXCEPT !.buf = a.b, !.pos = a.pos, !.timeout = 0,
                            !.pkt = DATA(i, r.block, BufData(a.b))])
  BY Zenon DEF SendBlock
<1> DEFINE file == Files[r.name]
           a == readit(r.buf, r.pos, file, r.blksize, FALSE, err)
           d == DATA(i, r.block, BufData(a.b))
           q == [r EXCEPT !.buf = a.b, !.pos = a.pos, !.timeout = 0, !.pkt = d]
<1>2. err \in BOOLEAN
  BY SMTT(30), <1>1, FaultyBool
<1>3. file \in Seq(Byte)
  BY GetAssumption
<1>4. r.buf \in BufType(Byte) /\ r.blksize \in Nat /\ r.block \in Int
  BY DEF ServerType
<1>5. /\ a.b \in BufType(Byte) /\ a.pos \in 0..Len(file)
      /\ BufData(a.b) \in Seq(Byte)
  BY Zenon, <1>2, <1>3, <1>4, ReaditType
<1>6. (Exit(i, "nak") /\ net' = net \cup {ERROR(i)}) \/ SendData(i, q)
  BY Zenon, <1>1
<1> HIDE DEF a
<1>7. d \in Packets
  BY SMTT(30), <1>4, <1>5, PacketType
<1> HIDE DEF d
<1>13. a.pos \in Nat
  BY <1>3, <1>5
<1>8. q \in ServerType /\ q.pkt = d /\ q.name = r.name /\ q.pos = a.pos
  BY ZenonT(40), <1>5, <1>7, <1>13 DEF ServerType
<1> HIDE DEF q
<1>9. Serving(q)
  BY SMTT(30), <1>5, <1>7, <1>8 DEF Serving
<1>10. CASE Exit(i, "nak") /\ net' = net \cup {ERROR(i)}
  <2>1. net' \subseteq Packets
    BY SMTT(30), <1>10, PacketType DEF ServerOK
  <2>2. QED BY SMTT(30), <1>10, <2>1, ExitType
<1>11. CASE SendData(i, q)
  BY SMTT(30), <1>8, <1>9, <1>11, SendDataType
<1>12. QED
  BY SMTT(30), <1>6, <1>10, <1>11

(* A tftpd that has not been started is well formed.                       *)
LEMMA FreshType ==
  Fresh \in ServerType /\ Fresh.pos = 0 /\ Fresh.st = "free"
<1> DEFINE m == MaxTimeouts * TIMEOUT
<1>1. m \in Nat /\ SegSize \in Nat /\ TIMEOUT \in Nat
  BY CommonAssumption
<1>2. r_init \in BufType(Byte)
  BY SMTT(30), InitType
<1>3. Fresh = [st |-> "free", name |-> "none", block |-> 0, blksize |-> SegSize,
               rexmtval |-> TIMEOUT, maxtimeout |-> m, timeout |-> 0,
               pkt |-> NoPacket, buf |-> r_init, pos |-> 0]
  BY DEF Fresh
<1> HIDE DEF m
<1>5. Fresh.pos = 0 /\ Fresh.st = "free"
  BY <1>3
<1>4. QED
  BY SMTT(30), <1>1, <1>2, <1>3, <1>5 DEF ServerType

(* Every step of a server keeps the servers well formed.                   *)
LEMMA ServerStepType ==
  ASSUME TypeOK, NEW i \in Srv, Server(i)
  PROVE  ServerOK' /\ c' = c
<1>1. ServerOK /\ s[i] \in ServerType /\ net \subseteq Packets
  BY DEF TypeOK, ServerOK
<1>2. CASE Start(i)
  <2>1. PICK p \in net :
          /\ p.op = "RRQ"
          /\ LET o == ServerOptions(p)
                 r == [Fresh EXCEPT !.st = "wait", !.name = p.name,
                      !.block = IF o.etftp THEN 0 ELSE 1,
                      !.blksize = o.blksize, !.rexmtval = o.rexmtval,
                      !.maxtimeout = o.maxtimeout]
             IN IF p.name \notin DOMAIN Files
                THEN Exit(i, "nak") /\ net' = net \cup {ERROR(i)}
                ELSE IF o.etftp
                THEN SendData(i, [r EXCEPT !.pkt = OACK(i, p.blksize, o.tout)])
                ELSE SendBlock(i, r)
    BY Zenon, <1>2 DEF Start
  <2> DEFINE o == ServerOptions(p)
             bl == IF o.etftp THEN 0 ELSE 1
             r == [Fresh EXCEPT !.st = "wait", !.name = p.name, !.block = bl,
                      !.blksize = o.blksize, !.rexmtval = o.rexmtval,
                      !.maxtimeout = o.maxtimeout]
             pk == OACK(i, p.blksize, o.tout)
             ro == [r EXCEPT !.pkt = pk]
  <2>2. p.name \in STRING /\ p.blksize \in Nat /\ p.timeout \in Int
    BY SMTT(30), <1>1, <2>1 DEF Packets, Request, Reply
  <2>3. /\ o.blksize \in Nat /\ o.rexmtval \in Nat /\ o.maxtimeout \in Nat
        /\ o.tout \in Nat
    BY SMTT(30), <2>2, CommonAssumption DEF ServerOptions
  <2>4. \/ Exit(i, "nak") /\ net' = net \cup {ERROR(i)}
        \/ p.name \in DOMAIN Files /\ (SendData(i, ro) \/ SendBlock(i, r))
    BY Zenon, <2>1
  <2>5. bl \in Nat
    OBVIOUS
  <2>6. Fresh \in ServerType /\ Fresh.pos = 0
    BY FreshType
  <2> HIDE DEF o, bl
  <2>7. r \in ServerType /\ r.name = p.name /\ r.pos = 0
    BY Zenon, <2>2, <2>3, <2>5, <2>6 DEF ServerType
  <2>8. pk \in Packets
    BY ZenonT(40), <2>2, <2>3, PacketType
  <2> HIDE DEF r, pk
  <2>9. ro \in ServerType /\ ro.name = p.name /\ ro.pos = 0 /\ ro.pkt = pk
    BY SMTT(30), <2>7, <2>8 DEF ServerType
  <2> HIDE DEF ro
  <2>10. CASE Exit(i, "nak") /\ net' = net \cup {ERROR(i)}
    <3>1. net' \subseteq Packets
      BY SMTT(30), <1>1, <2>10, PacketType
    <3>2. QED BY SMTT(30), <1>1, <1>2, <2>10, <3>1, ExitType DEF Start
  <2>11. CASE p.name \in DOMAIN Files /\ (SendData(i, ro) \/ SendBlock(i, r))
    <3>1. 0 \in 0..Len(Files[p.name])
      BY SMTT(30), <2>11, GetAssumption
    <3>2. Serving(ro)
      BY SMTT(30), <2>8, <2>9, <2>11, <3>1 DEF Serving
    <3>3. QED
      BY SMTT(30), <1>1, <1>2, <2>7, <2>9, <2>11, <3>1, <3>2, SendDataType, SendBlockType
         DEF Start
  <2>12. QED BY SMTT(30), <2>4, <2>10, <2>11
<1>3. CASE ServerRecv(i)
  <2>1. PICK p \in net : p.op = "ACK" /\ (GotAck(i, p) \/ StaleAck(i, p))
    BY <1>3 DEF ServerRecv
  <2>2. s[i].st = "wait" /\ Serving(s[i])
    BY <2>1 DEF GotAck, StaleAck, TypeOK
  <2>3. CASE GotAck(i, p)
    <3> DEFINE bl == s[i].block + 1
               bu == IF s[i].block = 0 THEN r_init ELSE s[i].buf
               r == [s[i] EXCEPT !.block = bl, !.buf = bu]
    <3>1. bl \in Nat /\ bu \in BufType(Byte)
      BY <1>1, InitType DEF ServerType
    <3>2. c' = c /\ (SendBlock(i, r) \/ (Exit(i, "done") /\ net' = net))
      BY <2>3 DEF GotAck
    <3> HIDE DEF bl, bu
    <3>3. r \in ServerType /\ r.name = s[i].name /\ r.pos = s[i].pos
      BY Zenon, <1>1, <3>1 DEF ServerType
    <3> HIDE DEF r
    <3>4. CASE SendBlock(i, r)
      BY SMTT(30), <1>1, <2>2, <3>2, <3>3, <3>4, SendBlockType DEF Serving
    <3>5. CASE Exit(i, "done") /\ net' = net
      BY SMTT(30), <1>1, <3>2, <3>5, ExitType
    <3>6. QED BY SMTT(30), <3>2, <3>4, <3>5
  <2>4. CASE StaleAck(i, p)
    BY SMTT(30), <1>1, <2>2, <2>4, SendDataType DEF StaleAck
  <2>5. QED BY SMTT(30), <2>1, <2>3, <2>4
<1>4. CASE Refused(i)
  <2>1. Exit(i, "abort") /\ net' \subseteq Packets /\ c' = c
    BY SMTT(30), <1>1, <1>4 DEF Refused
  <2>2. QED BY SMTT(30), <1>1, <2>1, ExitType
<1>5. CASE ServerTimer(i)
  <2> DEFINE t == Elapsed(s[i])
             r == [s[i] EXCEPT !.timeout = t]
  <2>1. c' = c /\ ((Exit(i, "timeout") /\ net' = net) \/ SendData(i, r))
    BY <1>5 DEF ServerTimer
  <2>2. t \in Nat
    BY <1>1 DEF ServerType, Elapsed
  <2> HIDE DEF t
  <2>3. /\ r \in ServerType /\ r.pkt = s[i].pkt /\ r.name = s[i].name
        /\ r.pos = s[i].pos
    BY <1>1, <2>2 DEF ServerType
  <2> HIDE DEF r
  <2>4. Serving(r)
    BY <1>5, <2>3 DEF ServerTimer, TypeOK, Serving
  <2>5. CASE Exit(i, "timeout") /\ net' = net
    BY SMTT(30), <1>1, <2>1, <2>5, ExitType
  <2>6. CASE SendData(i, r)
    BY SMTT(30), <1>1, <2>1, <2>3, <2>4, <2>6, SendDataType
  <2>7. QED BY SMTT(30), <2>1, <2>5, <2>6
<1>6. QED
  BY SMTT(30), <1>2, <1>3, <1>4, <1>5 DEF Server

(* Type correctness of the whole of get: client, servers and network stay  *)
(* well formed, and a running tftpd always has a packet to repeat and an   *)
(* offset within its file (the timer may go off at any time).              *)
THEOREM TypeCorrect == Spec => []TypeOK
<1>1. Init => TypeOK
  <2> SUFFICES ASSUME Init PROVE TypeOK
    OBVIOUS
  <2>1. c \in ClientType /\ c.st = "idle"
    BY CommonAssumption, InitType DEF Init, ClientType
  <2>2. Fresh \in ServerType /\ Fresh.st = "free"
    BY FreshType
  <2>3. QED
    BY SMTT(30), <2>1, <2>2 DEF Init, TypeOK
<1>2. TypeOK /\ [Next]_vars => TypeOK'
  <2> SUFFICES ASSUME TypeOK, [Next]_vars PROVE TypeOK'
    OBVIOUS
  <2>1. CASE Client
    BY SMTT(30), <2>1, ClientStepType DEF ClientOK, TypeOK
  <2>2. CASE \E i \in Srv : Server(i)
    BY <2>2, ServerStepType DEF ServerOK, TypeOK
  <2>3. CASE UNCHANGED vars
    BY <2>3 DEF vars, TypeOK
  <2>4. QED BY SMTT(30), <2>1, <2>2, <2>3 DEF Next
<1>3. QED
  BY <1>1, <1>2, PTL DEF Spec

-----------------------------------------------------------------------------
(* What the steps of recvfile and xmitfile do, and their lock step: one    *)
(* get from a fresh socket, as long as block numbers do not wrap around.   *)

\* A tftpd that waits has nothing of the file yet (it has sent an OACK), or
\* has sent the block it is at and reads ahead.
Working(i, r) ==
  /\ r.block = 0 => r.buf = r_init /\ r.pos = 0
  /\ r.block > 0 =>
       /\ r.pkt = DATA(i, r.block, Block(Files[r.name], r.blksize, r.block))
       /\ Ahead(r.buf, r.pos, Files[r.name], r.blksize, r.block)

\* What one step of tftpd i can do to its place in the file, its last packet
\* and the network: exit, send the last packet again, start, or go on to the
\* next block because the last one was acknowledged.
Keeps(i) == s'[i].name = s[i].name /\ s'[i].blksize = s[i].blksize
Acked(i) == \E p \in net : p.op = "ACK" /\ p.srv = i /\ p.block = Wire(s[i].block)

Stops(i) ==
  /\ s'[i].st \notin {"free", "wait"} /\ s'[i].block = s[i].block /\ Keeps(i)
  /\ net' \in {net, net \cup {ERROR(i)}}
  /\ net' # net => s'[i].st = "nak"
  /\ s'[i].st = "done" =>
       /\ s[i].st = "wait" /\ s[i].block # 0 /\ Acked(i)
       /\ BufCount(s[i].buf) # s[i].blksize
Repeats(i) ==
  /\ s[i].st = "wait" /\ s'[i].st = "wait" /\ Keeps(i)
  /\ s'[i].block = s[i].block /\ s'[i].pkt = s[i].pkt
  /\ Working(i, s[i]) => Working(i, s'[i])
  /\ net' = net \cup {s[i].pkt}
Sends(i, k) ==
  /\ s'[i].st = "wait" /\ s'[i].block = k
  /\ net' = net \cup {s'[i].pkt}
  /\ \E d \in Seq(Byte) : s'[i].pkt = DATA(i, k, d)
Offers(i, p) ==
  /\ s'[i].st = "wait" /\ s'[i].block = 0
  /\ net' = net \cup {s'[i].pkt}
  /\ s'[i].pkt = OACK(i, p.blksize, ServerOptions(p).tout)
Starts(i, p) ==
  /\ s[i].st = "free" /\ p.op = "RRQ" /\ p.name \in DOMAIN Files
  /\ s'[i].name = p.name /\ s'[i].blksize = ServerOptions(p).blksize
  /\ Working(i, s'[i])
  /\ \/ ServerOptions(p).etftp /\ Offers(i, p)
     \/ ~ServerOptions(p).etftp /\ Sends(i, 1)
GoesOn(i) ==
  /\ s[i].st = "wait" /\ Acked(i) /\ Keeps(i) /\ Sends(i, s[i].block + 1)
  /\ s[i].block # 0 => BufCount(s[i].buf) = s[i].blksize
  /\ Working(i, s[i]) => Working(i, s'[i])
ServerEffect(i) ==
  /\ \A j \in Srv \ {i} : s'[j] = s[j]
  /\ Stops(i) \/ Repeats(i) \/ GoesOn(i) \/ \E p \in net : Starts(i, p)

(* A tftpd that exits changes nothing but its own state.                   *)
LEMMA ExitEffect ==
  ASSUME ServerOK, NEW i \in Srv, NEW status \in {"done", "nak", "abort", "timeout"},
         Exit(i, status), net' \in {net, net \cup {ERROR(i)}},
         net' # net => status = "nak",
         status = "done" => /\ s[i].st = "wait" /\ s[i].block # 0 /\ Acked(i)
                            /\ BufCount(s[i].buf) # s[i].blksize
  PROVE  (\A j \in Srv \ {i} : s'[j] = s[j]) /\ Stops(i)
<1>1. s[i] \in ServerType
  BY DEF ServerOK
<1>2. s'[i] = [s[i] EXCEPT !.st = status] /\ \A j \in Srv \ {i} : s'[j] = s[j]
  BY DEF Exit, ServerOK
<1>3. s'[i].st = status /\ s'[i].block = s[i].block /\ Keeps(i)
  BY SMTT(30), <1>1, <1>2 DEF ServerType, Keeps
<1>4. QED
  BY SMTT(30), <1>2, <1>3 DEF Stops

\* What send_data is entered with: an OACK, or a block just taken or sent
\* before.
Ready(i, r) ==
  /\ r.block = 0 => r.buf = r_init /\ r.pos = 0
  /\ r.block > 0 =>
       /\ r.pkt = DATA(i, r.block, Block(Files[r.name], r.blksize, r.block))
       /\ \/ Taken(r.buf, r.pos, Files[r.name], r.blksize, r.block)
          \/ Ahead(r.buf, r.pos, Files[r.name], r.blksize, r.block)

(* send_data sends the packet or gives up; its place in the file is the    *)
(* one it was entered with, and it reads ahead.                            *)
LEMMA SendDataEffect ==
  ASSUME ServerOK, NEW i \in Srv, NEW r \in ServerType, r.name \in DOMAIN Files,
         SendData(i, r)
  PROVE  /\ \A j \in Srv \ {i} : s'[j] = s[j]
         /\ \/ Stops(i)
            \/ /\ s'[i].st = r.st /\ s'[i].block = r.block
               /\ s'[i].name = r.name /\ s'[i].blksize = r.blksize
               /\ s'[i].pkt = r.pkt /\ net' = net \cup {r.pkt}
               /\ Ready(i, r) => Working(i, s'[i])
<1>1. PICK fails \in Faulty("send"), err \in Faulty("read") :
        IF fails
        THEN Exit(i, "abort") /\ UNCHANGED net
        ELSE LET a == read_ahead(r.buf, r.pos, Files[r.name], r.blksize, FALSE, err)
             IN /\ s' = [s EXCEPT ![i] =
                           IF r.block = 0 THEN r
                           ELSE [r EXCEPT !.buf = a.b, !.pos = a.pos]]
                /\ net' = net \cup {r.pkt}
  BY Zenon DEF SendData
<1>2. fails \in BOOLEAN /\ err \in BOOLEAN
  BY <1>1, FaultyBool
<1>3. CASE fails
  BY SMTT(30), <1>1, <1>3, ExitEffect
<1>4. CASE ~fails
  <2> DEFINE file == Files[r.name]
             a == read_ahead(r.buf, r.pos, file, r.blksize, FALSE, err)
             ra == [r EXCEPT !.buf = a.b, !.pos = a.pos]
             q == IF r.block = 0 THEN r ELSE ra
  <2>1. s' = [s EXCEPT ![i] = q] /\ net' = net \cup {r.pkt}
    BY SMTT(30), <1>1, <1>4
  <2>2. /\ file \in Seq(Byte) /\ r.buf \in BufType(Byte) /\ r.blksize \in Nat
        /\ r.block \in Nat
    BY GetAssumption DEF ServerType
  <2>3. ASSUME r.block # 0, Ready(i, r)
        PROVE  Ahead(a.b, a.pos, file, r.blksize, r.block)
    <3>1. r.block \in Nat \ {0} /\ r.block > 0
      BY <2>2, <2>3
    <3>2. \/ Taken(r.buf, r.pos, file, r.blksize, r.block)
          \/ Ahead(r.buf, r.pos, file, r.blksize, r.block)
      BY <2>3, <3>1 DEF Ready
    <3> HIDE DEF file
    <3>3. QED BY Zenon, <1>2, <2>2, <3>1, <3>2, ReadAheadKeeps
  <2> HIDE DEF a
  <2>4. /\ ra.st = r.st /\ ra.block = r.block /\ ra.pkt = r.pkt
        /\ ra.name = r.name /\ ra.blksize = r.blksize
        /\ ra.buf = a.b /\ ra.pos = a.pos
    BY DEF ServerType
  <2> HIDE DEF ra
  <2>5. /\ q.st = r.st /\ q.block = r.block /\ q.pkt = r.pkt
        /\ q.name = r.name /\ q.blksize = r.blksize
    BY <2>4
  <2>6. Ready(i, r) => Working(i, q)
    <3>1. CASE r.block = 0
      BY <3>1 DEF Ready, Working
    <3>2. CASE r.block # 0
      BY <2>2, <2>3, <2>4, <3>2 DEF Ready, Working
    <3>3. QED BY <3>1, <3>2
  <2> HIDE DEF q
  <2>7. s'[i] = q /\ \A j \in Srv \ {i} : s'[j] = s[j]
    BY <2>1 DEF ServerOK
  <2>8. QED BY SMTT(30), <2>1, <2>5, <2>6, <2>7
<1>5. QED
  BY SMTT(30), <1>2, <1>3, <1>4

\* What the loop of xmitfile is entered with at block k: a fresh buffer, or
\* the block before, just acknowledged.
Entered(r) ==
  \/ r.block = 1 /\ r.buf = r_init /\ r.pos = 0
  \/ \E k \in Nat \ {0} : /\ r.block = k + 1
                          /\ Ahead(r.buf, r.pos, Files[r.name], r.blksize, k)

(* The top of the loop of xmitfile sends the block it was entered with.    *)
LEMMA SendBlockEffect ==
  ASSUME ServerOK, NEW i \in Srv, NEW r \in ServerType, r.st = "wait",
         r.name \in DOMAIN Files, r.pos \in 0..Len(Files[r.name]), r.block > 0,
         SendBlock(i, r)
  PROVE  /\ \A j \in Srv \ {i} : s'[j] = s[j]
         /\ \/ Stops(i)
            \/ /\ Sends(i, r.block)
               /\ s'[i].name = r.name /\ s'[i].blksize = r.blksize
               /\ Entered(r) => Working(i, s'[i])
<1>1. PICK err \in Faulty("read") :
        LET a == readit(r.buf, r.pos, Files[r.name], r.blksize, FALSE, err) IN
        IF ReadFailed(a.b)
        THEN Exit(i, "nak") /\ net' = net \cup {ERROR(i)}
        ELSE SendData(i, [r EXCEPT !.buf = a.b, !.pos = a.pos, !.timeout = 0,
                            !.pkt = DATA(i, r.block, BufData(a.b))])
  BY Zenon DEF SendBlock
<1> DEFINE file == Files[r.name]
           a == readit(r.buf, r.pos, file, r.blksize, FALSE, err)
           d == DATA(i, r.block, BufData(a.b))
           q == [r EXCEPT !.buf = a.b, !.pos = a.pos, !.timeout = 0, !.pkt = d]
<1>2. err \in BOOLEAN
  BY SMTT(30), <1>1, FaultyBool
<1>3. file \in Seq(Byte)
  BY GetAssumption
<1>4. r.buf \in BufType(Byte) /\ r.blksize \in Nat /\ r.block \in Int
  BY DEF ServerType
<1>5. /\ a.b \in BufType(Byte) /\ a.pos \in 0..Len(file)
      /\ BufData(a.b) \in Seq(Byte)
  BY <1>2, <1>3, <1>4, ReaditType, Zenon
<1>6. \/ Exit(i, "nak") /\ net' = net \cup {ERROR(i)}
      \/ ~ReadFailed(a.b) /\ SendData(i, q)
  BY <1>1, Zenon
<1>7. ASSUME Entered(r), ~ReadFailed(a.b)
      PROVE  Taken(a.b, a.pos, file, r.blksize, r.block)
  <2>1. BufCount(a.b) # -1
    <3> DEFINE n == BufCount(a.b)
    <3>1. ~(n < 0)
      BY Zenon, <1>7 DEF ReadFailed
    <3> HIDE DEF n
    <3>2. n # -1
      BY <3>1
    <3>3. QED BY Zenon, <3>2 DEF n
  <2>2. CASE r.block = 1 /\ r.buf = r_init /\ r.pos = 0
    <3> DEFINE f == readit(r_init, 0, file, r.blksize, FALSE, err)
    <3>1. BufCount(f.b) = -1 \/ Taken(f.b, f.pos, file, r.blksize, 1)
      BY <1>2, <1>3, <1>4, ReaditFirst, Zenon
    <3>2. f = a
      BY <2>2
    <3> HIDE DEF f, a
    <3>3. QED BY <2>1, <2>2, <3>1, <3>2
  <2>3. CASE \E k \in Nat \ {0} : /\ r.block = k + 1
                                  /\ Ahead(r.buf, r.pos, file, r.blksize, k)
    <3>1. PICK k \in Nat \ {0} : /\ r.block = k + 1
                                 /\ Ahead(r.buf, r.pos, file, r.blksize, k)
      BY <2>3
    <3>2. BufCount(a.b) = -1 \/ Taken(a.b, a.pos, file, r.blksize, k + 1)
      BY <1>2, <1>3, <1>4, <3>1, ReaditNext, Zenon
    <3> HIDE DEF a
    <3>3. QED BY <2>1, <3>1, <3>2
  <2>4. QED BY Zenon, <1>7, <2>2, <2>3 DEF Entered
<1> HIDE DEF a
<1>8. d \in Packets /\ \E x \in Seq(Byte) : d = DATA(i, r.block, x)
  BY <1>4, <1>5, PacketType, Zenon
<1>9. a.pos \in Nat
  BY <1>3, <1>5
<1> HIDE DEF d
<1>10. /\ q \in ServerType /\ q.pkt = d /\ q.block = r.block /\ q.st = "wait"
       /\ q.name = r.name /\ q.blksize = r.blksize
       /\ q.buf = a.b /\ q.pos = a.pos
  BY <1>5, <1>8, <1>9, Zenon DEF ServerType
<1> HIDE DEF q
<1>11. Entered(r) /\ ~ReadFailed(a.b) => Ready(i, q)
  BY SMTT(30), <1>7, <1>10 DEF Ready, Taken, Holds, d
<1> HIDE DEF file
<1>12. CASE Exit(i, "nak") /\ net' = net \cup {ERROR(i)}
  BY SMTT(30), <1>12, ExitEffect
<1>13. CASE ~ReadFailed(a.b) /\ SendData(i, q)
  <2>1. /\ \A j \in Srv \ {i} : s'[j] = s[j]
        /\ \/ Stops(i)
           \/ /\ s'[i].st = q.st /\ s'[i].block = q.block
              /\ s'[i].name = q.name /\ s'[i].blksize = q.blksize
              /\ s'[i].pkt = q.pkt /\ net' = net \cup {q.pkt}
              /\ Ready(i, q) => Working(i, s'[i])
    BY SMTT(30), <1>10, <1>13, SendDataEffect
  <2>2. QED BY SMTT(30), <1>8, <1>10, <1>11, <1>13, <2>1 DEF Sends
<1>14. QED
  BY SMTT(30), <1>6, <1>12, <1>13

(* Every step of a tftpd is one of the four kinds.                         *)
LEMMA ServerStepEffect ==
  ASSUME TypeOK, NEW i \in Srv, Server(i)
  PROVE  ServerEffect(i)
<1>1. ServerOK /\ s[i] \in ServerType /\ net \subseteq Packets
  BY DEF TypeOK, ServerOK
<1>2. CASE Start(i)
  <2>1. PICK p \in net :
          /\ p.op = "RRQ"
          /\ LET o == ServerOptions(p)
                 r == [Fresh EXCEPT !.st = "wait", !.name = p.name,
                      !.block = IF o.etftp THEN 0 ELSE 1,
                      !.blksize = o.blksize, !.rexmtval = o.rexmtval,
                      !.maxtimeout = o.maxtimeout]
             IN IF p.name \notin DOMAIN Files
                THEN Exit(i, "nak") /\ net' = net \cup {ERROR(i)}
                ELSE IF o.etftp
                THEN SendData(i, [r EXCEPT !.pkt = OACK(i, p.blksize, o.tout)])
                ELSE SendBlock(i, r)
    BY <1>2, Zenon DEF Start
  <2> DEFINE o == ServerOptions(p)
             bl == IF o.etftp THEN 0 ELSE 1
             r == [Fresh EXCEPT !.st = "wait", !.name = p.name, !.block = bl,
                      !.blksize = o.blksize, !.rexmtval = o.rexmtval,
                      !.maxtimeout = o.maxtimeout]
             pk == OACK(i, p.blksize, o.tout)
             ro == [r EXCEPT !.pkt = pk]
  <2>2. p.name \in STRING /\ p.blksize \in Nat /\ p.timeout \in Int
    BY SMTT(30), <1>1, <2>1 DEF Packets, Request, Reply
  <2>3. /\ o.blksize \in Nat /\ o.rexmtval \in Nat /\ o.maxtimeout \in Nat
        /\ o.tout \in Nat
    BY <2>2, CommonAssumption DEF ServerOptions
  <2>4. \/ Exit(i, "nak") /\ net' = net \cup {ERROR(i)}
        \/ p.name \in DOMAIN Files /\ SendData(i, ro) /\ o.etftp /\ bl = 0
        \/ p.name \in DOMAIN Files /\ SendBlock(i, r) /\ ~o.etftp /\ bl = 1
    BY <2>1, Zenon
  <2>5. bl \in Nat
    OBVIOUS
  <2>6. /\ Fresh \in ServerType /\ Fresh.pos = 0 /\ Fresh.buf = r_init
        /\ s[i].st = "free"
    BY SMTT(30), <1>2, FreshType DEF Start, Fresh
  <2> HIDE DEF o, bl
  <2>7. /\ r \in ServerType /\ r.name = p.name /\ r.pos = 0 /\ r.buf = r_init
        /\ r.block = bl /\ r.st = "wait" /\ r.blksize = o.blksize
    BY <2>2, <2>3, <2>5, <2>6, Zenon DEF ServerType
  <2>8. pk \in Packets
    BY <2>2, <2>3, PacketType, Zenon
  <2> HIDE DEF r, pk
  <2>9. /\ ro \in ServerType /\ ro.pkt = pk /\ ro.block = bl /\ ro.st = "wait"
        /\ ro.name = p.name /\ ro.blksize = o.blksize
        /\ ro.pos = 0 /\ ro.buf = r_init
    BY SMTT(30), <2>7, <2>8 DEF ServerType
  <2> HIDE DEF ro
  <2>10. CASE Exit(i, "nak") /\ net' = net \cup {ERROR(i)}
    BY SMTT(30), <1>1, <2>10, ExitEffect DEF ServerEffect
  <2>11. CASE p.name \in DOMAIN Files /\ SendData(i, ro) /\ o.etftp /\ bl = 0
    <3>1. Ready(i, ro)
      BY <2>9, <2>11 DEF Ready
    <3>2. /\ \A j \in Srv \ {i} : s'[j] = s[j]
          /\ \/ Stops(i)
             \/ /\ s'[i].st = ro.st /\ s'[i].block = ro.block
                /\ s'[i].name = ro.name /\ s'[i].blksize = ro.blksize
                /\ s'[i].pkt = ro.pkt /\ net' = net \cup {ro.pkt}
                /\ Working(i, s'[i])
      BY SMTT(30), <1>1, <2>9, <2>11, <3>1, SendDataEffect
    <3>3. Stops(i) \/ Starts(i, p)
      BY SMTT(30), <2>1, <2>6, <2>9, <2>11, <3>2 DEF Starts, Offers, pk, o
    <3>4. QED BY SMTT(30), <2>1, <3>2, <3>3 DEF ServerEffect
  <2>12. CASE p.name \in DOMAIN Files /\ SendBlock(i, r) /\ ~o.etftp /\ bl = 1
    <3>1. r.pos \in 0..Len(Files[p.name]) /\ r.block > 0 /\ Entered(r)
      BY SMTT(30), <2>7, <2>12, GetAssumption DEF Entered
    <3>2. /\ \A j \in Srv \ {i} : s'[j] = s[j]
          /\ \/ Stops(i)
             \/ /\ Sends(i, r.block)
                /\ s'[i].name = r.name /\ s'[i].blksize = r.blksize
                /\ Working(i, s'[i])
      BY SMTT(30), <1>1, <2>7, <2>12, <3>1, SendBlockEffect
    <3>3. Stops(i) \/ Starts(i, p)
      BY SMTT(30), <2>1, <2>6, <2>7, <2>12, <3>2 DEF Starts, o
    <3>4. QED BY SMTT(30), <2>1, <3>2, <3>3 DEF ServerEffect
  <2>13. QED BY SMTT(30), <2>4, <2>10, <2>11, <2>12
<1>3. CASE ServerRecv(i)
  <2>1. PICK p \in net : p.op = "ACK" /\ (GotAck(i, p) \/ StaleAck(i, p))
    BY <1>3 DEF ServerRecv
  <2>2. /\ s[i].st = "wait" /\ Serving(s[i]) /\ p.srv = i
        /\ s[i].block \in Nat /\ s[i].name \in DOMAIN Files
    BY <1>1, <2>1 DEF GotAck, StaleAck, TypeOK, ServerType, Serving
  <2>3. CASE GotAck(i, p)
    <3> DEFINE bl == s[i].block + 1
               bu == IF s[i].block = 0 THEN r_init ELSE s[i].buf
               r == [s[i] EXCEPT !.block = bl, !.buf = bu]
    <3>1. bl \in Nat /\ bl > 0 /\ bu \in BufType(Byte)
      BY SMTT(30), <1>1, <2>2, InitType DEF ServerType
    <3>2. /\ Acked(i)
          /\ \/ /\ SendBlock(i, r)
                /\ s[i].block # 0 => BufCount(s[i].buf) = s[i].blksize
             \/ /\ Exit(i, "done") /\ net' = net
                /\ s[i].block # 0 /\ BufCount(s[i].buf) # s[i].blksize
      BY SMTT(30), <2>1, <2>2, <2>3 DEF GotAck, AckOfBlock, Acked
    <3>3. /\ s[i].block = 0 => bu = r_init
          /\ s[i].block # 0 => bu = s[i].buf
      OBVIOUS
    <3> HIDE DEF bl, bu
    <3>4. /\ r \in ServerType /\ r.name = s[i].name /\ r.pos = s[i].pos
          /\ r.block = bl /\ r.st = "wait" /\ r.buf = bu
          /\ r.blksize = s[i].blksize
      BY <1>1, <2>2, <3>1, ZenonT(40) DEF ServerType
    <3> HIDE DEF r
    <3>5. Working(i, s[i]) => Entered(r)
      <4>1. CASE s[i].block = 0
        BY SMTT(30), <3>3, <3>4, <4>1 DEF Working, Entered, bl
      <4>2. CASE s[i].block # 0
        <5>1. s[i].block \in Nat \ {0} /\ s[i].block > 0
          BY <2>2, <4>2
        <5>2. QED BY <3>3, <3>4, <4>2, <5>1 DEF Working, Entered, bl
      <4>3. QED BY <4>1, <4>2
    <3>6. CASE /\ SendBlock(i, r)
               /\ s[i].block # 0 => BufCount(s[i].buf) = s[i].blksize
      <4>1. /\ \A j \in Srv \ {i} : s'[j] = s[j]
            /\ \/ Stops(i)
               \/ /\ Sends(i, r.block)
                  /\ s'[i].name = r.name /\ s'[i].blksize = r.blksize
                  /\ Entered(r) => Working(i, s'[i])
        BY Zenon, <1>1, <2>2, <3>1, <3>4, <3>6, SendBlockEffect DEF Serving
      <4>2. Stops(i) \/ GoesOn(i)
        BY Zenon, <2>2, <3>2, <3>4, <3>5, <3>6, <4>1 DEF GoesOn, Keeps, bl
      <4>3. QED BY <4>1, <4>2 DEF ServerEffect
    <3>7. CASE /\ Exit(i, "done") /\ net' = net
               /\ s[i].block # 0 /\ BufCount(s[i].buf) # s[i].blksize
      BY Zenon, <1>1, <2>2, <3>2, <3>7, ExitEffect DEF ServerEffect
    <3>8. QED BY SMTT(30), <3>2, <3>6, <3>7
  <2>4. CASE StaleAck(i, p)
    <3>1. Working(i, s[i]) => Ready(i, s[i])
      BY Zenon DEF Working, Ready
    <3>2. /\ \A j \in Srv \ {i} : s'[j] = s[j]
          /\ Stops(i) \/ Repeats(i)
      BY SMTT(30), <1>1, <2>2, <2>4, <3>1, SendDataEffect DEF StaleAck, Repeats, Keeps
    <3>3. QED BY <3>2 DEF ServerEffect
  <2>5. QED BY SMTT(30), <2>1, <2>3, <2>4
<1>4. CASE Refused(i)
  <2>1. Exit(i, "abort") /\ net' = net
    BY <1>4 DEF Refused
  <2>2. QED BY SMTT(30), <1>1, <2>1, ExitEffect DEF ServerEffect
<1>5. CASE ServerTimer(i)
  <2> DEFINE t == Elapsed(s[i])
             r == [s[i] EXCEPT !.timeout = t]
  <2>1. s[i].st = "wait" /\ ((Exit(i, "timeout") /\ net' = net) \/ SendData(i, r))
    BY <1>5 DEF ServerTimer
  <2>2. t \in Nat
    BY <1>1 DEF ServerType, Elapsed
  <2> HIDE DEF t
  <2>3. /\ r \in ServerType /\ r.pkt = s[i].pkt /\ r.block = s[i].block
        /\ r.st = s[i].st /\ r.name = s[i].name /\ r.blksize = s[i].blksize
        /\ r.buf = s[i].buf /\ r.pos = s[i].pos
    BY SMTT(30), <1>1, <2>2 DEF ServerType
  <2> HIDE DEF r
  <2>4. CASE Exit(i, "timeout") /\ net' = net
    BY SMTT(30), <1>1, <2>4, ExitEffect DEF ServerEffect
  <2>5. CASE SendData(i, r)
    <3>1. Working(i, s[i]) => Ready(i, r)
      BY <2>3 DEF Working, Ready
    <3>2. r.name \in DOMAIN Files
      BY SMTT(30), <2>1, <2>3 DEF TypeOK, Serving
    <3>3. /\ \A j \in Srv \ {i} : s'[j] = s[j]
          /\ Stops(i) \/ Repeats(i)
      BY SMTT(30), <1>1, <2>1, <2>3, <2>5, <3>1, <3>2, SendDataEffect DEF Repeats, Keeps
    <3>4. QED BY SMTT(30), <3>3 DEF ServerEffect
  <2>6. QED BY SMTT(30), <2>1, <2>4, <2>5
<1>6. QED
  BY SMTT(30), <1>2, <1>3, <1>4, <1>5 DEF Server

-----------------------------------------------------------------------------
\* What write_behind() does to the client's file.
Flushes(cc, f) ==
  /\ f.werr => cc.werr \/ "write" \in Faults
  /\ cc.werr => f.werr
  /\ Clean(cc.buf) => Clean(f.buf) /\ f.disk = cc.disk
  /\ \A d \in Seq(Byte) : Pending(cc.buf, d) =>
       Clean(f.buf) /\ (~f.werr => f.disk = cc.disk \o d)
SamePlace(cc, f) ==
  /\ f.job = cc.job /\ f.block = cc.block /\ f.serv = cc.serv /\ f.pkt = cc.pkt
  /\ f.oack = cc.oack /\ f.readlen = cc.readlen /\ f.blksize = cc.blksize

\* A step of the client that has written d by its end, unless a write failed.
Stores(d) ==
  /\ c'.werr => c.werr \/ "write" \in Faults
  /\ c.werr => c'.werr
  /\ Clean(c.buf) => Clean(c'.buf) /\ (~c'.werr => c'.disk = c.disk \o d)
\* The get ends with this status.
Logs(status) ==
  /\ c'.st = "idle"
  /\ got' = Append(got, [name |-> Jobs[c'.job], status |-> status,
                         serv |-> c'.serv, disk |-> c'.disk, werr |-> c'.werr])
\* send_ack: the packet is sent, or the get ends because it cannot be.
Sent == \/ c'.st = "wait" /\ got' = got /\ net' = net \cup {c'.pkt}
        \/ /\ "send" \in Faults /\ Logs("sendto")
           /\ net' = net \cup (IF c'.serv = NoSrv THEN {}
                              ELSE {ACK(c'.serv, c'.block)})

\* What one step of the client can do to its place in the transfer: nothing,
\* ask for a file, give up, send its last packet again, take the next block,
\* or accept the server's options.
Idles ==
  /\ c.st # "wait" /\ c'.st # "wait" /\ c'.job = c.job /\ net' = net /\ got' = got
  /\ c'.block = c.block /\ c'.buf = c.buf /\ c'.disk = c.disk
Asks ==
  /\ c.st # "wait" /\ c.job < Len(Jobs) /\ c'.job = c.job + 1
  /\ c'.block = 1 /\ c'.serv = NoSrv /\ ~c'.oack /\ c'.readlen = SegSize
  /\ Clean(c'.buf) /\ c'.disk = <<>> /\ (c'.werr => "write" \in Faults)
  /\ c'.pkt.op = "RRQ" /\ c'.pkt.name = Jobs[c'.job]
  /\ Sent
GivesUp ==
  /\ c.st = "wait" /\ c'.job = c.job /\ c'.block = c.block
  /\ c'.blksize = c.blksize /\ Stores(<<>>)
  /\ \/ (Logs("timeout") \/ Logs("intr")) /\ net' = net
     \/ /\ Logs("error")
        /\ \E p \in net : p.op = "ERROR" /\ net' = net \cup {ACK(p.srv, c.block)}
Again ==
  /\ c.st = "wait" /\ c'.job = c.job /\ c'.block = c.block
  /\ c'.serv = c.serv /\ c'.pkt = c.pkt /\ c'.blksize = c.blksize
  /\ Registers = {} => c'.oack = c.oack /\ c'.readlen = c.readlen
  /\ Stores(<<>>) /\ Sent

\* What recvfrom() delivers of a packet, and the block size once the first
\* block has shown whether there was an OACK.
Clip(p) == SubSeq(p.data, 1, IF c.readlen < Len(p.data) THEN c.readlen
                             ELSE Len(p.data))
Settled == IF c.block = 1 /\ ~c.oack THEN SegSize ELSE c.blksize

Takes(p) ==
  /\ p.op = "DATA" /\ FromServer(p) /\ p.block = Wire(c.block)
  /\ c'.job = c.job /\ c'.serv = p.srv /\ c'.blksize = Settled
  /\ Stores(Clip(p))
  /\ \/ /\ Len(Clip(p)) = Settled /\ c'.block = c.block + 1
        /\ c'.readlen = Settled /\ c'.pkt = ACK(p.srv, c.block) /\ Sent
     \/ /\ Len(Clip(p)) # Settled /\ c'.block = c.block
        /\ Logs("ok") /\ net' = net \cup {ACK(p.srv, c.block)}
Accepts(p) ==
  /\ p.op = "OACK" /\ FromServer(p) /\ c.block = 1
  /\ c'.job = c.job /\ c'.block = 1 /\ c'.serv = p.srv
  /\ c'.oack /\ c'.pkt = ACK(p.srv, 0) /\ c'.readlen = c'.blksize
  /\ c'.blksize = IF p.blksize = 0 THEN SegSize ELSE p.blksize
  /\ Stores(<<>>) /\ Sent
ClientEffect ==
  Idles \/ Asks \/ GivesUp \/ Again \/ \E p \in net : Takes(p) \/ Accepts(p)

(* It fails only if such calls can fail.                                   *)
LEMMA FaultyTrue == \A k : TRUE \in Faulty(k) => k \in Faults
  BY Zenon DEF Faulty

(* write_behind writes what waits to be written and does not change the    *)
(* client's place in the transfer.                                         *)
LEMMA WriteBehindEffect ==
  ASSUME NEW cc \in ClientType, NEW err \in Faulty("write")
  PROVE  LET f == WriteBehind(cc, err) IN
         /\ f \in ClientType /\ f.st = cc.st
         /\ SamePlace(cc, f) /\ Flushes(cc, f)
<1> DEFINE w == write_behind(cc.buf, cc.disk, FALSE, err)
           e == (cc.werr \/ err)
           f == WriteBehind(cc, err)
<1>1. f = [cc EXCEPT !.buf = w.b, !.disk = w.disk, !.werr = e]
  BY DEF WriteBehind
<1>2. err \in BOOLEAN /\ (err => "write" \in Faults)
  BY Zenon, FaultyBool, FaultyTrue
<1>3. f \in ClientType
  BY <1>2, WriteBehindClient
<1>4. cc.buf \in BufType(Byte) /\ cc.disk \in Seq(Byte) /\ cc.werr \in BOOLEAN
  BY DEF ClientType
<1>5. Clean(cc.buf) => w.b = cc.buf /\ w.disk = cc.disk
  BY WriteBehindClean, Zenon
<1>6. \A d \in Seq(Byte) : Pending(cc.buf, d) =>
        Clean(w.b) /\ (~err => w.disk = cc.disk \o d)
  BY <1>2, <1>4, WriteBehindPending, ZenonT(30)
<1>7. e \in BOOLEAN /\ (cc.werr => e) /\ (~e => ~err)
      /\ (e => cc.werr \/ "write" \in Faults)
  BY <1>2, <1>4
<1> HIDE DEF w, e, f
<1>8. /\ f.job = cc.job /\ f.block = cc.block /\ f.serv = cc.serv
      /\ f.pkt = cc.pkt /\ f.st = cc.st /\ f.oack = cc.oack
      /\ f.readlen = cc.readlen /\ f.blksize = cc.blksize
      /\ f.buf = w.b /\ f.disk = w.disk /\ f.werr = e
  BY <1>1 DEF ClientType
<1>9. Flushes(cc, f)
  BY <1>5, <1>6, <1>7, <1>8 DEF Flushes
<1>10. SamePlace(cc, f)
  BY <1>8 DEF SamePlace
<1>11. QED
  BY SMTT(30), <1>3, <1>8, <1>9, <1>10 DEF f

(* The end of a get: the ack to the server if there is one, the last       *)
(* flush, and the entry in the log.                                        *)
LEMMA FinishEffect ==
  ASSUME NEW cc \in ClientType, NEW status, Finish(cc, status)
  PROVE  /\ SamePlace(cc, c') /\ Flushes(cc, c') /\ Logs(status)
         /\ net' = net \cup (IF cc.serv = NoSrv THEN {}
                             ELSE {ACK(cc.serv, cc.block)})
<1>1. PICK err \in Faulty("write") :
        LET f == WriteBehind(cc, err) IN
        /\ c' = [f EXCEPT !.st = "idle"]
        /\ got' = Append(got, [name |-> Jobs[cc.job], status |-> status,
                               serv |-> cc.serv,
                               disk |-> f.disk, werr |-> f.werr])
  BY DEF Finish
<1> DEFINE f == WriteBehind(cc, err)
<1>2. f \in ClientType /\ SamePlace(cc, f) /\ Flushes(cc, f)
  BY <1>1, WriteBehindEffect
<1>3. /\ c' = [f EXCEPT !.st = "idle"]
      /\ got' = Append(got, [name |-> Jobs[cc.job], status |-> status,
                             serv |-> cc.serv,
                             disk |-> f.disk, werr |-> f.werr])
  BY <1>1
<1> HIDE DEF f
<1>4. /\ c'.st = "idle" /\ c'.job = f.job /\ c'.block = f.block
      /\ c'.serv = f.serv /\ c'.pkt = f.pkt /\ c'.oack = f.oack
      /\ c'.readlen = f.readlen /\ c'.blksize = f.blksize
      /\ c'.buf = f.buf /\ c'.disk = f.disk /\ c'.werr = f.werr
  BY SMTT(30), <1>2, <1>3 DEF ClientType
<1>5. SamePlace(cc, c')
  BY SMTT(30), <1>2, <1>4 DEF SamePlace
<1>6. Flushes(cc, c')
  BY <1>2, <1>4 DEF Flushes
<1>7. Logs(status)
  BY <1>2, <1>3, <1>4 DEF Logs, SamePlace
<1>8. QED
  BY <1>5, <1>6, <1>7 DEF Finish

(* send_ack sends the packet or ends the get.                              *)
LEMMA SendAckEffect ==
  ASSUME NEW cc \in ClientType, cc.st = "wait", SendAck(cc)
  PROVE  SamePlace(cc, c') /\ Flushes(cc, c') /\ Sent
<1>1. PICK fails \in Faulty("send"), err \in Faulty("write") :
        IF fails THEN Finish(cc, "sendto")
        ELSE c' = WriteBehind(cc, err) /\ net' = net \cup {cc.pkt} /\ UNCHANGED got
  BY DEF SendAck
<1>2. fails \in BOOLEAN
  BY SMTT(30), <1>1, FaultyBool
<1>3. CASE fails
  <2>1. "send" \in Faults
    BY Zenon, <1>1, <1>3, FaultyTrue, <1>2
  <2>2. Finish(cc, "sendto")
    BY <1>1, <1>3
  <2>3. /\ SamePlace(cc, c') /\ Flushes(cc, c') /\ Logs("sendto")
        /\ net' = net \cup (IF cc.serv = NoSrv THEN {}
                            ELSE {ACK(cc.serv, cc.block)})
    BY <2>2, FinishEffect
  <2>4. QED BY <2>1, <2>3 DEF Sent, SamePlace
<1>4. CASE ~fails
  <2>1. c' = WriteBehind(cc, err) /\ net' = net \cup {cc.pkt} /\ got' = got
    BY <1>1, <1>4
  <2>2. c'.st = cc.st /\ SamePlace(cc, c') /\ Flushes(cc, c')
    BY <1>1, <2>1, WriteBehindEffect
  <2>3. QED BY <2>1, <2>2 DEF Sent, SamePlace
<1>5. QED
  BY SMTT(30), <1>2, <1>3, <1>4

(* A client that had nothing to write has nothing to write after a flush.  *)
LEMMA FlushStoresNothing ==
  ASSUME c \in ClientType, NEW cc, cc.buf = c.buf, cc.disk = c.disk,
         cc.werr = c.werr, Flushes(cc, c')
  PROVE  Stores(<<>>)
<1>1. c.disk \o <<>> = c.disk
  <2>1. c.disk \in Seq(Byte)
    BY DEF ClientType
  <2>2. QED BY <2>1, ConcatNothing
<1>2. QED
  BY <1>1 DEF Flushes, Stores

(* The commands that set options leave the transfer alone.                 *)
LEMMA SetEffect ==
  ASSUME c \in ClientType, Set
  PROVE  Idles
<1> DEFINE Same == /\ c'.st = c.st /\ c'.job = c.job /\ c'.block = c.block
                   /\ c'.buf = c.buf /\ c'.disk = c.disk
<1>1. CASE \E b \in BlkSizes : c' = [c EXCEPT !.blksize = b]
  <2>1. Same
    BY SMTT(30), <1>1 DEF ClientType
  <2>2. QED BY <2>1 DEF Set, Idles
<1>2. CASE \E t \in Rexmts : c' = [c EXCEPT !.rexmtval = t]
  <2>1. Same
    BY SMTT(30), <1>2 DEF ClientType
  <2>2. QED BY <2>1 DEF Set, Idles
<1>3. CASE \E t \in MaxTimes : c' = [c EXCEPT !.maxtimeout = t]
  <2>1. Same
    BY SMTT(30), <1>3 DEF ClientType
  <2>2. QED BY <2>1 DEF Set, Idles
<1>4. CASE \E b \in Toggles : c' = [c EXCEPT !.tout = b]
  <2>1. Same
    BY SMTT(30), <1>4 DEF ClientType
  <2>2. QED BY <2>1 DEF Set, Idles
<1>5. CASE \E b \in Toggles : c' = [c EXCEPT !.tsize = b]
  <2>1. Same
    BY SMTT(30), <1>5 DEF ClientType
  <2>2. QED BY <2>1 DEF Set, Idles
<1>6. QED
  BY SMTT(30), <1>1, <1>2, <1>3, <1>4, <1>5 DEF Set

(* get() asks for the next file with nothing received.                     *)
LEMMA GetEffect ==
  ASSUME c \in ClientType, Get
  PROVE  Asks
<1>1. SegSize \in Nat
  BY CommonAssumption
<1> DEFINE n == Jobs[c.job + 1]
           tout == IF c.tout THEN c.rexmtval ELSE NoOption
           req == makerequest("RRQ", n, c.blksize, tout, c.tsize)
           j == c.job + 1
           e == <<>>
           cc == [c EXCEPT !.st = "wait", !.job = j, !.block = 1,
                     !.oack = FALSE, !.readlen = SegSize, !.timeout = 0,
                     !.serv = NoSrv, !.buf = w_init, !.disk = e,
                     !.werr = FALSE, !.pkt = req]
<1>2. c.job \in Nat /\ c.job + 1 \in 1..Len(Jobs)
  BY SMTT(30), GetAssumption DEF Get, ClientType
<1>3. n \in STRING
  BY SMTT(30), <1>2, GetAssumption
<1>4. c.blksize \in Nat /\ tout \in Int /\ c.tsize \in BOOLEAN
  BY SMTT(30) DEF ClientType, NoOption
<1>5. req \in Packets /\ req.op = "RRQ" /\ req.name = n
  <2> HIDE DEF n, tout
  <2>1. QED BY SMTT(30), <1>3, <1>4, PacketType DEF makerequest
<1>6. w_init \in BufType(Byte) /\ e \in Seq(Byte) /\ j \in Nat
  BY InitType, <1>2
<1>7. SendAck(cc) /\ c.st # "wait" /\ c.job < Len(Jobs)
  BY DEF Get
<1> HIDE DEF req, e
<1>8. /\ cc \in ClientType /\ cc.pkt = req /\ cc.job = j /\ cc.block = 1
      /\ cc.serv = NoSrv /\ cc.st = "wait" /\ cc.oack = FALSE
      /\ cc.readlen = SegSize /\ cc.buf = w_init /\ cc.disk = e /\ cc.werr = FALSE
  <2> HIDE DEF j
  <2>1. QED BY <1>1, <1>5, <1>6, ZenonT(40) DEF ClientType
<1> HIDE DEF cc
<1>9. SamePlace(cc, c') /\ Flushes(cc, c') /\ Sent
  BY <1>7, <1>8, SendAckEffect
<1>10. /\ c'.job = j /\ c'.block = 1 /\ c'.serv = NoSrv /\ c'.oack = FALSE
       /\ c'.readlen = SegSize /\ c'.pkt = req
  BY <1>8, <1>9 DEF SamePlace
<1>11. Clean(c'.buf) /\ c'.disk = <<>> /\ (c'.werr => "write" \in Faults)
  BY <1>8, <1>9, WInitClean DEF Flushes, e
<1>12. QED
  BY SMTT(30), <1>5, <1>7, <1>8, <1>9, <1>10, <1>11 DEF Asks

(* timer() gives up or sends the last packet again.                        *)
LEMMA ClientTimerEffect ==
  ASSUME c \in ClientType, ClientTimer
  PROVE  GivesUp \/ Again
<1>1. SegSize \in Nat
  BY CommonAssumption
<1> DEFINE t == Elapsed(c)
           oa == IF c.block = 1 /\ "oack" \in Registers THEN FALSE ELSE c.oack
           rl == IF c.block = 1 /\ "readlen" \in Registers THEN SegSize
                 ELSE c.readlen
           cc == [c EXCEPT !.timeout = t, !.oack = oa, !.readlen = rl]
<1>2. t \in Nat /\ oa \in BOOLEAN /\ rl \in Nat /\ c.disk \in Seq(Byte)
  <2>1. t \in Nat /\ c.oack \in BOOLEAN /\ c.readlen \in Nat /\ c.disk \in Seq(Byte)
    BY DEF ClientType, Elapsed
  <2>2. QED BY <1>1, <2>1, Zenon
<1>3. /\ c.st = "wait"
      /\ \/ /\ c' = [c EXCEPT !.st = "idle", !.timeout = t]
            /\ got' = Append(got, [name |-> Jobs[c.job], status |-> "timeout",
                                   serv |-> c.serv,
                                   disk |-> c.disk, werr |-> c.werr])
            /\ net' = net
         \/ SendAck(cc)
  BY DEF ClientTimer
<1>4. Registers = {} => oa = c.oack /\ rl = c.readlen
  OBVIOUS
<1> HIDE DEF t, oa, rl
<1>5. CASE /\ c' = [c EXCEPT !.st = "idle", !.timeout = t]
           /\ got' = Append(got, [name |-> Jobs[c.job], status |-> "timeout",
                                  serv |-> c.serv,
                                  disk |-> c.disk, werr |-> c.werr])
           /\ net' = net
  <2>1. /\ c'.st = "idle" /\ c'.job = c.job /\ c'.block = c.block
        /\ c'.serv = c.serv /\ c'.blksize = c.blksize
        /\ c'.buf = c.buf /\ c'.disk = c.disk /\ c'.werr = c.werr
    BY SMTT(30), <1>5 DEF ClientType
  <2>2. Stores(<<>>)
    BY <1>2, <2>1, ConcatNothing DEF Stores
  <2>3. Logs("timeout")
    BY <1>5, <2>1 DEF Logs
  <2>4. QED BY <1>3, <1>5, <2>1, <2>2, <2>3 DEF GivesUp
<1>6. CASE SendAck(cc)
  <2>1. /\ cc \in ClientType /\ cc.pkt = c.pkt /\ cc.job = c.job
        /\ cc.block = c.block /\ cc.serv = c.serv /\ cc.st = c.st
        /\ cc.oack = oa /\ cc.readlen = rl /\ cc.blksize = c.blksize
        /\ cc.buf = c.buf /\ cc.disk = c.disk /\ cc.werr = c.werr
    BY <1>2, ZenonT(40) DEF ClientType
  <2> HIDE DEF cc
  <2>2. SamePlace(cc, c') /\ Flushes(cc, c') /\ Sent
    BY <1>3, <1>6, <2>1, SendAckEffect
  <2>3. Stores(<<>>)
    BY <2>1, <2>2, FlushStoresNothing
  <2>4. Again
    BY SMTT(30), <1>3, <1>4, <2>1, <2>2, <2>3 DEF SamePlace, Again
  <2>5. QED BY <2>4
<1>7. QED
  BY <1>3, <1>5, <1>6

(* The block waited for is taken, as much of it as was asked for; a block  *)
(* shorter than the block size ends the get.                               *)
LEMMA GotDataEffect ==
  ASSUME c \in ClientType, NEW p \in Packets, p.op = "DATA", GotData(p)
  PROVE  Takes(p)
<1>1. SegSize \in Nat /\ TIMEOUT \in Nat
  BY CommonAssumption
<1> DEFINE data == Clip(p)
           dc == IF c.block = 1 /\ ~c.oack THEN DefaultOptions(c) ELSE c
           cc == [dc EXCEPT !.serv = p.srv]
<1>2. p.srv \in Srv /\ p.data \in Seq(Byte)
  BY SMTT(30) DEF Packets, Request, Reply
<1>3. data \in Seq(Byte)
  <2> DEFINE n == IF c.readlen < Len(p.data) THEN c.readlen ELSE Len(p.data)
  <2>1. n \in 0..Len(p.data)
    BY SMTT(30), <1>2 DEF ClientType
  <2>2. \A k \in 1..n : p.data[k] \in Byte
    BY SMTT(30), <1>2, <2>1
  <2>3. data = SubSeq(p.data, 1, n)
    BY DEF Clip
  <2> HIDE DEF n, data
  <2>4. QED BY SMTT(30), <2>1, <2>2, <2>3, PartOfSeq
<1>4. /\ dc \in ClientType /\ dc.block = c.block /\ dc.job = c.job /\ dc.st = c.st
      /\ dc.buf = c.buf /\ dc.disk = c.disk /\ dc.werr = c.werr
      /\ dc.blksize = Settled
  <2> DEFINE d == DefaultOptions(c)
  <2>1. /\ d \in ClientType /\ d.block = c.block
        /\ d.job = c.job /\ d.st = c.st
        /\ d.buf = c.buf /\ d.disk = c.disk /\ d.werr = c.werr
        /\ d.blksize = SegSize
    BY <1>1, ZenonT(40) DEF DefaultOptions, ClientType
  <2> HIDE DEF d
  <2>2. dc = IF c.block = 1 /\ ~c.oack THEN d ELSE c
    BY DEF d
  <2> HIDE DEF dc
  <2>3. QED BY <2>1, <2>2 DEF Settled
<1>5. PICK err \in Faulty("write") :
        LET w  == writeit(RecvInto(cc.buf, data), cc.disk, FALSE, err)
            wr == [cc EXCEPT !.buf = w.b, !.disk = w.disk, !.werr = @ \/ err]
        IN IF Len(data) = cc.blksize
           THEN SendAck([wr EXCEPT !.pkt = ACK(cc.serv, c.block),
                                   !.readlen = cc.blksize,
                                   !.block = @ + 1, !.timeout = 0])
           ELSE Finish(wr, "ok")
  BY Zenon DEF GotData, Clip
<1>6. FromServer(p) /\ p.block = Wire(c.block) /\ c.st = "wait"
  BY DEF GotData, NextBlock, FromServer
<1> HIDE DEF dc, data
<1>7. /\ cc \in ClientType /\ cc.serv = p.srv /\ cc.block = c.block
      /\ cc.job = c.job /\ cc.st = c.st /\ cc.blksize = Settled
      /\ cc.buf = c.buf /\ cc.disk = c.disk /\ cc.werr = c.werr
  BY <1>2, <1>4, ZenonT(40) DEF ClientType
<1>8. /\ c.buf \in BufType(Byte) /\ c.disk \in Seq(Byte) /\ Settled \in Nat
      /\ c.werr \in BOOLEAN /\ c.block \in Nat
  BY SMTT(30), <1>1 DEF ClientType, Settled
<1> HIDE DEF cc
<1> DEFINE w  == writeit(RecvInto(c.buf, data), c.disk, FALSE, err)
           e  == c.werr \/ err
           wr == [cc EXCEPT !.buf = w.b, !.disk = w.disk, !.werr = e]
           a  == ACK(p.srv, c.block)
           b  == c.block + 1
           nx == [wr EXCEPT !.pkt = a, !.readlen = Settled, !.block = b,
                            !.timeout = 0]
<1>9. err \in BOOLEAN /\ (err => "write" \in Faults)
  BY Zenon, <1>5, FaultyBool, FaultyTrue
<1>10. w.b \in BufType(Byte) /\ w.disk \in Seq(Byte)
  BY <1>3, <1>8, <1>9, WriteitType, ZenonT(40)
<1>11. Clean(c.buf) => Pending(w.b, data) /\ w.disk = c.disk
  <2> SUFFICES ASSUME Clean(c.buf) PROVE Pending(w.b, data) /\ w.disk = c.disk
    BY Zenon
  <2>1. c.buf \in BufType(Byte) /\ c.disk \in Seq(Byte)
    BY <1>8
  <2>2. QED BY <1>3, <2>1, WriteitClean, ZenonT(40)
<1>12. e \in BOOLEAN /\ a \in Packets /\ b \in Nat
  <2>1. c.block \in Int
    BY <1>8
  <2>2. a \in Packets
    BY SMTT(30), <1>2, <2>1, PacketType
  <2>3. QED BY <1>8, <1>9, <2>2
<1> HIDE DEF w
<1>13. /\ wr \in ClientType /\ wr.job = c.job /\ wr.block = c.block
       /\ wr.serv = p.srv /\ wr.st = c.st /\ wr.blksize = Settled
       /\ wr.buf = w.b /\ wr.disk = w.disk /\ wr.werr = e
  <2> HIDE DEF e
  <2>1. QED BY <1>7, <1>10, <1>12, ZenonT(40) DEF ClientType
<1>14. IF Len(data) = Settled THEN SendAck(nx) ELSE Finish(wr, "ok")
  <2>1. wr.block + 1 = b
    BY <1>13
  <2>2. QED BY Zenon, <1>5, <1>7, <2>1 DEF w
<1> HIDE DEF wr, a, b
<1>15. /\ nx \in ClientType /\ nx.pkt = a /\ nx.job = c.job /\ nx.block = b
       /\ nx.serv = p.srv /\ nx.st = c.st /\ nx.blksize = Settled
       /\ nx.readlen = Settled
       /\ nx.buf = w.b /\ nx.disk = w.disk /\ nx.werr = e
  <2> HIDE DEF e
  <2>1. QED BY <1>8, <1>12, <1>13, ZenonT(40) DEF ClientType
<1> HIDE DEF nx
<1>16. ASSUME NEW x, Flushes(x, c'), x.buf = w.b, x.disk = w.disk, x.werr = e
       PROVE  Stores(data)
  BY Zenon, <1>3, <1>8, <1>9, <1>11, <1>16 DEF Stores, Flushes
<1> HIDE DEF e
<1>17. CASE Len(data) = Settled
  <2>1. SamePlace(nx, c') /\ Flushes(nx, c') /\ Sent
    BY SMTT(30), <1>6, <1>14, <1>15, <1>17, SendAckEffect
  <2>2. /\ c'.job = c.job /\ c'.serv = p.srv /\ c'.blksize = Settled
        /\ c'.block = b /\ c'.readlen = Settled /\ c'.pkt = a
    BY SMTT(30), <1>15, <2>1 DEF SamePlace
  <2>3. Stores(data)
    BY Zenon, <1>15, <1>16, <2>1
  <2>4. QED BY Zenon, <1>6, <1>17, <2>1, <2>2, <2>3 DEF Takes, data, a, b
<1>18. CASE Len(data) # Settled
  <2>1. /\ SamePlace(wr, c') /\ Flushes(wr, c') /\ Logs("ok")
        /\ net' = net \cup (IF wr.serv = NoSrv THEN {}
                            ELSE {ACK(wr.serv, wr.block)})
    BY Zenon, <1>13, <1>14, <1>18, FinishEffect
  <2>2. /\ c'.job = c.job /\ c'.serv = p.srv /\ c'.blksize = Settled
        /\ c'.block = c.block
    BY Zenon, <1>13, <2>1 DEF SamePlace
  <2>3. Stores(data)
    BY Zenon, <1>13, <1>16, <2>1
  <2>4. net' = net \cup {ACK(p.srv, c.block)}
    BY SMTT(30), <1>2, <1>13, <2>1, CommonAssumption
  <2>5. QED BY SMTT(30), <1>6, <1>18, <2>1, <2>2, <2>3, <2>4 DEF Takes, data
<1>19. QED
  BY <1>17, <1>18

(* An OACK is accepted: its block size is the block size from then on.     *)
LEMMA GotOackEffect ==
  ASSUME c \in ClientType, NEW p \in Packets, p.op = "OACK", GotOack(p)
  PROVE  Accepts(p)
<1>1. SegSize \in Nat /\ TIMEOUT \in Nat
  BY CommonAssumption
<1> DEFINE bs == IF p.blksize = 0 THEN SegSize ELSE p.blksize
           oc == ClientOptions(c, p)
           a  == ACK(p.srv, 0)
           cc == [oc EXCEPT !.serv = p.srv, !.oack = TRUE,
                            !.pkt = a, !.readlen = oc.blksize]
<1>2. p.srv \in Srv /\ p.blksize \in Nat /\ p.timeout \in Nat
  BY SMTT(30) DEF Packets, Request, Reply
<1>3. /\ oc \in ClientType /\ oc.job = c.job /\ oc.block = c.block
      /\ oc.st = c.st /\ oc.blksize = bs
      /\ oc.buf = c.buf /\ oc.disk = c.disk /\ oc.werr = c.werr
  BY <1>1, <1>2, ZenonT(40) DEF ClientOptions, ClientType
<1>4. SendAck(cc) /\ c.block = 1 /\ FromServer(p) /\ c.st = "wait"
  BY DEF GotOack, FromServer
<1>5. a \in Packets /\ bs \in Nat
  BY SMTT(30), <1>1, <1>2, PacketType
<1> HIDE DEF oc, a, bs
<1>6. /\ cc \in ClientType /\ cc.pkt = a /\ cc.job = c.job /\ cc.block = c.block
      /\ cc.serv = p.srv /\ cc.st = c.st /\ cc.oack = TRUE
      /\ cc.readlen = bs /\ cc.blksize = bs
      /\ cc.buf = c.buf /\ cc.disk = c.disk /\ cc.werr = c.werr
  BY <1>2, <1>3, <1>5, ZenonT(40) DEF ClientType
<1> HIDE DEF cc
<1>7. SamePlace(cc, c') /\ Flushes(cc, c') /\ Sent
  BY <1>4, <1>6, SendAckEffect
<1>8. Stores(<<>>)
  BY <1>6, <1>7, FlushStoresNothing
<1>9. QED
  BY <1>4, <1>6, <1>7, <1>8 DEF Accepts, SamePlace, a, bs

(* Every step of the client is one of these kinds.                         *)
LEMMA ClientStepEffect ==
  ASSUME TypeOK, Client
  PROVE  ClientEffect
<1>1. c \in ClientType /\ net \subseteq Packets /\ c.disk \in Seq(Byte)
  BY DEF TypeOK, ClientType
<1>2. c.disk \o <<>> = c.disk
  BY <1>1, ConcatNothing
<1>3. CASE Set
  BY <1>1, <1>3, SetEffect DEF ClientEffect
<1>4. CASE Get
  BY <1>1, <1>4, GetEffect DEF ClientEffect
<1>5. CASE ClientTimer
  BY <1>1, <1>5, ClientTimerEffect DEF ClientEffect
<1>6. CASE Intr
  <2>1. /\ c.st = "wait" /\ c'.st = "idle" /\ c'.job = c.job
        /\ c'.block = c.block /\ c'.serv = c.serv /\ c'.blksize = c.blksize
        /\ c'.buf = c.buf /\ c'.disk = c.disk /\ c'.werr = c.werr
    BY SMTT(30), <1>1, <1>6 DEF Intr, ClientType
  <2>2. Logs("intr") /\ net' = net
    BY <1>6, <2>1 DEF Logs, Intr
  <2>3. Stores(<<>>)
    BY <1>2, <2>1 DEF Stores
  <2>4. GivesUp
    BY <2>1, <2>2, <2>3 DEF GivesUp
  <2>5. QED BY <2>4 DEF ClientEffect
<1>7. CASE Quit
  <2>1. /\ c.st # "wait" /\ c'.st = "quit" /\ c'.job = c.job
        /\ c'.block = c.block /\ c'.buf = c.buf /\ c'.disk = c.disk
    BY SMTT(30), <1>1, <1>7 DEF Quit, ClientType
  <2>2. QED BY SMTT(30), <1>7, <2>1 DEF ClientEffect, Idles, Quit
<1>8. CASE ClientRecv
  <2>1. PICK p \in net : \/ p.op = "DATA" /\ GotData(p)
                         \/ p.op = "DATA" /\ StaleData(p)
                         \/ p.op = "OACK" /\ GotOack(p)
                         \/ p.op = "ERROR" /\ GotError(p)
    BY <1>8 DEF ClientRecv
  <2>2. p \in Packets
    BY <1>1, <2>1
  <2>3. CASE p.op = "DATA" /\ GotData(p)
    BY <1>1, <2>1, <2>2, <2>3, GotDataEffect DEF ClientEffect
  <2>4. CASE p.op = "DATA" /\ StaleData(p)
    <3>1. c.st = "wait" /\ SendAck(c)
      BY <2>4 DEF StaleData, FromServer
    <3>2. SamePlace(c, c') /\ Flushes(c, c') /\ Sent
      BY <1>1, <3>1, SendAckEffect
    <3>3. Stores(<<>>)
      BY <1>1, <3>2, FlushStoresNothing
    <3>4. Again
      BY <3>1, <3>2, <3>3 DEF Again, SamePlace
    <3>5. QED BY <3>4 DEF ClientEffect
  <2>5. CASE p.op = "OACK" /\ GotOack(p)
    BY <1>1, <2>1, <2>2, <2>5, GotOackEffect DEF ClientEffect
  <2>6. CASE p.op = "ERROR" /\ GotError(p)
    <3>1. p.srv \in Srv /\ p.srv # NoSrv
      BY SMTT(30), <2>2, <2>6, CommonAssumption DEF Packets, Request, Reply
    <3> DEFINE cc == [c EXCEPT !.serv = p.srv]
    <3>2. /\ cc \in ClientType /\ cc.job = c.job /\ cc.block = c.block
          /\ cc.serv = p.srv /\ cc.blksize = c.blksize
          /\ cc.buf = c.buf /\ cc.disk = c.disk /\ cc.werr = c.werr
      BY Zenon, <1>1, <3>1 DEF ClientType
    <3>3. Finish(cc, "error") /\ c.st = "wait"
      BY <2>6 DEF GotError, FromServer
    <3> HIDE DEF cc
    <3>4. /\ SamePlace(cc, c') /\ Flushes(cc, c') /\ Logs("error")
          /\ net' = net \cup (IF cc.serv = NoSrv THEN {}
                              ELSE {ACK(cc.serv, cc.block)})
      BY Zenon, <3>2, <3>3, FinishEffect
    <3>5. Stores(<<>>)
      BY Zenon, <1>1, <3>2, <3>4, FlushStoresNothing
    <3>6. GivesUp
      BY Zenon, <2>1, <2>6, <3>1, <3>2, <3>3, <3>4, <3>5 DEF GivesUp, SamePlace
    <3>7. QED BY <3>6 DEF ClientEffect
  <2>7. QED
    BY SMTT(30), <2>1, <2>3, <2>4, <2>5, <2>6
<1>9. QED
  BY SMTT(30), <1>3, <1>4, <1>5, <1>6, <1>7, <1>8 DEF Client

-----------------------------------------------------------------------------
(* The inductive invariant.                                                *)

\* Block numbers have not wrapped around.
NoWrap == c.st = "wait" => c.block < BlockMod

\* What is sent again has been sent before.
SentBefore == /\ c.pkt \in net
              /\ \A i \in Srv : s[i].st = "wait" => s[i].pkt \in net
\* The client acknowledges blocks it has, to the one server it listens to.
AcksBehind == \A p \in net : p.op = "ACK" => p.srv = c.serv /\ p.block < c.block
\* Only a tftpd that was started sends or is sent anything.
FromStarted ==
  \A p \in net : p.op \in {"DATA", "ACK", "OACK", "ERROR"} => s[p.srv].st # "free"
\* A tftpd sends blocks up to the one it is at.
DataBehind == \A p \in net : p.op = "DATA" => p.block \in 1..s[p.srv].block
\* The server the client listens to, and the others.
Partner  == c.serv # NoSrv => /\ s[c.serv].st # "free"
                              /\ s[c.serv].block \in {c.block - 1, c.block}
Strangers == /\ \A i \in Srv \ {c.serv} : s[i].block <= 1
             /\ c.block >= 1 /\ (c.serv = NoSrv => c.block = 1)

Lock == /\ SentBefore /\ AcksBehind /\ FromStarted /\ DataBehind
        /\ Partner /\ Strangers

\* Nothing has been asked for; or the one get is under way, or it has ended.
Untouched == c.job = 0 /\ c.st # "wait" /\ net = {} /\ \A i \in Srv : s[i] = Fresh
IInv == Untouched \/ (c.job = 1 /\ (c.st = "wait" => Lock))

(* A block number below BlockMod is itself on the wire.                    *)
LEMMA WireIdentity == \A k \in Nat : k < BlockMod => Wire(k) = k
  BY SMTT(30), CommonAssumption DEF Wire

(* The fields of what a tftpd and the client send.                         *)
LEMMA PacketFields ==
  /\ \A i, k, d : /\ DATA(i, k, d).op = "DATA" /\ DATA(i, k, d).srv = i
                  /\ DATA(i, k, d).block = Wire(k)
  /\ \A i, k : ACK(i, k).op = "ACK" /\ ACK(i, k).srv = i /\ ACK(i, k).block = Wire(k)
  /\ \A i, b, x : OACK(i, b, x).op = "OACK" /\ OACK(i, b, x).srv = i
  /\ \A i : ERROR(i).op = "ERROR" /\ ERROR(i).srv = i
  BY SMTT(30) DEF DATA, ACK, OACK, ERROR

(* A step of a tftpd keeps the lock step.                                  *)
LEMMA ServerKeepsLock ==
  ASSUME TypeOK, c.st = "wait", Lock, NoWrap,
         NEW i \in Srv, ServerEffect(i), c' = c
  PROVE  Lock'
<1>1. /\ \A j \in Srv \ {i} : s'[j] = s[j]
      /\ \A j \in Srv : s[j].block \in Nat
      /\ c.block \in Nat /\ c.serv \in Srv \cup {NoSrv}
      /\ NoSrv \notin Srv /\ BlockMod \in Nat
  BY Zenon, CommonAssumption DEF TypeOK, ClientType, ServerType, ServerEffect
<1>2. \A p \in net : p.op \in {"DATA", "ACK", "OACK", "ERROR"} => p.srv \in Srv
  BY DEF TypeOK, Packets, Request, Reply
<1>3. CASE Stops(i)
  <2>1. /\ s'[i].st \notin {"free", "wait"} /\ s'[i].block = s[i].block
        /\ \A p \in net' : p \in net \/ (p.op = "ERROR" /\ p.srv = i)
        /\ net \subseteq net'
    BY SMTT(30), <1>3, PacketFields DEF Stops
  <2>2. SentBefore'
    BY Zenon, <1>1, <2>1 DEF Lock, SentBefore
  <2>3. AcksBehind'
    BY Zenon, <2>1 DEF Lock, AcksBehind
  <2>4. FromStarted'
    BY Zenon, <1>1, <1>2, <2>1 DEF Lock, FromStarted
  <2>5. DataBehind'
    BY Zenon, <1>1, <1>2, <2>1 DEF Lock, DataBehind
  <2>6. Partner' /\ Strangers'
    BY Zenon, <1>1, <2>1 DEF Lock, Partner, Strangers
  <2>7. QED BY ZenonT(30), <2>2, <2>3, <2>4, <2>5, <2>6 DEF Lock
<1>4. CASE Repeats(i)
  <2>1. /\ s'[i].st = s[i].st /\ s'[i].block = s[i].block /\ s'[i].pkt = s[i].pkt
        /\ net' = net
    BY Zenon, <1>4 DEF Repeats, Lock, SentBefore
  <2>2. SentBefore'
    BY Zenon, <1>1, <2>1 DEF Lock, SentBefore
  <2>3. AcksBehind'
    BY Zenon, <2>1 DEF Lock, AcksBehind
  <2>4. FromStarted'
    BY ZenonT(30), <1>1, <1>2, <2>1 DEF Lock, FromStarted
  <2>5. DataBehind'
    BY Zenon, <1>1, <1>2, <2>1 DEF Lock, DataBehind
  <2>6. Partner' /\ Strangers'
    BY Zenon, <1>1, <2>1 DEF Lock, Partner, Strangers
  <2>7. QED BY <2>2, <2>3, <2>4, <2>5, <2>6 DEF Lock
<1>5. CASE \E p \in net : Starts(i, p)
  <2>1. Wire(1) = 1
    BY SMTT(30), <1>1, WireIdentity DEF NoWrap, Lock, Strangers
  <2>2. /\ s'[i].st = "wait" /\ s'[i].block \in 0..1
        /\ net' = net \cup {s'[i].pkt} /\ s'[i].pkt.srv = i
        /\ \/ s'[i].pkt.op = "OACK"
           \/ /\ s'[i].pkt.op = "DATA" /\ s'[i].pkt.block = 1
              /\ s'[i].block = 1
    <3>1. CASE \E p \in net : Offers(i, p)
      <4>1. PICK b, t : s'[i].pkt = OACK(i, b, t)
        BY Zenon, <3>1 DEF Offers
      <4>2. OACK(i, b, t).op = "OACK" /\ OACK(i, b, t).srv = i
        BY SMTT(30), PacketFields
      <4>3. s'[i].st = "wait" /\ s'[i].block = 0 /\ net' = net \cup {s'[i].pkt}
        BY Zenon, <3>1 DEF Offers
      <4>4. QED BY <4>1, <4>2, <4>3
    <3>2. CASE Sends(i, 1)
      <4>1. PICK d : s'[i].pkt = DATA(i, 1, d)
        BY Zenon, <3>2 DEF Sends
      <4>2. /\ DATA(i, 1, d).op = "DATA" /\ DATA(i, 1, d).srv = i
            /\ DATA(i, 1, d).block = 1
        BY SMTT(30), <2>1, PacketFields
      <4>3. s'[i].st = "wait" /\ s'[i].block = 1 /\ net' = net \cup {s'[i].pkt}
        BY Zenon, <3>2 DEF Sends
      <4>4. QED BY <4>1, <4>2, <4>3
    <3>3. QED BY Zenon, <1>5, <3>1, <3>2 DEF Starts
  <2>3. i # c.serv /\ \A p \in net : p.op \in {"DATA", "ACK", "OACK", "ERROR"} => p.srv # i
    <3>1. s[i].st = "free"
      BY Zenon, <1>5 DEF Starts
    <3>2. \A p \in net : p.op \in {"DATA", "ACK", "OACK", "ERROR"} => p.srv # i
      BY Zenon, <3>1 DEF Lock, FromStarted
    <3>3. QED BY SMTT(30), <1>1, <3>1, <3>2 DEF Lock, Partner
  <2>4. SentBefore'
    BY Zenon, <1>1, <2>2 DEF Lock, SentBefore
  <2>5. AcksBehind'
    BY Zenon, <2>2 DEF Lock, AcksBehind
  <2>6. FromStarted'
    BY Zenon, <1>1, <1>2, <2>2, <2>3 DEF Lock, FromStarted
  <2>7. DataBehind'
    BY SMTT(30), <1>1, <1>2, <2>2, <2>3 DEF Lock, DataBehind
  <2>8. Partner' /\ Strangers'
    BY SMTT(30), <1>1, <2>2, <2>3 DEF Lock, Partner, Strangers
  <2>9. QED BY <2>4, <2>5, <2>6, <2>7, <2>8 DEF Lock
<1>6. CASE GoesOn(i)
  <2>1. PICK p \in net : p.op = "ACK" /\ p.srv = i /\ p.block = Wire(s[i].block)
    BY Zenon, <1>6 DEF GoesOn, Acked
  <2>2. c.serv = i /\ p.block < c.block
    BY Zenon, <2>1 DEF Lock, AcksBehind
  <2>3. s[i].block = c.block - 1
    <3>1. s[i].block \in {c.block - 1, c.block}
      BY Zenon, <1>1, <2>2 DEF Lock, Partner
    <3>2. Wire(c.block) = c.block
      BY Zenon, <1>1, WireIdentity DEF NoWrap
    <3>3. QED BY SMTT(30), <2>1, <2>2, <3>1, <3>2, <1>1
  <2>4. Wire(s[i].block + 1) = s[i].block + 1
    BY SMTT(30), <1>1, <2>3, WireIdentity DEF NoWrap
  <2>5. /\ s'[i].st = "wait" /\ s'[i].block = s[i].block + 1
        /\ net' = net \cup {s'[i].pkt} /\ s'[i].pkt.srv = i
        /\ s'[i].pkt.op = "DATA" /\ s'[i].pkt.block = s[i].block + 1
    BY SMTT(30), <1>6, <2>4, PacketFields DEF GoesOn, Sends
  <2>6. SentBefore'
    BY Zenon, <1>1, <2>5 DEF Lock, SentBefore
  <2>7. AcksBehind'
    BY Zenon, <2>5 DEF Lock, AcksBehind
  <2>8. FromStarted'
    BY Zenon, <1>1, <1>2, <2>5 DEF Lock, FromStarted
  <2>9. DataBehind'
    BY SMTT(30), <1>1, <1>2, <2>5 DEF Lock, DataBehind
  <2>10. Partner' /\ Strangers'
    BY SMTT(30), <1>1, <2>2, <2>3, <2>5 DEF Lock, Partner, Strangers
  <2>11. QED BY Zenon, <2>6, <2>7, <2>8, <2>9, <2>10 DEF Lock
<1>7. QED
  BY Zenon, <1>3, <1>4, <1>5, <1>6 DEF ServerEffect

(* A step of the client that leaves it waiting keeps the lock step.        *)
LEMMA ClientKeepsLock ==
  ASSUME TypeOK, c.st = "wait", Lock, NoWrap, s' = s,
         NEW p \in net, Again \/ Takes(p) \/ Accepts(p), c'.st = "wait"
  PROVE  Lock'
<1>1. /\ \A j \in Srv : s[j].block \in Nat
      /\ c.block \in Nat /\ c.serv \in Srv \cup {NoSrv}
      /\ NoSrv \notin Srv /\ BlockMod \in Nat
  BY Zenon, CommonAssumption DEF TypeOK, ClientType, ServerType
<1>2. p.op \in {"DATA", "ACK", "OACK", "ERROR"} => p.srv \in Srv
  BY ZenonT(30) DEF TypeOK, Packets, Request, Reply
<1>3. CASE Again
  <2>1. net' = net /\ c'.block = c.block /\ c'.serv = c.serv /\ c'.pkt = c.pkt
    <3>1. /\ net' = net \cup {c'.pkt}
          /\ c'.block = c.block /\ c'.serv = c.serv /\ c'.pkt = c.pkt
      BY <1>3 DEF Again, Sent, Logs
    <3>2. QED BY ZenonT(30), <3>1 DEF Lock, SentBefore
  <2>2. QED
    BY SMTT(30), <2>1 DEF Lock, SentBefore, AcksBehind, FromStarted, DataBehind, Partner, Strangers
<1>4. CASE Takes(p)
  <2>1. p.srv \in Srv /\ c.serv \in {NoSrv, p.srv}
    BY SMTT(30), <1>2, <1>4 DEF Takes, FromServer
  <2>2. Wire(c.block) = c.block
    BY Zenon, <1>1, WireIdentity DEF NoWrap
  <2>3. p.block = c.block /\ p.block \in 1..s[p.srv].block
    BY Zenon, <1>4, <2>2 DEF Takes, Lock, DataBehind
  <2>4. s[p.srv].block = c.block /\ s[p.srv].st # "free"
    <3>1. CASE c.serv = p.srv
      BY SMTT(30), <1>1, <2>1, <2>3, <3>1 DEF Lock, Partner
    <3>2. CASE c.serv = NoSrv
      <4>1. s[p.srv].block <= 1 /\ c.block = 1
        BY Zenon, <1>1, <2>1, <3>2 DEF Lock, Strangers
      <4>2. s[p.srv].st # "free"
        BY Zenon, <1>4 DEF Takes, Lock, FromStarted
      <4>3. QED BY SMTT(30), <1>1, <2>1, <2>3, <4>1, <4>2
    <3>3. QED BY ZenonT(30), <2>1, <3>1, <3>2
  <2>5. /\ c'.block = c.block + 1 /\ c'.serv = p.srv /\ net' = net \cup {c'.pkt}
        /\ c'.pkt.op = "ACK" /\ c'.pkt.srv = p.srv /\ c'.pkt.block = c.block
    <3>1. /\ c'.block = c.block + 1 /\ c'.serv = p.srv /\ c'.pkt = ACK(p.srv, c.block)
          /\ net' = net \cup {c'.pkt}
      BY Zenon, <1>4 DEF Takes, Sent, Logs
    <3>2. QED BY SMTT(30), <2>2, <3>1, PacketFields
  <2>6. \A q \in net : q.op = "ACK" => q.srv = p.srv /\ q.block < c.block /\ q.block \in Nat
    <3>1. \A q \in net : q.op = "ACK" => q.srv \in Srv /\ q.block \in Nat
      BY DEF TypeOK, Packets, Request, Reply
    <3>2. QED BY Zenon, <1>1, <2>1, <3>1 DEF Lock, AcksBehind
  <2>7. SentBefore'
    BY Zenon, <2>5 DEF Lock, SentBefore
  <2>8. AcksBehind'
    BY SMTT(30), <1>1, <2>5, <2>6 DEF AcksBehind
  <2>9. FromStarted'
    BY Zenon, <2>4, <2>5 DEF Lock, FromStarted
  <2>10. DataBehind'
    BY Zenon, <2>5 DEF Lock, DataBehind
  <2>11. Partner' /\ Strangers'
    BY SMTT(30), <1>1, <2>1, <2>4, <2>5 DEF Lock, Partner, Strangers
  <2>12. QED BY ZenonT(30), <2>7, <2>8, <2>9, <2>10, <2>11 DEF Lock
<1>5. CASE Accepts(p)
  <2>1. p.srv \in Srv /\ c.serv \in {NoSrv, p.srv} /\ c.block = 1
    BY SMTT(30), <1>2, <1>5 DEF Accepts, FromServer
  <2>2. Wire(0) = 0
    BY SMTT(30), CommonAssumption, WireIdentity
  <2>3. /\ c'.block = 1 /\ c'.serv = p.srv /\ net' = net \cup {c'.pkt}
        /\ c'.pkt.op = "ACK" /\ c'.pkt.srv = p.srv /\ c'.pkt.block = 0
    BY SMTT(30), <1>5, <2>2, PacketFields DEF Accepts, Sent, Logs
  <2>4. s[p.srv].block \in {0, 1} /\ s[p.srv].st # "free"
    <3>1. s[p.srv].st # "free"
      BY Zenon, <1>5 DEF Accepts, Lock, FromStarted
    <3>2. CASE c.serv = p.srv
      BY SMTT(30), <1>1, <2>1, <3>1, <3>2 DEF Lock, Partner
    <3>3. CASE c.serv = NoSrv
      <4>1. s[p.srv].block <= 1 /\ s[p.srv].block \in Nat
        BY Zenon, <1>1, <2>1, <3>3 DEF Lock, Strangers
      <4>2. QED BY SMTT(30), <3>1, <4>1
    <3>4. QED BY Zenon, <2>1, <3>2, <3>3
  <2>5. \A q \in net : q.op = "ACK" => q.srv = p.srv /\ q.block < 1
    <3>1. \A q \in net : q.op = "ACK" => q.srv \in Srv
      BY SMTT(30) DEF TypeOK, Packets, Request, Reply
    <3>2. QED BY Zenon, <1>1, <2>1, <3>1 DEF Lock, AcksBehind
  <2>6. SentBefore'
    BY Zenon, <2>3 DEF Lock, SentBefore
  <2>7. AcksBehind'
    BY SMTT(30), <2>3, <2>5 DEF AcksBehind
  <2>8. FromStarted'
    BY Zenon, <2>3, <2>4 DEF Lock, FromStarted
  <2>9. DataBehind'
    BY Zenon, <2>3 DEF Lock, DataBehind
  <2>10. Partner' /\ Strangers'
    BY SMTT(30), <1>1, <2>1, <2>3, <2>4 DEF Lock, Partner, Strangers
  <2>11. QED BY SMTT(30), <2>6, <2>7, <2>8, <2>9, <2>10 DEF Lock
<1>6. QED
  BY Zenon, <1>3, <1>4, <1>5

(* The first request of a fresh socket puts the transfer in lock step.     *)
LEMMA AskLocks ==
  ASSUME TypeOK, Untouched, Asks, s' = s, c'.st = "wait"
  PROVE  Lock'
<1>1. /\ c'.block = 1 /\ c'.serv = NoSrv /\ c'.pkt.op = "RRQ"
      /\ net' = {c'.pkt}
  BY Zenon DEF Asks, Sent, Logs, Untouched
<1>2. \A i \in Srv : s[i].st = "free" /\ s[i].block = 0
  BY DEF Untouched, Fresh
<1>3. QED
  BY SMTT(30), <1>1, <1>2, CommonAssumption
     DEF Lock, SentBefore, AcksBehind, FromStarted, DataBehind, Partner, Strangers

(* Lock step: in one get from a fresh socket, as long as block numbers do  *)
(* not wrap around, the tftpd the client listens to is at the block the    *)
(* client waits for or at the one before it, whatever the network loses,   *)
(* repeats, delays and reorders, however many tftpds the request started   *)
(* Before the request is sent no tftpd does anything.                      *)
LEMMA NoneStarted ==
  ASSUME net = {}, NEW i \in Srv, s[i] = Fresh
  PROVE  ~Server(i)
<1>1. Fresh.st = "free"
  BY SMTT(30), FreshType
<1>2. QED
  BY <1>1, ZenonT(40) DEF Server, Start, ServerRecv, Refused, ServerTimer

(* Every step of the one get keeps the inductive invariant.                *)
LEMMA StepKeepsIInv ==
  ASSUME Len(Jobs) <= 1, TypeOK, NoWrap, IInv, [Next]_vars
  PROVE  IInv'
<1>1. CASE Client
  <2>1. ClientEffect /\ s' = s
    BY Zenon, <1>1, ClientStepEffect, ClientStepType
  <2>2. c.job \in Nat /\ Len(Jobs) \in Nat
    BY SMTT(30), GetAssumption DEF TypeOK, ClientType
  <2>3. CASE Idles
    BY SMTT(30), <2>1, <2>3 DEF Idles, IInv, Untouched
  <2>4. CASE Asks
    <3>1. Untouched /\ c'.job = 1
      BY SMTT(30), <2>2, <2>4 DEF Asks, IInv, Untouched
    <3>2. QED BY Zenon, <2>1, <2>4, <3>1, AskLocks DEF IInv
  <2>5. CASE GivesUp
    BY SMTT(30), <2>5 DEF GivesUp, Logs, IInv, Untouched
  <2>6. CASE Again
    <3>1. Lock /\ c.st = "wait" /\ c.job = 1 /\ c'.job = 1 /\ c.pkt \in net
      BY SMTT(30), <2>6 DEF Again, IInv, Untouched, Lock, SentBefore
    <3>2. QED BY Zenon, <2>1, <2>6, <3>1, ClientKeepsLock DEF IInv
  <2>7. CASE \E p \in net : Takes(p) \/ Accepts(p)
    <3>1. PICK p \in net : Takes(p) \/ Accepts(p)
      BY Zenon, <2>7
    <3>2. Lock /\ c.st = "wait" /\ c.job = 1 /\ c'.job = 1
      BY SMTT(30), <3>1 DEF Takes, Accepts, FromServer, IInv, Untouched
    <3>3. QED BY SMTT(30), <2>1, <3>1, <3>2, ClientKeepsLock DEF IInv
  <2>8. QED BY Zenon, <2>1, <2>3, <2>4, <2>5, <2>6, <2>7 DEF ClientEffect
<1>2. CASE \E i \in Srv : Server(i)
  <2>1. PICK i \in Srv : Server(i)
    BY <1>2
  <2>2. ServerEffect(i) /\ c' = c
    BY Zenon, <2>1, ServerStepEffect, ServerStepType
  <2>3. ~Untouched
    BY ZenonT(30), <2>1, NoneStarted DEF Untouched
  <2>4. QED BY SMTT(30), <2>2, <2>3, ServerKeepsLock DEF IInv
<1>3. CASE UNCHANGED vars
  BY SMTT(30), <1>3 DEF vars, IInv, Untouched, Lock, SentBefore, AcksBehind, FromStarted,
              DataBehind, Partner, Strangers
<1>4. QED BY Zenon, <1>1, <1>2, <1>3 DEF Next

(* The inductive invariant holds of one get whose block numbers do not     *)
(* wrap around.                                                            *)
LEMMA LockInvariant == Len(Jobs) <= 1 => (Spec /\ []NoWrap => [](TypeOK /\ IInv))
<1> SUFFICES ASSUME Len(Jobs) <= 1 PROVE Spec /\ []NoWrap => [](TypeOK /\ IInv)
  BY Zenon
<1>1. Init => IInv
  BY DEF Init, IInv, Untouched
<1>2. TypeOK /\ NoWrap /\ IInv /\ [Next]_vars => IInv'
  BY StepKeepsIInv
<1>3. Spec => []TypeOK
  BY TypeCorrect
<1>4. QED
  BY <1>1, <1>2, <1>3, PTL DEF Spec

(* and whatever sends, reads and writes fail.                              *)
THEOREM LockStep == Len(Jobs) <= 1 => (Spec /\ []NoWrap => []InStep)
<1> SUFFICES ASSUME Len(Jobs) <= 1 PROVE Spec /\ []NoWrap => []InStep
  BY SMTT(30)
<1>1. IInv => InStep
  BY DEF IInv, Untouched, Lock, Partner, InStep, Own
<1>2. Spec /\ []NoWrap => [](TypeOK /\ IInv)
  BY LockInvariant
<1>3. QED
  BY <1>1, <1>2, PTL
=============================================================================
