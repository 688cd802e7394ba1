---------------------------- MODULE TftpGetData ----------------------------
(* What a get delivers, for every number of servers, every file and every  *)
(* block size: the blocks the servers send are those of the file, and what *)
(* the client writes is the file up to the block it waits for.             *)
EXTENDS TftpGetProofs

\* The inductive invariant.  q is the read request that started the servers.

\* Every tftpd serves the file that q asks for, in blocks of the size that q
\* is granted, and no packet but its blocks and its OACK has been sent.
Serves(i, q) ==
  /\ s[i].st = "free" => s[i].block = 0
  /\ s[i].st = "wait" \/ s[i].block > 0 => s[i].blksize = ServerOptions(q).blksize
  /\ s[i].st = "wait" =>
       /\ s[i].name = q.name /\ Working(i, s[i])
       /\ s[i].block = 0 => /\ ServerOptions(q).etftp
                            /\ s[i].pkt = OACK(i, q.blksize, ServerOptions(q).tout)
Carries(p, q) ==
  /\ p.op = "RRQ" => p = q
  /\ p.op = "OACK" => ServerOptions(q).etftp /\ p.blksize = q.blksize
  /\ p.op = "DATA" =>
       /\ q.name \in DOMAIN Files
       /\ \E k \in 1..s[p.srv].block :
            p = DATA(p.srv, k, Block(Files[q.name], ServerOptions(q).blksize, k))
Served(q) ==
  /\ q.name = Jobs[1]
  /\ \A i \in Srv : Serves(i, q)
  /\ \A p \in net : Carries(p, q)

\* The client has written the blocks before the one it waits for.  Once it
\* knows what the server granted it cuts the file as the server does; until
\* then, no server that granted options has sent a block.
Prefix(q, k) == SubSeq(Wanted(q.name), 1, Before(ServerOptions(q).blksize, k))
Received(q) ==
  /\ Clean(c.buf)
  /\ c.oack \/ c.block > 1 => /\ c.blksize = ServerOptions(q).blksize
                              /\ c.readlen = c.blksize
  /\ ~(c.oack \/ c.block > 1) => c.serv = NoSrv /\ c.readlen = SegSize
  /\ ServerOptions(q).etftp => \A j \in Srv \ {c.serv} : s[j].block = 0
  /\ Before(ServerOptions(q).blksize, c.block) <= Len(Wanted(q.name))
  /\ c.werr => "write" \in Faults
  /\ ~c.werr => c.disk = Prefix(q, c.block)

\* The one get is under way, or it has ended and is logged.
Logged ==
  /\ c.job = 0 \/ c.st = "wait" => got = <<>>
  /\ c.job = 1 /\ c.st # "wait" =>
       /\ got = <<got[1]>> /\ got[1].name = Jobs[1]
       /\ got[1].status = "ok" /\ ~got[1].werr => got[1].disk = Wanted(Jobs[1])

\* The request has not been sent, or it could not be; or it has been, and
\* there is no other.
Quiet == c.st # "wait" /\ net = {} /\ \A i \in Srv : s[i] = Fresh
Requested ==
  \E q \in net : q.op = "RRQ" /\ Served(q) /\ (c.st = "wait" => Received(q))
DInv == Logged /\ (Quiet \/ Requested)

-----------------------------------------------------------------------------
(* A step of a tftpd does not go back in the file.                         *)
LEMMA BlocksGrow ==
  ASSUME TypeOK, NEW q, Served(q), NEW i \in Srv, ServerEffect(i)
  PROVE  \A j \in Srv : s[j].block \in Nat /\ s'[j].block \in Nat
                        /\ s[j].block <= s'[j].block
<1>1. /\ \A j \in Srv \ {i} : s'[j] = s[j]
      /\ \A j \in Srv : s[j].block \in Nat
  BY DEF ServerEffect, TypeOK, ServerType
<1>2. s[i].st = "free" => s[i].block = 0
  BY DEF Served, Serves
<1>3. s'[i].block \in {s[i].block, s[i].block + 1, 0, 1}
      /\ (s[i].st # "free" => s'[i].block \in {s[i].block, s[i].block + 1})
  BY DEF ServerEffect, Stops, Repeats, GoesOn, Sends, Starts, Offers
<1>4. QED
  BY <1>1, <1>2, <1>3

(* What was sent stays one of the packets of this get.                     *)
LEMMA OldCarries ==
  ASSUME TypeOK, NEW q, Served(q), NEW i \in Srv, ServerEffect(i), NEW p \in net
  PROVE  Carries(p, q)'
<1>1. Carries(p, q)
  BY DEF Served
<1>2. p.op = "DATA" => p.srv \in Srv
  BY DEF TypeOK, Packets, Request, Reply
<1>3. ASSUME p.op = "DATA", NEW k \in 1..s[p.srv].block
      PROVE  k \in 1..s'[p.srv].block
  BY <1>2, <1>3, BlocksGrow
<1>4. QED
  BY <1>1, <1>3 DEF Carries

(* A step of a tftpd sends nothing but its block of the file asked for, or *)
(* the OACK for the options asked for.                                     *)
LEMMA ServerKeepsServed ==
  ASSUME TypeOK, NEW q \in net, q.op = "RRQ", Served(q),
         NEW i \in Srv, ServerEffect(i)
  PROVE  Served(q)'
<1>1. /\ \A j \in Srv \ {i} : s'[j] = s[j]
      /\ \A j \in Srv : s[j].block \in Nat
  BY DEF ServerEffect, TypeOK, ServerType
<1>2. \A p \in net : Carries(p, q)'
  BY OldCarries
<1>3. \A j \in Srv \ {i} : Serves(j, q)'
  BY <1>1 DEF Served, Serves
<1>4. Serves(i, q) /\ q.name = Jobs[1]
  BY DEF Served
<1>5. ASSUME s'[i].st = "wait", Serves(i, q)', q.name \in DOMAIN Files
      PROVE  \A p \in {s'[i].pkt} : Carries(p, q)'
  <2> SUFFICES ASSUME NEW p, p = s'[i].pkt PROVE Carries(p, q)'
    OBVIOUS
  <2>1. CASE s'[i].block = 0
    BY SMTT(30), <1>5, <2>1, PacketFields DEF Serves, Carries, OACK
  <2>2. CASE s'[i].block # 0
    <3>1. s'[i].block \in 1..s'[i].block
      BY <2>2, BlocksGrow
    <3>2. p = DATA(i, s'[i].block,
                   Block(Files[q.name], ServerOptions(q).blksize, s'[i].block))
      BY <1>5, <3>1 DEF Serves, Working
    <3>3. p.op = "DATA" /\ p.srv = i
      BY <3>2, PacketFields
    <3>4. QED BY <1>5, <3>1, <3>2, <3>3 DEF Carries
  <2>3. QED BY <2>1, <2>2
<1>6. CASE Stops(i)
  <2>1. Serves(i, q)'
    BY <1>4, <1>6 DEF Stops, Keeps, Serves
  <2>2. \A p \in net' : p \in net \/ p.op = "ERROR"
    BY <1>6, PacketFields DEF Stops
  <2>3. \A p \in net' : Carries(p, q)'
    BY <1>2, <2>2 DEF Carries
  <2>4. QED BY SMTT(30), <1>3, <1>4, <2>1, <2>3 DEF Served
<1>7. CASE Repeats(i)
  <2>1. Serves(i, q)' /\ s'[i].st = "wait" /\ q.name \in DOMAIN Files
    BY <1>4, <1>7 DEF Repeats, Keeps, Serves, TypeOK, Serving
  <2>2. net' = net \cup {s'[i].pkt}
    BY Zenon, <1>7 DEF Repeats
  <2>3. QED BY SMTT(30), <1>2, <1>3, <1>4, <1>5, <2>1, <2>2 DEF Served
<1>8. CASE GoesOn(i)
  <2>1. s'[i].block # 0
    BY SMTT(30), <1>1, <1>8 DEF GoesOn, Sends
  <2>2. Serves(i, q)' /\ s'[i].st = "wait" /\ q.name \in DOMAIN Files
    BY SMTT(30), <1>4, <1>8, <2>1 DEF GoesOn, Sends, Keeps, Serves, TypeOK, Serving
  <2>3. net' = net \cup {s'[i].pkt}
    BY <1>8 DEF GoesOn, Sends
  <2>4. QED BY <1>2, <1>3, <1>4, <1>5, <2>2, <2>3 DEF Served
<1>9. CASE \E p \in net : Starts(i, p)
  <2>1. PICK p \in net : Starts(i, p)
    BY <1>9
  <2>2. p = q
    BY <2>1 DEF Starts, Served, Carries
  <2>3. /\ net' = net \cup {s'[i].pkt} /\ s'[i].st = "wait" /\ q.name \in DOMAIN Files
        /\ s'[i].block = 0 => /\ ServerOptions(q).etftp
                              /\ s'[i].pkt = OACK(i, q.blksize, ServerOptions(q).tout)
    BY <2>1, <2>2 DEF Starts, Offers, Sends
  <2>4. Serves(i, q)'
    BY <2>1, <2>2, <2>3 DEF Starts, Serves
  <2>5. QED BY SMTT(30), <1>2, <1>3, <1>4, <1>5, <2>3, <2>4 DEF Served
<1>10. QED
  BY SMTT(30), <1>6, <1>7, <1>8, <1>9 DEF ServerEffect

(* A step of the client in a get sends acks, or what it has sent before.   *)
LEMMA ClientSends ==
  ASSUME Lock, GivesUp \/ Again \/ \E p \in net : Takes(p) \/ Accepts(p)
  PROVE  net \subseteq net' /\ \A p \in net' : p \in net \/ p.op = "ACK"
<1>1. c.pkt \in net
  BY DEF Lock, SentBefore
<1>2. CASE GivesUp
  BY <1>2, PacketFields DEF GivesUp
<1>3. CASE Again
  BY SMTT(30), <1>1, <1>3, PacketFields DEF Again, Sent
<1>4. CASE \E p \in net : Takes(p) \/ Accepts(p)
  BY <1>4, PacketFields DEF Takes, Accepts, Sent
<1>5. QED
  BY <1>2, <1>3, <1>4

(* The client sends requests and acks only: its steps leave what the       *)
(* servers serve and what carries the file as they were.                   *)
LEMMA ClientKeepsServed ==
  ASSUME NEW q, Served(q), s' = s, \A p \in net' : p \in net \/ p.op = "ACK"
  PROVE  Served(q)'
<1>1. \A p \in net' : Carries(p, q)'
  BY DEF Served, Carries
<1>2. \A i \in Srv : Serves(i, q)'
  BY DEF Served, Serves
<1>3. QED
  BY <1>1, <1>2 DEF Served

(* A server the client does not listen to gets no ack, so that it does not *)
(* go past its OACK.                                                       *)
LEMMA ServerKeepsReceived ==
  ASSUME TypeOK, Lock, NEW q \in net, q.op = "RRQ", Served(q), Received(q),
         NEW i \in Srv, ServerEffect(i), c' = c
  PROVE  Received(q)'
<1>1. /\ \A j \in Srv \ {i} : s'[j] = s[j]
      /\ \A j \in Srv : s[j].block \in Nat
  BY DEF ServerEffect, TypeOK, ServerType
<1>2. ASSUME ServerOptions(q).etftp, i # c.serv PROVE s'[i].block = 0
  <2>1. s[i].block = 0
    BY <1>2 DEF Received
  <2>2. ~GoesOn(i)
    BY <1>2 DEF GoesOn, Acked, Lock, AcksBehind
  <2>3. ASSUME NEW p \in net, Starts(i, p) PROVE s'[i].block = 0
    <3>1. p = q
      BY SMTT(30), <2>3 DEF Starts, Served, Carries
    <3>2. QED BY Zenon, <1>2, <2>3, <3>1 DEF Starts, Offers
  <2>4. QED BY <2>1, <2>2, <2>3 DEF ServerEffect, Stops, Repeats
<1>3. ServerOptions(q).etftp => \A j \in Srv \ {c.serv} : s'[j].block = 0
  BY <1>1, <1>2 DEF Received
<1>4. QED
  BY <1>3 DEF Received, Prefix

(* What a request is granted: without options the default block size.      *)
LEMMA Granted ==
  ASSUME TypeOK, NEW q \in net, q.op = "RRQ"
  PROVE  /\ ServerOptions(q).blksize \in Nat \ {0}
         /\ q.blksize = 0 => ServerOptions(q).blksize = SegSize
         /\ q.blksize # 0 => ServerOptions(q).blksize = q.blksize
         /\ ~ServerOptions(q).etftp => q.blksize = 0
<1>1. q.blksize \in Nat /\ SegSize \in Nat \ {0}
  BY CommonAssumption DEF TypeOK, Packets, Request, Reply
<1>2. QED
  BY Zenon, <1>1 DEF ServerOptions

(* The block the client takes is the one of the file it waits for, and it  *)
(* is cut as the client expects: the lock step rules out any other block   *)
(* of this number.                                                         *)
LEMMA TakesBlock ==
  ASSUME TypeOK, Lock, NoWrap, c.st = "wait", NEW q \in net, q.op = "RRQ",
         Served(q), Received(q), NEW p \in net, Takes(p)
  PROVE  /\ Settled = ServerOptions(q).blksize
         /\ Clip(p) = Block(Wanted(q.name), ServerOptions(q).blksize, c.block)
<1> DEFINE blk == ServerOptions(q).blksize
<1>1. /\ \A j \in Srv : s[j].block \in Nat
      /\ c.block \in Nat /\ c.serv \in Srv \cup {NoSrv}
      /\ NoSrv \notin Srv /\ BlockMod \in Nat /\ SegSize \in Nat
  BY CommonAssumption DEF TypeOK, ClientType, ServerType
<1>2. p.op = "DATA" /\ p.srv \in Srv /\ p.block = Wire(c.block) /\ FromServer(p)
  BY DEF Takes, TypeOK, Packets, Request, Reply
<1>3. q.name \in DOMAIN Files /\ Wanted(q.name) = Files[q.name]
  BY <1>2 DEF Served, Carries, Wanted
<1>4. PICK k \in 1..s[p.srv].block : p = DATA(p.srv, k, Block(Files[q.name], blk, k))
  BY Zenon, <1>2 DEF Served, Carries
<1>5. k = c.block
  <2>1. s[p.srv].block <= c.block /\ c.block < BlockMod
    BY SMTT(30), <1>1, <1>2 DEF Lock, Partner, Strangers, FromServer, NoWrap
  <2>2. k \in Nat /\ k < BlockMod
    BY SMTT(30), <1>1, <1>2, <2>1
  <2>3. Wire(k) = k /\ Wire(c.block) = c.block
    BY Zenon, <1>1, <2>1, <2>2, WireIdentity
  <2>4. QED BY SMTT(30), <1>2, <1>4, <2>3, PacketFields
<1>6. p.data = Block(Files[q.name], blk, c.block)
  BY SMTT(30), <1>4, <1>5 DEF DATA
<1>7. blk \in Nat \ {0} /\ c.block \in Nat \ {0} /\ Files[q.name] \in Seq(Byte)
  BY SMTT(30), <1>1, <1>2, <1>3, <1>4, <1>5, Granted, GetAssumption
<1>8. p.data \in Seq(Byte) /\ Len(p.data) \in 0..blk
  BY SMTT(30), <1>6, <1>7, BlockProperties
<1>9. Settled = blk /\ c.readlen = blk
  <2>1. CASE c.oack \/ c.block > 1
    BY SMTT(30), <1>1, <2>1 DEF Received, Settled
  <2>2. CASE ~(c.oack \/ c.block > 1)
    <3>1. c.readlen = SegSize /\ c.serv = NoSrv /\ c.block = 1
      BY SMTT(30), <1>7, <2>2 DEF Received
    <3>2. ~ServerOptions(q).etftp
      BY SMTT(30), <1>1, <1>2, <3>1 DEF Received
    <3>3. QED BY Zenon, <2>2, <3>1, <3>2, Granted DEF Settled
  <2>3. QED BY Zenon, <2>1, <2>2
<1>10. Clip(p) = p.data
  <2>1. ~(blk < Len(p.data))
    BY <1>7, <1>8
  <2>2. Clip(p) = SubSeq(p.data, 1, Len(p.data))
    BY Zenon, <1>9, <2>1 DEF Clip
  <2>3. QED BY Zenon, <1>8, <2>2, WholeSeq
<1>11. QED
  BY Zenon, <1>3, <1>6, <1>9, <1>10

(* A full block leads to the next place in the file; a short one is the    *)
(* end of the file.                                                        *)
LEMMA TakesStores ==
  ASSUME TypeOK, Lock, NoWrap, c.st = "wait", NEW q \in net, q.op = "RRQ",
         Served(q), Received(q), NEW p \in net, Takes(p)
  PROVE  /\ Clean(c'.buf) /\ c'.blksize = ServerOptions(q).blksize
         /\ c'.werr => "write" \in Faults
         /\ Len(Clip(p)) = Settled =>
              /\ Before(ServerOptions(q).blksize, c.block + 1) <= Len(Wanted(q.name))
              /\ ~c'.werr => c'.disk = Prefix(q, c.block + 1)
         /\ Len(Clip(p)) # Settled =>
              /\ Len(Wanted(q.name)) < Before(ServerOptions(q).blksize, c.block + 1)
              /\ ~c'.werr => c'.disk = Wanted(q.name)
<1> DEFINE blk  == ServerOptions(q).blksize
           file == Wanted(q.name)
           d    == Block(file, blk, c.block)
           all  == SubSeq(file, 1, Before(blk, c.block)) \o d
<1>1. Settled = blk /\ Clip(p) = d
  BY ZenonT(30), TakesBlock
<1>2. c.block \in Nat \ {0} /\ blk \in Nat /\ file \in Seq(Byte)
  <2>1. <<>> \in Seq(Byte)
    BY SMTT(30)
  <2>2. QED BY SMTT(30), <2>1, Granted, GetAssumption DEF TypeOK, ClientType, Wanted, Lock, Strangers
<1>3. Before(blk, c.block) <= Len(file)
  BY SMTT(30) DEF Received
<1>4. /\ Len(d) = blk => /\ Before(blk, c.block + 1) <= Len(file)
                         /\ all = SubSeq(file, 1, Before(blk, c.block + 1))
      /\ Len(d) # blk => Len(file) < Before(blk, c.block + 1) /\ all = file
  <2>1. Leads(file, blk, c.block)
    BY <1>2, <1>3, BlockLeads
  <2>2. QED BY Zenon, <2>1 DEF Leads
<1>5. /\ Clean(c'.buf) /\ c'.blksize = blk /\ (c.werr => c'.werr)
      /\ c'.werr => "write" \in Faults
      /\ ~c'.werr => c'.disk = c.disk \o d
  BY Zenon, <1>1 DEF Takes, Stores, Received
<1>6. ~c'.werr => c'.disk = all
  BY Zenon, <1>5 DEF Received, Prefix
<1> HIDE DEF d, all
<1>7. QED
  BY Zenon, <1>1, <1>4, <1>5, <1>6 DEF Prefix

(* What a step that writes nothing leaves on disk.                         *)
LEMMA StoresNothing ==
  ASSUME TypeOK, Stores(<<>>), NEW q, Received(q)
  PROVE  /\ Clean(c'.buf) /\ (c'.werr => "write" \in Faults)
         /\ ~c'.werr => c'.disk = Prefix(q, c.block)
<1>1. c.disk \in Seq(Byte)
  BY DEF TypeOK, ClientType
<1>2. c.disk \o <<>> = c.disk
  BY <1>1, ConcatNothing
<1>3. QED
  BY <1>2 DEF Stores, Received

(* A step of the client keeps what it has received.                        *)
LEMMA ClientKeepsReceived ==
  ASSUME TypeOK, Lock, NoWrap, c.st = "wait", Registers = {}, s' = s, c'.st = "wait",
         NEW q \in net, q.op = "RRQ", Served(q), Received(q),
         NEW p \in net, Again \/ Takes(p) \/ Accepts(p)
  PROVE  Received(q)'
<1>1. c.block \in Nat /\ c.block >= 1 /\ NoSrv \notin Srv
  BY Zenon, CommonAssumption DEF TypeOK, ClientType, Lock, Strangers
<1>2. CASE Again
  <2>1. /\ c'.block = c.block /\ c'.serv = c.serv /\ c'.blksize = c.blksize
        /\ c'.oack = c.oack /\ c'.readlen = c.readlen /\ Stores(<<>>)
    BY Zenon, <1>2 DEF Again
  <2>2. /\ Clean(c'.buf) /\ (c'.werr => "write" \in Faults)
        /\ (~c'.werr => c'.disk = Prefix(q, c.block))
    BY Zenon, <2>1, StoresNothing
  <2>3. QED BY <2>1, <2>2 DEF Received, Prefix
<1>3. CASE Takes(p)
  <2>1. /\ Len(Clip(p)) = Settled /\ c'.block = c.block + 1 /\ c'.serv = p.srv
        /\ c'.readlen = Settled /\ c'.blksize = Settled /\ FromServer(p)
    BY Zenon, <1>3 DEF Takes, Logs
  <2>2. /\ Clean(c'.buf) /\ c'.blksize = ServerOptions(q).blksize
        /\ c'.werr => "write" \in Faults
        /\ Before(ServerOptions(q).blksize, c'.block) <= Len(Wanted(q.name))
        /\ ~c'.werr => c'.disk = Prefix(q, c'.block)
    BY Zenon, <1>3, <2>1, TakesStores
  <2>3. c'.block > 1
    BY SMTT(30), <1>1, <2>1
  <2>4. ServerOptions(q).etftp => \A j \in Srv \ {c'.serv} : s'[j].block = 0
    BY Zenon, <1>1, <2>1 DEF Received, FromServer
  <2>5. QED BY Zenon, <2>1, <2>2, <2>3, <2>4 DEF Received, Prefix
<1>4. CASE Accepts(p)
  <2>1. /\ c'.block = 1 /\ c.block = 1 /\ c'.serv = p.srv /\ c'.oack /\ FromServer(p)
        /\ c'.readlen = c'.blksize /\ Stores(<<>>) /\ p.op = "OACK"
        /\ c'.blksize = IF p.blksize = 0 THEN SegSize ELSE p.blksize
    BY Zenon, <1>4 DEF Accepts
  <2>2. /\ Clean(c'.buf) /\ (c'.werr => "write" \in Faults)
        /\ (~c'.werr => c'.disk = Prefix(q, c'.block))
    BY Zenon, <2>1, StoresNothing
  <2>3. ServerOptions(q).etftp /\ p.blksize = q.blksize
    BY <2>1 DEF Served, Carries
  <2>4. c'.blksize = ServerOptions(q).blksize
    BY Zenon, <2>1, <2>3, Granted
  <2>5. \A j \in Srv \ {c'.serv} : s'[j].block = 0
    BY SMTT(30), <1>1, <2>1, <2>3 DEF Received, FromServer
  <2>6. Before(ServerOptions(q).blksize, c'.block) <= Len(Wanted(q.name))
    BY <2>1 DEF Received
  <2>7. QED BY Zenon, <2>1, <2>2, <2>4, <2>5, <2>6 DEF Received, Prefix
<1>5. QED
  BY <1>2, <1>3, <1>4

-----------------------------------------------------------------------------
(* A step of a tftpd keeps the invariant.                                  *)
LEMMA ServerKeepsDInv ==
  ASSUME TypeOK, NoWrap, IInv, DInv, NEW i \in Srv, Server(i)
  PROVE  DInv'
<1>1. ServerEffect(i) /\ c' = c
  BY SMTT(30), ServerStepEffect, ServerStepType
<1>2. got' = got
  BY Zenon DEF Server, Start, ServerRecv, GotAck, StaleAck, Refused, ServerTimer
<1>3. ~Quiet
  BY NoneStarted DEF Quiet
<1>4. PICK q \in net : q.op = "RRQ" /\ Served(q) /\ (c.st = "wait" => Received(q))
  BY <1>3 DEF DInv, Requested
<1>5. c.st = "wait" => Lock
  BY ZenonT(30) DEF IInv, Untouched
<1>6. net \subseteq net'
  BY <1>1 DEF ServerEffect, Stops, Repeats, GoesOn, Starts, Offers, Sends
<1>7. Served(q)' /\ (c'.st = "wait" => Received(q)')
  BY ZenonT(30), <1>1, <1>4, <1>5, ServerKeepsServed, ServerKeepsReceived
<1>8. Logged'
  BY Zenon, <1>1, <1>2 DEF DInv, Logged
<1>9. QED
  BY <1>4, <1>6, <1>7, <1>8 DEF DInv, Requested

(* What ends a get, and how it is logged.                                  *)
LEMMA EndIsLogged ==
  ASSUME NEW status, Logs(status), c'.job = 1, got = <<>>,
         status = "ok" => (~c'.werr => c'.disk = Wanted(Jobs[1]))
  PROVE  Logged'
<1> DEFINE g == [name |-> Jobs[c'.job], status |-> status, serv |-> c'.serv,
                 disk |-> c'.disk, werr |-> c'.werr]
<1>1. g.name = Jobs[1] /\ g.status = status /\ g.disk = c'.disk /\ g.werr = c'.werr
  OBVIOUS
<1>2. c'.st = "idle" /\ got' = Append(<<>>, g)
  BY DEF Logs
<1> HIDE DEF g
<1>3. got' = <<g>> /\ got'[1] = g
  BY <1>2
<1>4. QED
  BY SMTT(30), <1>1, <1>2, <1>3 DEF Logged

(* So does one of the client: asking for the file ...                      *)
LEMMA AskKeepsDInv ==
  ASSUME TypeOK, IInv, DInv, Asks, s' = s, net' \subseteq Packets, Len(Jobs) <= 1
  PROVE  DInv'
<1>1. Untouched /\ c'.job = 1 /\ got = <<>>
  <2>1. c.job \in Nat /\ Len(Jobs) \in Nat
    BY SMTT(30), GetAssumption DEF TypeOK, ClientType
  <2>2. QED BY <2>1 DEF Asks, IInv, Untouched, DInv, Logged
<1>2. CASE c'.st = "wait"
  <2>1. net' = {c'.pkt} /\ got' = got
    BY Zenon, <1>1, <1>2 DEF Asks, Sent, Logs, Untouched
  <2> DEFINE q == c'.pkt
  <2>2. q \in net' /\ q.op = "RRQ" /\ q.name = Jobs[1]
    BY Zenon, <1>1, <2>1 DEF Asks
  <2> HIDE DEF q
  <2>3. \A i \in Srv : s'[i] = Fresh /\ Fresh.st = "free" /\ Fresh.block = 0
    BY <1>1, FreshType DEF Untouched, Fresh
  <2>4. /\ c'.block = 1 /\ c'.serv = NoSrv /\ ~c'.oack /\ c'.readlen = SegSize
        /\ Clean(c'.buf) /\ c'.disk = <<>> /\ (c'.werr => "write" \in Faults)
    BY DEF Asks
  <2>5. \A r \in net' : r.op = "RRQ" /\ r = q
    BY Zenon, <2>1, <2>2 DEF q
  <2>6. \A r \in net' : Served(r)'
    BY SMTT(30), <2>2, <2>3, <2>5 DEF Served, Serves, Carries
  <2>7. \A r \in net' : Received(r)'
    <3> SUFFICES ASSUME NEW r \in net' PROVE Received(r)'
      OBVIOUS
    <3>1. r.blksize \in Nat /\ SegSize \in Nat
      BY Zenon, <2>5, CommonAssumption DEF Packets, Request, Reply
    <3>2. ServerOptions(r).blksize \in Nat
      BY <3>1 DEF ServerOptions
    <3>3. Before(ServerOptions(r).blksize, 1) = 0
      BY <3>2 DEF Before
    <3>4. Wanted(r.name) \in Seq(Byte)
      BY GetAssumption DEF Wanted
    <3>5. SubSeq(Wanted(r.name), 1, 0) = <<>> /\ 0 <= Len(Wanted(r.name))
      BY <3>4
    <3>6. QED BY SMTT(30), <2>3, <2>4, <3>3, <3>5 DEF Received, Prefix
  <2>8. QED BY Zenon, <1>1, <1>2, <2>1, <2>2, <2>6, <2>7 DEF DInv, Requested, Logged
<1>3. CASE c'.st # "wait"
  <2>1. Logs("sendto") /\ net' = {}
    BY <1>1, <1>3 DEF Asks, Sent, Untouched
  <2>2. QED BY Zenon, <1>1, <1>3, <2>1, EndIsLogged DEF DInv, Quiet, Untouched
<1>4. QED
  BY <1>2, <1>3

(* ... and every step of a get, to its end.                                *)
LEMMA GetKeepsDInv ==
  ASSUME TypeOK, NoWrap, IInv, DInv, Registers = {}, s' = s,
         GivesUp \/ Again \/ \E p \in net : Takes(p) \/ Accepts(p)
  PROVE  DInv'
<1>1. c.st = "wait" /\ c'.job = c.job
  BY DEF GivesUp, Again, Takes, Accepts, FromServer
<1>2. Lock /\ c.job = 1 /\ got = <<>>
  BY Zenon, <1>1 DEF IInv, Untouched, DInv, Logged
<1>3. PICK q \in net : q.op = "RRQ" /\ Served(q) /\ Received(q)
  BY <1>1 DEF DInv, Quiet, Requested
<1>4. net \subseteq net' /\ \A p \in net' : p \in net \/ p.op = "ACK"
  BY <1>2, ClientSends
<1>5. Served(q)'
  BY Zenon, <1>3, <1>4, ClientKeepsServed
<1>6. CASE c'.st = "wait"
  <2>1. Received(q)'
    BY Zenon, <1>1, <1>2, <1>3, <1>6, ClientKeepsReceived DEF GivesUp, Logs
  <2>2. got' = got
    BY Zenon, <1>6 DEF GivesUp, Again, Takes, Accepts, Sent, Logs
  <2>3. Logged'
    BY Zenon, <1>1, <1>2, <1>6, <2>2 DEF Logged
  <2>4. QED BY Zenon, <1>3, <1>4, <1>5, <2>1, <2>3 DEF DInv, Requested
<1>7. CASE c'.st # "wait"
  <2>1. \/ \E e \in {"timeout", "intr", "error", "sendto"} : Logs(e)
        \/ \E p \in net : Takes(p) /\ Len(Clip(p)) # Settled /\ Logs("ok")
    BY ZenonT(30), <1>7 DEF GivesUp, Again, Takes, Accepts, Sent
  <2>2. ASSUME NEW p \in net, Takes(p), Len(Clip(p)) # Settled, Logs("ok")
        PROVE  Logged'
    <3>1. ~c'.werr => c'.disk = Wanted(Jobs[1])
      BY Zenon, <1>1, <1>2, <1>3, <2>2, TakesStores DEF Served
    <3>2. QED BY ZenonT(30), <1>1, <1>2, <2>2, <3>1, EndIsLogged
  <2>3. Logged'
    BY Zenon, <1>1, <1>2, <2>1, <2>2, EndIsLogged
  <2>4. QED BY ZenonT(30), <1>3, <1>4, <1>5, <1>7, <2>3 DEF DInv, Requested
<1>8. QED
  BY Zenon, <1>6, <1>7

(* The inductive invariant holds of one get whose block numbers do not     *)
(* wrap around, when longjmp() sets no local back.                         *)
LEMMA StepKeepsDInv ==
  ASSUME Len(Jobs) <= 1, Registers = {}, TypeOK, NoWrap, IInv, DInv, [Next]_vars
  PROVE  DInv'
<1>1. CASE Client
  <2>1. ClientEffect /\ s' = s /\ net' \subseteq Packets
    BY <1>1, ClientStepEffect, ClientStepType DEF ClientOK
  <2>2. CASE Idles
    <3>1. Logged'
      BY <2>2 DEF Idles, DInv, Logged
    <3>2. Quiet => Quiet'
      BY Zenon, <2>1, <2>2 DEF Idles, Quiet
    <3>3. Requested => Requested'
      <4>1. ASSUME NEW q \in net, Served(q) PROVE Served(q)'
        BY SMTT(30), <2>1, <2>2, <4>1, ClientKeepsServed DEF Idles
      <4>2. QED BY <2>2, <4>1 DEF Requested, Idles
    <3>4. QED BY Zenon, <3>1, <3>2, <3>3 DEF DInv
  <2>3. CASE Asks
    BY SMTT(30), <2>1, <2>3, AskKeepsDInv
  <2>4. QED BY SMTT(30), <2>1, <2>2, <2>3, GetKeepsDInv DEF ClientEffect
<1>2. CASE \E i \in Srv : Server(i)
  BY ZenonT(30), <1>2, ServerKeepsDInv
<1>3. CASE UNCHANGED vars
  BY <1>3 DEF vars, DInv, Logged, Quiet, Requested, Served, Serves, Carries, Received,
              Prefix
<1>4. QED
  BY Zenon, <1>1, <1>2, <1>3 DEF Next

(* So the inductive invariant holds throughout a get.                      *)
LEMMA DeliveryInvariant ==
  Len(Jobs) <= 1 /\ Registers = {} =>
    (Spec /\ []NoWrap => [](TypeOK /\ IInv /\ DInv))
<1> SUFFICES ASSUME Len(Jobs) <= 1, Registers = {}
             PROVE  Spec /\ []NoWrap => [](TypeOK /\ IInv /\ DInv)
  BY ZenonT(30)
<1>1. Init => DInv
  BY DEF Init, DInv, Logged, Quiet
<1>2. TypeOK /\ NoWrap /\ IInv /\ DInv /\ [Next]_vars => DInv'
  BY StepKeepsDInv
<1>3. Spec /\ []NoWrap => [](TypeOK /\ IInv)
  BY LockInvariant
<1>4. QED
  BY <1>1, <1>2, <1>3, PTL DEF Spec

(* A get that ends with a short block, with no failed write, has written   *)
(* the whole file: for every file, every block size asked for and granted, *)
(* any number of servers, and packets lost, repeated and late.             *)
THEOREM GetDelivers ==
  Len(Jobs) <= 1 /\ Registers = {} => (Spec /\ []NoWrap => []GetComplete)
<1> SUFFICES ASSUME Len(Jobs) <= 1, Registers = {}
             PROVE  Spec /\ []NoWrap => []GetComplete
  OBVIOUS
<1>1. TypeOK /\ IInv /\ DInv => GetComplete
  <2> SUFFICES ASSUME IInv, DInv PROVE GetComplete
    OBVIOUS
  <2>1. CASE got = <<>>
    BY <2>1 DEF GetComplete
  <2>2. CASE c.job = 1 /\ c.st # "wait"
    <3>1. /\ got = <<got[1]>> /\ got[1].name = Jobs[1]
          /\ got[1].status = "ok" /\ ~got[1].werr => got[1].disk = Wanted(Jobs[1])
      BY <2>2 DEF DInv, Logged
    <3>2. DOMAIN got = {1}
      BY <3>1
    <3>3. QED BY Zenon, <3>1, <3>2 DEF GetComplete
  <2>3. QED BY <2>1, <2>2 DEF IInv, Untouched, DInv, Logged
<1>2. Spec /\ []NoWrap => [](TypeOK /\ IInv /\ DInv)
  BY Zenon, DeliveryInvariant
<1>3. QED
  BY <1>1, <1>2, PTL

(* Past the first block, client and server cut the file alike.             *)
THEOREM SizesAgree ==
  Len(Jobs) <= 1 /\ Registers = {} => (Spec /\ []NoWrap => []BlksizeAgreed)
<1> SUFFICES ASSUME Len(Jobs) <= 1, Registers = {}
             PROVE  Spec /\ []NoWrap => []BlksizeAgreed
  OBVIOUS
<1>1. TypeOK /\ IInv /\ DInv => BlksizeAgreed
  <2> SUFFICES ASSUME TypeOK, IInv, DInv, c.st = "wait", c.block > 1, c.serv # NoSrv
               PROVE  s[c.serv].blksize = c.blksize
    BY DEF BlksizeAgreed, Own
  <2>1. Lock
    BY DEF IInv, Untouched
  <2>2. PICK q \in net : Served(q) /\ Received(q)
    BY DEF DInv, Quiet, Requested
  <2>3. c.serv \in Srv /\ c.block \in Nat
    BY DEF TypeOK, ClientType
  <2>4. s[c.serv].block > 0
    BY <2>1, <2>3 DEF Lock, Partner
  <2>5. QED BY Zenon, <2>2, <2>3, <2>4 DEF Served, Serves, Received
<1>2. Spec /\ []NoWrap => [](TypeOK /\ IInv /\ DInv)
  BY DeliveryInvariant
<1>3. QED
  BY <1>1, <1>2, PTL

(* The first block does not undo what an OACK has granted.                 *)
THEOREM OackIsKept ==
  Len(Jobs) <= 1 /\ Registers = {} => (Spec /\ []NoWrap => RevertsOnlyWithoutOack)
<1> DEFINE Reverts == /\ c.st = "wait" /\ c.block = 1 /\ c.serv # NoSrv
                      /\ c'.st # "wait" \/ c'.block = 2
           Kept    == c'.blksize = c.blksize
<1> SUFFICES ASSUME Len(Jobs) <= 1, Registers = {}
             PROVE  Spec /\ []NoWrap => RevertsOnlyWithoutOack
  OBVIOUS
<1>1. TypeOK /\ NoWrap /\ IInv /\ DInv /\ [Next]_vars => [Reverts => Kept]_vars
  <2> SUFFICES ASSUME TypeOK, NoWrap, IInv, DInv, Next, Reverts PROVE Kept
    BY Zenon
  <2>1. CASE Client
    <3>1. ClientEffect
      BY <2>1, ClientStepEffect
    <3>2. PICK q \in net : q.op = "RRQ" /\ Served(q) /\ Received(q)
      BY Zenon DEF DInv, Quiet, Requested
    <3>3. c.oack /\ c.blksize = ServerOptions(q).blksize
      BY SMTT(30), <3>2 DEF Received
    <3>4. ASSUME NEW p \in net, Accepts(p) PROVE Kept
      <4>1. p.blksize = q.blksize
        BY Zenon, <3>2, <3>4 DEF Served, Carries, Accepts
      <4>2. QED BY ZenonT(30), <3>2, <3>3, <3>4, <4>1, Granted DEF Accepts
    <3>5. ASSUME NEW p \in net, Takes(p) PROVE Kept
      BY Zenon, <3>3, <3>5 DEF Takes, Settled
    <3>6. QED BY <3>1, <3>4, <3>5 DEF ClientEffect, Idles, Asks, GivesUp, Again
  <2>2. CASE \E i \in Srv : Server(i)
    BY Zenon, <2>2, ServerStepType
  <2>3. QED BY Zenon, <2>1, <2>2 DEF Next
<1>2. Spec /\ []NoWrap => [](TypeOK /\ IInv /\ DInv)
  BY DeliveryInvariant
<1>3. QED
  BY <1>1, <1>2, PTL DEF Spec, RevertsOnlyWithoutOack

-----------------------------------------------------------------------------
(* The refinement: where FileCopy is in each state of the get.             *)
CopyPhase == IF Len(got) = LastJob
             THEN IF got[LastJob].status = "ok" THEN "complete" ELSE "failed"
             ELSE IF c.st = "wait" /\ c.job = LastJob THEN "copying" ELSE "idle"
Copied == IF c.job = LastJob THEN c.disk \o Unflushed(c.buf) ELSE <<>>

(* With nothing left to flush the copy is what is on disk.                 *)
LEMMA CleanIsFlushed ==
  ASSUME NEW b, Clean(b), NEW d \in Seq(Byte)
  PROVE  d \o Unflushed(b) = d
<1>1. ~(b.counter[b.nextone] >= 0)
  BY DEF Clean, BF_ALLOC
<1>2. Unflushed(b) = <<>>
  BY <1>1 DEF Unflushed
<1>3. QED
  BY SMTT(30), <1>2, ConcatNothing

(* Before the get.                                                         *)
LEMMA IdlePlace ==
  ASSUME Len(Jobs) = 1, c.job = 0, c.st # "wait", got = <<>>
  PROVE  CopyPhase = "idle" /\ Copied = <<>>
<1>1. LastJob = 1 /\ Len(got) # LastJob
  BY DEF LastJob
<1>2. QED
  BY <1>1 DEF CopyPhase, Copied

(* While it waits.                                                         *)
LEMMA WaitPlace ==
  ASSUME TypeOK, Len(Jobs) = 1, c.job = 1, c.st = "wait", got = <<>>, Clean(c.buf)
  PROVE  CopyPhase = "copying" /\ Copied = c.disk
<1>1. c.disk \in Seq(Byte) /\ LastJob = 1 /\ Len(got) # LastJob
  BY DEF TypeOK, ClientType, LastJob
<1>2. QED
  BY Zenon, <1>1, CleanIsFlushed DEF CopyPhase, Copied

(* The same of the state after a step.                                     *)
LEMMA NextPlace ==
  ASSUME TypeOK', Len(Jobs) = 1, c'.job = 1, c'.st = "wait", got' = <<>>,
         Clean(c'.buf)
  PROVE  CopyPhase' = "copying" /\ Copied' = c'.disk
<1>1. c'.disk \in Seq(Byte) /\ LastJob = 1 /\ Len(got') # LastJob
  BY DEF TypeOK, ClientType, LastJob
<1>2. QED
  BY ZenonT(30), <1>1, CleanIsFlushed DEF CopyPhase, Copied

(* A get that ends with this status has ended as FileCopy does.            *)
LEMMA EndPlace ==
  ASSUME TypeOK', Len(Jobs) = 1, NEW status, Logs(status), c'.job = 1, got = <<>>,
         Clean(c'.buf)
  PROVE  /\ CopyPhase' = IF status = "ok" THEN "complete" ELSE "failed"
         /\ Copied' = c'.disk
<1> DEFINE g == [name |-> Jobs[c'.job], status |-> status, serv |-> c'.serv,
                 disk |-> c'.disk, werr |-> c'.werr]
<1>1. g.status = status
  BY SMTT(30)
<1>2. got' = Append(<<>>, g)
  BY DEF Logs
<1> HIDE DEF g
<1>3. got' = <<g>> /\ Len(got') = 1 /\ got'[1] = g
  BY SMTT(30), <1>2
<1>4. c'.disk \in Seq(Byte) /\ LastJob = 1
  BY DEF TypeOK, ClientType, LastJob
<1>5. Copied' = c'.disk
  BY Zenon, <1>4, CleanIsFlushed DEF Copied
<1>6. QED
  BY Zenon, <1>1, <1>3, <1>4, <1>5 DEF CopyPhase

\* The steps of FileCopy, of this phase and this copy.
CopySame == CopyPhase' = CopyPhase /\ Copied' = Copied
Grown(q) == {SubSeq(Wanted(q.name), 1, n) : n \in Len(Copied)..Len(Wanted(q.name))}

(* The steps of a FileCopy in terms of its phase and what it has copied:   *)
(* beginning, copying on, completing and failing.                          *)
LEMMA CopySteps ==
  ASSUME Len(Jobs) = 1, NEW q, q.name = Jobs[1]
  PROVE  /\ CopyPhase = "idle" /\ CopyPhase' = "copying" /\ Copied' = <<>>
              => Copy!Next
         /\ CopyPhase = "copying" /\ CopyPhase' = "copying" /\ Copied' \in Grown(q)
              => Copy!Next
         /\ CopyPhase = "copying" /\ CopyPhase' = "complete"
              /\ Copied' = Wanted(q.name) => Copy!Next
         /\ CopyPhase \in {"idle", "copying"} /\ CopyPhase' = "failed"
              /\ Copied' \in Grown(q) \cup {Copied} => Copy!Next
<1>1. Wanted(q.name) = Wanted(Jobs[LastJob])
  BY DEF LastJob
<1>2. Grown(q) = Copy!Prefixes
  BY Zenon, <1>1 DEF Grown, Copy!Prefixes, Copied
<1>3. CopyPhase = "idle" /\ CopyPhase' = "copying" /\ Copied' = <<>> => Copy!Begin
  BY Zenon DEF Copy!Begin, CopyPhase, Copied
<1>4. CopyPhase = "copying" /\ CopyPhase' = "copying" /\ Copied' \in Grown(q)
        => Copy!Deliver
  BY SMTT(30), <1>2 DEF Copy!Deliver, CopyPhase, Copied
<1>5. CopyPhase = "copying" /\ CopyPhase' = "complete" /\ Copied' = Wanted(q.name)
        => Copy!Complete
  BY SMTT(30), <1>1 DEF Copy!Complete, CopyPhase, Copied
<1>6. CopyPhase \in {"idle", "copying"} /\ CopyPhase' = "failed"
        /\ Copied' \in Grown(q) \cup {Copied} => Copy!Fail
  BY Zenon, <1>2 DEF Copy!Fail, CopyPhase, Copied
<1>7. QED
  BY Zenon, <1>3, <1>4, <1>5, <1>6 DEF Copy!Next

(* Asking for the file begins the copy, or fails.                          *)
LEMMA AskBegins ==
  ASSUME Len(Jobs) = 1, TypeOK, TypeOK', IInv, DInv, Asks
  PROVE  Copy!Next
<1>1. Untouched /\ c'.job = 1 /\ got = <<>>
  <2>1. c.job \in Nat
    BY DEF TypeOK, ClientType
  <2>2. QED BY SMTT(30), <2>1 DEF Asks, IInv, Untouched, DInv, Logged
<1>2. CopyPhase = "idle" /\ Copied = <<>>
  BY Zenon, <1>1, IdlePlace DEF Untouched
<1>3. c'.pkt.name = Jobs[1] /\ Clean(c'.buf) /\ c'.disk = <<>>
  BY Zenon, <1>1 DEF Asks
<1>4. CASE c'.st = "wait"
  <2>1. got' = <<>>
    BY Zenon, <1>1, <1>4 DEF Asks, Sent, Logs
  <2>2. CopyPhase' = "copying" /\ Copied' = <<>>
    BY Zenon, <1>1, <1>3, <1>4, <2>1, NextPlace
  <2>3. QED BY Zenon, <1>2, <1>3, <2>2, CopySteps
<1>5. CASE c'.st # "wait"
  <2>1. Logs("sendto")
    BY Zenon, <1>5 DEF Asks, Sent
  <2>2. CopyPhase' = "failed" /\ Copied' = <<>>
    BY SMTT(30), <1>1, <1>3, <2>1, EndPlace
  <2>3. QED BY Zenon, <1>2, <1>3, <2>2, CopySteps
<1>6. QED
  BY Zenon, <1>4, <1>5

(* A step of the get that takes no block leaves the copy as it is.         *)
LEMMA OtherKeepsCopy ==
  ASSUME Len(Jobs) = 1, TypeOK, TypeOK', c.st = "wait", c.job = 1, got = <<>>,
         "write" \notin Faults, NEW q, q.name = Jobs[1], Received(q), Stores(<<>>),
         GivesUp \/ Again \/ \E p \in net : Accepts(p)
  PROVE  Copy!Next \/ CopySame
<1>1. Clean(c.buf) /\ CopyPhase = "copying" /\ Copied = c.disk
  BY SMTT(30), WaitPlace DEF Received
<1>2. Clean(c'.buf) /\ c'.disk = c.disk /\ c'.job = 1
  <2>1. c.disk \in Seq(Byte)
    BY Zenon DEF TypeOK, ClientType
  <2>2. c.disk \o <<>> = c.disk
    BY Zenon, <2>1, ConcatNothing
  <2>3. ~c.werr /\ c'.job = 1
    BY Zenon DEF Received, GivesUp, Again, Accepts
  <2>4. QED BY Zenon, <1>1, <2>2, <2>3 DEF Stores
<1>3. CASE c'.st = "wait" /\ got' = got
  BY Zenon, <1>1, <1>2, <1>3, NextPlace DEF CopySame
<1>4. CASE \E e \in {"timeout", "intr", "error", "sendto"} : Logs(e)
  <2>1. CopyPhase' = "failed" /\ Copied' = Copied
    BY Zenon, <1>1, <1>2, <1>4, EndPlace
  <2>2. QED BY Zenon, <1>1, <2>1, CopySteps
<1>5. QED
  BY ZenonT(30), <1>3, <1>4 DEF GivesUp, Again, Accepts, Sent

(* A full block delivers more of the file, a short one completes it.       *)
LEMMA TakesDelivers ==
  ASSUME Len(Jobs) = 1, TypeOK, TypeOK', c.st = "wait", c.job = 1, got = <<>>,
         "write" \notin Faults, Lock, NoWrap, NEW q \in net, q.op = "RRQ",
         Served(q), Received(q), NEW p \in net, Takes(p)
  PROVE  Copy!Next
<1> DEFINE file == Wanted(q.name)
           here == Before(ServerOptions(q).blksize, c.block)
           next == Before(ServerOptions(q).blksize, c.block + 1)
<1>1. CopyPhase = "copying" /\ Copied = c.disk /\ q.name = Jobs[1] /\ c'.job = 1
  BY ZenonT(30), WaitPlace DEF Received, Served, Takes
<1>2. Copied = SubSeq(file, 1, here)
  <2>1. c.disk = Prefix(q, c.block)
    BY Zenon DEF Received
  <2>2. QED BY Zenon, <1>1, <2>1 DEF Prefix
<1>3. /\ Clean(c'.buf)
      /\ Len(Clip(p)) = Settled => next <= Len(file) /\ c'.disk = SubSeq(file, 1, next)
      /\ Len(Clip(p)) # Settled => c'.disk = file
  BY Zenon, TakesStores DEF Prefix
<1>4. CASE Len(Clip(p)) # Settled
  <2>1. Logs("ok")
    BY Zenon, <1>4 DEF Takes
  <2>2. CopyPhase' = "complete" /\ Copied' = file
    BY Zenon, <1>1, <1>3, <1>4, <2>1, EndPlace
  <2>3. QED BY Zenon, <1>1, <2>2, CopySteps
<1>5. CASE Len(Clip(p)) = Settled
  <2>1. SubSeq(file, 1, next) \in Grown(q)
    <3>1. /\ c.block \in Nat \ {0} /\ ServerOptions(q).blksize \in Nat
          /\ file \in Seq(Byte)
      <4>1. c.block \in Nat \ {0}
        BY SMTT(30) DEF TypeOK, ClientType, Lock, Strangers
      <4>2. file \in Seq(Byte)
        BY SMTT(30), GetAssumption DEF Wanted
      <4>3. QED BY ZenonT(30), <4>1, <4>2, Granted
    <3>2. here \in Nat /\ next \in Nat /\ here <= next
      BY Zenon, <3>1, BeforeGrows
    <3>3. Len(Copied) <= next
      BY SMTT(30), <1>2, <1>3, <1>5, <3>1, <3>2
    <3>4. QED BY SMTT(30), <1>3, <1>5, <3>1, <3>2, <3>3 DEF Grown
  <2>2. CASE c'.st = "wait" /\ got' = got
    <3>1. CopyPhase' = "copying" /\ Copied' = SubSeq(file, 1, next)
      BY Zenon, <1>1, <1>3, <1>5, <2>2, NextPlace
    <3>2. QED BY Zenon, <1>1, <2>1, <3>1, CopySteps
  <2>3. CASE Logs("sendto")
    <3>1. CopyPhase' = "failed" /\ Copied' = SubSeq(file, 1, next)
      BY SMTT(30), <1>1, <1>3, <1>5, <2>3, EndPlace
    <3>2. QED BY ZenonT(30), <1>1, <2>1, <3>1, CopySteps
  <2>4. QED BY Zenon, <1>5, <2>2, <2>3 DEF Takes, Sent
<1>6. QED
  BY SMTT(30), <1>4, <1>5

(* Every step of the get is a step of FileCopy or leaves it where it is.   *)
LEMMA GetStepIsCopyStep ==
  ASSUME Len(Jobs) = 1, "write" \notin Faults, TypeOK, TypeOK', NoWrap, IInv, DInv,
         [Next]_vars
  PROVE  Copy!Next \/ CopySame
<1>1. CASE Client
  <2>1. ClientEffect
    BY Zenon, <1>1, ClientStepEffect
  <2>2. CASE Idles
    BY <2>2 DEF Idles, CopySame, CopyPhase, Copied
  <2>3. CASE Asks
    BY <2>3, AskBegins
  <2>4. CASE c.st = "wait"
    <3>1. Lock /\ c.job = 1 /\ got = <<>>
      BY <2>4 DEF IInv, Untouched, DInv, Logged
    <3>2. PICK q \in net : q.op = "RRQ" /\ Served(q) /\ Received(q)
      BY Zenon, <2>4 DEF DInv, Quiet, Requested
    <3>3. q.name = Jobs[1]
      BY Zenon, <3>2 DEF Served
    <3>4. CASE GivesUp \/ Again \/ \E p \in net : Accepts(p)
      <4>1. Stores(<<>>)
        BY Zenon, <3>4 DEF GivesUp, Again, Accepts
      <4>2. QED BY ZenonT(30), <2>4, <3>1, <3>2, <3>3, <3>4, <4>1, OtherKeepsCopy
    <3>5. CASE \E p \in net : Takes(p)
      BY Zenon, <2>4, <3>1, <3>2, <3>5, TakesDelivers
    <3>6. QED BY ZenonT(30), <2>1, <2>2, <2>3, <3>4, <3>5 DEF ClientEffect
  <2>5. QED
    BY Zenon, <2>1, <2>2, <2>3, <2>4 DEF ClientEffect, GivesUp, Again, Takes, Accepts, FromServer
<1>2. CASE \E i \in Srv : Server(i)
  <2>1. c' = c /\ got' = got
    BY ZenonT(30), <1>2, ServerStepType DEF Server, Start, ServerRecv, GotAck, StaleAck, Refused,
                                ServerTimer
  <2>2. QED BY SMTT(30), <2>1 DEF CopySame, CopyPhase, Copied
<1>3. CASE UNCHANGED vars
  BY <1>3 DEF vars, CopySame, CopyPhase, Copied
<1>4. QED
  BY Zenon, <1>1, <1>2, <1>3 DEF Next

(* A get whose writes do not fail implements FileCopy: whatever is lost,   *)
(* repeated, negotiated or served twice, the local file is at every moment *)
(* a beginning of the remote one, and whole when the get says so.          *)
THEOREM GetImplementsCopy ==
  Len(Jobs) = 1 /\ Registers = {} /\ "write" \notin Faults =>
    (Spec /\ []NoWrap => GetIsCopy)
<1> SUFFICES ASSUME Len(Jobs) = 1, Registers = {}, "write" \notin Faults
             PROVE  Spec /\ []NoWrap => GetIsCopy
  OBVIOUS
<1>1. Init => Copy!Init
  <2> SUFFICES ASSUME Init PROVE Copy!Init
    BY Zenon
  <2>1. CopyPhase = "idle" /\ Copied = <<>>
    BY IdlePlace DEF Init
  <2>2. QED BY <2>1 DEF Copy!Init, CopyPhase, Copied
<1>2. TypeOK /\ TypeOK' /\ NoWrap /\ IInv /\ DInv /\ [Next]_vars
        => [Copy!Next]_<<CopyPhase, Copied>>
  BY GetStepIsCopyStep DEF CopySame
<1>3. Spec /\ []NoWrap => [](TypeOK /\ IInv /\ DInv)
  BY SMTT(30), DeliveryInvariant
<1>4. QED
  BY <1>1, <1>2, <1>3, PTL DEF Spec, GetIsCopy, Copy!Spec, CopyPhase, Copied

-----------------------------------------------------------------------------
(* How a get ends, seen from the servers.  The acks sent are of full       *)
(* blocks, but for the one that ends the get; a tftpd that sends an ERROR  *)
(* has exited.                                                             *)
Delivered(i) == \E k \in DOMAIN got : got[k].status = "ok" /\ got[k].serv = i
Accounted(p, q) ==
  \/ p.block < c.block \/ s[p.srv].st = "nak"
  \/ /\ p.block = c.block /\ Delivered(p.srv)
     /\ Len(Wanted(q.name)) < Before(ServerOptions(q).blksize, c.block + 1)
Errors == \A p \in net : p.op = "ERROR" => s[p.srv].st = "nak"
Closing(q) ==
  /\ c.block \in 1..(BlockMod - 1) /\ \A i \in Srv : s[i].block <= c.block
  /\ Before(ServerOptions(q).blksize, c.block) <= Len(Wanted(q.name))
  /\ \A p \in net : p.op = "ACK" => Accounted(p, q)
CInv == /\ Errors /\ DoneMeansDelivered
        /\ \A q \in net : q.op = "RRQ" => Closing(q)

(* While the client waits, the lock step says all of this.                 *)
LEMMA WaitCloses ==
  ASSUME TypeOK, NoWrap, Lock, c.st = "wait", NEW q, Received(q)
  PROVE  Closing(q)
<1>1. /\ c.block \in Nat /\ BlockMod \in Nat /\ \A i \in Srv : s[i].block \in Nat
      /\ c.serv \in Srv \cup {NoSrv}
  BY Zenon, CommonAssumption DEF TypeOK, ClientType, ServerType
<1>2. c.block \in 1..(BlockMod - 1)
  BY SMTT(30), <1>1 DEF Lock, Strangers, NoWrap
<1>3. \A i \in Srv : s[i].block <= c.block
  <2>1. c.serv \in Srv => s[c.serv].block <= c.block
    BY SMTT(30), <1>1, CommonAssumption DEF Lock, Partner
  <2>2. \A i \in Srv \ {c.serv} : s[i].block <= 1
    BY DEF Lock, Strangers
  <2>3. QED BY SMTT(30), <1>1, <1>2, <2>1, <2>2
<1>4. \A p \in net : p.op = "ACK" => p.block < c.block
  BY Zenon DEF Lock, AcksBehind
<1>5. QED
  BY Zenon, <1>2, <1>3, <1>4 DEF Closing, Accounted, Received

(* The same of the state after a step.                                     *)
LEMMA WaitClosesNext ==
  ASSUME TypeOK', NoWrap', Lock', c'.st = "wait", NEW q, Received(q)'
  PROVE  Closing(q)'
<1>1. /\ c'.block \in Nat /\ BlockMod \in Nat /\ \A i \in Srv : s'[i].block \in Nat
      /\ c'.serv \in Srv \cup {NoSrv}
  BY Zenon, CommonAssumption DEF TypeOK, ClientType, ServerType
<1>2. c'.block \in 1..(BlockMod - 1)
  BY SMTT(30), <1>1 DEF Lock, Strangers, NoWrap
<1>3. \A i \in Srv : s'[i].block <= c'.block
  <2>1. c'.serv \in Srv => s'[c'.serv].block <= c'.block
    BY SMTT(30), <1>1, CommonAssumption DEF Lock, Partner
  <2>2. \A i \in Srv \ {c'.serv} : s'[i].block <= 1
    BY DEF Lock, Strangers
  <2>3. QED BY SMTT(30), <1>1, <1>2, <2>1, <2>2
<1>4. \A p \in net' : p.op = "ACK" => p.block < c'.block
  BY Zenon DEF Lock, AcksBehind
<1>5. QED
  BY Zenon, <1>2, <1>3, <1>4 DEF Closing, Accounted, Received

(* A tftpd whose block is acknowledged has the ack of a full block, or the *)
(* get has ended with that block and it was the last.                      *)
LEMMA AckMeans ==
  ASSUME TypeOK, NEW q \in net, q.op = "RRQ", Served(q), Closing(q), NEW i \in Srv,
         s[i].st = "wait", s[i].block # 0, Acked(i)
  PROVE  \/ s[i].block < c.block /\ BufCount(s[i].buf) = s[i].blksize
         \/ /\ s[i].block = c.block /\ BufCount(s[i].buf) # s[i].blksize
            /\ Delivered(i)
<1> DEFINE k    == s[i].block
           blk  == ServerOptions(q).blksize
           file == Wanted(q.name)
<1>1. /\ k \in Nat \ {0} /\ c.block \in Nat \ {0} /\ BlockMod \in Nat
      /\ k <= c.block /\ k < BlockMod
  <2>1. k \in Nat /\ BlockMod \in Nat
    BY Zenon, CommonAssumption DEF TypeOK, ServerType
  <2>2. c.block \in 1..(BlockMod - 1) /\ k <= c.block
    BY Zenon DEF Closing
  <2>3. QED BY SMTT(30), <2>1, <2>2
<1>2. blk \in Nat /\ file \in Seq(Byte) /\ Wanted(q.name) = Files[q.name]
  <2>1. q.name \in DOMAIN Files
    BY Zenon DEF Served, Serves, TypeOK, Serving
  <2>2. QED BY Zenon, <2>1, Granted, GetAssumption DEF Wanted
<1>3. PICK p \in net : p.op = "ACK" /\ p.srv = i /\ p.block = k
  BY SMTT(30), <1>1, WireIdentity DEF Acked
<1>4. BufCount(s[i].buf) = Len(Block(file, blk, k)) /\ s[i].blksize = blk
  <2>1. s[i].blksize = blk /\ s[i].name = q.name /\ Working(i, s[i])
    BY ZenonT(30) DEF Served, Serves
  <2>2. k > 0
    BY <1>1
  <2>3. QED BY Zenon, <1>2, <2>1, <2>2 DEF Working, Ahead, Holds
<1>5. Accounted(p, q)
  BY Zenon, <1>3 DEF Closing
<1>6. Before(blk, k) <= Before(blk, c.block) /\ Before(blk, c.block) <= Len(file)
  BY <1>1, <1>2, BeforeOrder, Zenon DEF Closing
<1>7. /\ Before(blk, k) \in Nat /\ Before(blk, c.block) \in Nat
      /\ Before(blk, k + 1) \in Nat
  BY <1>1, <1>2, BeforeGrows, ZenonT(30)
<1>8. Before(blk, k) <= Len(file) /\ Len(file) \in Nat
  BY SMTT(30), <1>2, <1>6, <1>7
<1>9. /\ Len(Block(file, blk, k)) = blk => Before(blk, k + 1) <= Len(file)
      /\ Len(Block(file, blk, k)) # blk => Len(file) < Before(blk, k + 1)
  <2>1. Leads(file, blk, k)
    BY Zenon, <1>1, <1>2, <1>8, BlockLeads
  <2>2. QED BY Zenon, <2>1 DEF Leads
<1>10. CASE k < c.block
  <2>1. k + 1 \in Nat /\ k + 1 <= c.block
    BY SMTT(30), <1>1, <1>10
  <2>2. Before(blk, k + 1) <= Before(blk, c.block)
    BY <1>1, <1>2, <2>1, BeforeOrder, ZenonT(30)
  <2>3. Before(blk, k + 1) <= Len(file)
    BY SMTT(30), <1>6, <1>7, <1>8, <2>2
  <2>4. Len(Block(file, blk, k)) = blk
    BY SMTT(30), <1>7, <1>8, <1>9, <2>3
  <2>5. QED BY ZenonT(30), <1>4, <1>10, <2>4
<1>11. CASE k = c.block
  <2>1. Delivered(i) /\ Len(file) < Before(blk, k + 1)
    BY SMTT(30), <1>1, <1>3, <1>5, <1>11 DEF Accounted
  <2>2. Len(Block(file, blk, k)) # blk
    BY SMTT(30), <1>7, <1>8, <1>9, <2>1
  <2>3. QED BY ZenonT(30), <1>4, <1>11, <2>1, <2>2
<1>12. QED
  BY SMTT(30), <1>1, <1>10, <1>11

(* Only a tftpd that waits or has not started takes a step.                *)
LEMMA ActiveOnly ==
  ASSUME NEW i, Server(i) PROVE s[i].st \in {"free", "wait"}
  BY Zenon DEF Server, Start, ServerRecv, GotAck, StaleAck, Refused, ServerTimer

(* A step of a tftpd keeps the invariant.                                  *)
LEMMA ServerKeepsCInv ==
  ASSUME TypeOK, NoWrap, IInv, DInv, CInv, NEW i \in Srv, Server(i)
  PROVE  CInv'
<1>1. ServerEffect(i) /\ c' = c /\ s[i].st \in {"free", "wait"}
  BY SMTT(30), ServerStepEffect, ServerStepType, ActiveOnly
<1>2. got' = got
  BY Zenon DEF Server, Start, ServerRecv, GotAck, StaleAck, Refused, ServerTimer
<1>3. PICK q \in net : q.op = "RRQ" /\ Served(q)
  BY SMTT(30), NoneStarted DEF DInv, Quiet, Requested
<1>4. Closing(q) /\ Served(q)' /\ net \subseteq net'
  BY ZenonT(30), <1>1, <1>3, ServerKeepsServed DEF CInv, ServerEffect, Stops, Repeats, GoesOn,
     Starts, Offers, Sends
<1>5. /\ \A j \in Srv \ {i} : s'[j] = s[j]
      /\ \A j \in Srv : s[j].block \in Nat
      /\ c.block \in Nat /\ c.block >= 1
  <2>1. c.block \in Nat /\ c.block \in 1..(BlockMod - 1) /\ BlockMod \in Nat
    BY ZenonT(30), <1>4, CommonAssumption DEF TypeOK, ClientType, Closing
  <2>2. \A j \in Srv : s[j].block \in Nat
    BY DEF TypeOK, ServerType
  <2>3. \A j \in Srv \ {i} : s'[j] = s[j]
    BY Zenon, <1>1 DEF ServerEffect
  <2>4. QED BY SMTT(30), <2>1, <2>2, <2>3
<1>6. ASSUME NEW p \in net', p \notin net
      PROVE  p.srv = i /\ (p.op \in {"DATA", "OACK"} \/ (p.op = "ERROR" /\ s'[i].st = "nak"))
  <2>1. CASE Stops(i)
    BY SMTT(30), <1>6, <2>1, PacketFields DEF Stops
  <2>2. CASE Repeats(i) \/ GoesOn(i) \/ \E r \in net : Starts(i, r)
    <3>1. p = s'[i].pkt /\ s'[i].st = "wait"
      BY Zenon, <1>6, <2>2 DEF Repeats, GoesOn, Starts, Offers, Sends
    <3>2. s'[i].block \in Nat
      BY ZenonT(30), <1>1, <1>3, BlocksGrow
    <3>3. CASE s'[i].block = 0
      <4>1. PICK b, t : p = OACK(i, b, t)
        BY Zenon, <1>4, <3>1, <3>3 DEF Served, Serves
      <4>2. OACK(i, b, t).op = "OACK" /\ OACK(i, b, t).srv = i
        BY SMTT(30), PacketFields
      <4>3. QED BY <4>1, <4>2
    <3>4. CASE s'[i].block > 0
      <4>1. PICK k, d : p = DATA(i, k, d)
        BY ZenonT(30), <1>4, <3>1, <3>4 DEF Served, Serves, Working
      <4>2. DATA(i, k, d).op = "DATA" /\ DATA(i, k, d).srv = i
        BY SMTT(30), PacketFields
      <4>3. QED BY <4>1, <4>2
    <3>5. QED BY SMTT(30), <3>2, <3>3, <3>4
  <2>3. QED BY ZenonT(30), <1>1, <2>1, <2>2 DEF ServerEffect
<1>7. \A p \in net : p.op \in {"DATA", "ACK", "OACK", "ERROR"} => p.srv \in Srv
  BY DEF TypeOK, Packets, Request, Reply
<1>8. Errors'
  BY ZenonT(30), <1>1, <1>5, <1>6, <1>7 DEF CInv, Errors
<1>9. s'[i].block <= c.block
  <2>1. CASE GoesOn(i)
    <3>1. s'[i].block = s[i].block + 1
      BY ZenonT(30), <2>1 DEF GoesOn, Sends
    <3>2. s[i].block # 0 => s[i].block < c.block
      BY Zenon, <1>3, <1>4, <2>1, AckMeans DEF GoesOn
    <3>3. s[i].block \in Nat /\ c.block \in Nat /\ c.block >= 1
      BY ZenonT(30), <1>5
    <3>4. QED BY SMTT(30), <3>1, <3>2, <3>3
  <2>2. CASE \E p \in net : Starts(i, p)
    BY SMTT(30), <1>5, <2>2 DEF Starts, Offers, Sends
  <2>3. CASE Stops(i) \/ Repeats(i)
    BY ZenonT(30), <1>4, <2>3 DEF Stops, Repeats, Closing
  <2>4. QED BY ZenonT(30), <1>1, <2>1, <2>2, <2>3 DEF ServerEffect
<1>10. DoneMeansDelivered'
  <2>1. s'[i].st = "done" => Delivered(i)
    <3> SUFFICES ASSUME s'[i].st = "done" PROVE Delivered(i)
      BY SMTT(30)
    <3>1. Stops(i)
      BY ZenonT(30), <1>1 DEF ServerEffect, Repeats, GoesOn, Starts, Offers, Sends
    <3>2. QED BY Zenon, <1>3, <1>4, <3>1, AckMeans DEF Stops
  <2>2. QED BY ZenonT(30), <1>2, <1>5, <2>1 DEF CInv, DoneMeansDelivered, Delivered
<1>11. ASSUME NEW p \in net, Accounted(p, q), p.op = "ACK" PROVE Accounted(p, q)'
  BY ZenonT(30), <1>1, <1>2, <1>5, <1>7, <1>11 DEF Accounted, Delivered
<1>12. Closing(q)'
  BY Zenon, <1>1, <1>4, <1>5, <1>6, <1>9, <1>11 DEF Closing
<1>13. \A r \in net' : r.op = "RRQ" => r = q
  BY Zenon, <1>4 DEF Served, Carries
<1>14. QED
  BY ZenonT(30), <1>8, <1>10, <1>12, <1>13 DEF CInv

(* A get that ends with a short block is logged with its server.           *)
LEMMA EndDelivers ==
  ASSUME Logs("ok"), got = <<>>
  PROVE  \A i : i = c'.serv => Delivered(i)'
<1> DEFINE g == [name |-> Jobs[c'.job], status |-> "ok", serv |-> c'.serv,
                 disk |-> c'.disk, werr |-> c'.werr]
<1>1. g.status = "ok" /\ g.serv = c'.serv /\ got' = Append(<<>>, g)
  BY SMTT(30) DEF Logs
<1> HIDE DEF g
<1>2. DOMAIN got' = {1} /\ got'[1] = g
  BY SMTT(30), <1>1
<1>3. QED
  BY ZenonT(30), <1>1, <1>2 DEF Delivered

(* So does a step of the client.                                           *)
LEMMA ClientKeepsCInv ==
  ASSUME Len(Jobs) <= 1, Registers = {}, "send" \notin Faults, TypeOK, TypeOK', NoWrap,
         NoWrap', IInv, IInv', DInv, DInv', CInv, Client
  PROVE  CInv'
<1>1. ClientEffect /\ s' = s
  BY ZenonT(30), ClientStepEffect, ClientStepType
<1>2. CASE Idles
  BY SMTT(30), <1>1, <1>2 DEF Idles, CInv, Errors, DoneMeansDelivered, Closing, Accounted, Delivered
<1>3. CASE Asks
  <2>1. Untouched
    <3>1. c.job \in Nat /\ Len(Jobs) \in Nat
      BY SMTT(30), GetAssumption DEF TypeOK, ClientType
    <3>2. QED BY SMTT(30), <1>3, <3>1 DEF Asks, IInv, Untouched
  <2>2. c'.st = "wait" /\ net' = {c'.pkt} /\ c'.pkt.op = "RRQ"
    BY Zenon, <1>3, <2>1 DEF Asks, Sent, Untouched
  <2>3. Errors' /\ DoneMeansDelivered'
    <3>1. \A i \in Srv : s'[i].st = "free"
      BY Zenon, <1>1, <2>1, FreshType DEF Untouched
    <3>2. QED BY Zenon, <2>2, <3>1 DEF Errors, DoneMeansDelivered
  <2>4. Lock' /\ \A q \in net' : Received(q)'
    <3>1. Lock'
      BY ZenonT(30), <1>1, <1>3, <2>1, <2>2, AskLocks
    <3>2. QED BY Zenon, <2>2, <3>1 DEF DInv, Quiet, Requested
  <2>5. \A q \in net' : Closing(q)'
    BY Zenon, <2>2, <2>4, WaitClosesNext
  <2>6. QED BY ZenonT(30), <2>3, <2>5 DEF CInv
<1>4. CASE GivesUp \/ Again \/ \E p \in net : Takes(p) \/ Accepts(p)
  <2>1. c.st = "wait" /\ c'.job = c.job
    BY Zenon, <1>4 DEF GivesUp, Again, Takes, Accepts, FromServer
  <2>2. Lock /\ c.job = 1 /\ got = <<>>
    BY SMTT(30), <2>1 DEF IInv, Untouched, DInv, Logged
  <2>3. PICK q \in net : q.op = "RRQ" /\ Served(q) /\ Received(q)
    BY Zenon, <2>1 DEF DInv, Quiet, Requested
  <2>4. net \subseteq net' /\ \A p \in net' : p \in net \/ p.op = "ACK"
    BY ZenonT(30), <1>4, <2>2, ClientSends
  <2>5. Errors' /\ \A r \in net' : r.op = "RRQ" => r = q
    BY ZenonT(30), <1>1, <2>3, <2>4 DEF CInv, Errors, Served, Carries
  <2>6. DoneMeansDelivered'
    <3>1. \A i \in Srv : s[i].st # "done"
      BY SMTT(30), <2>2 DEF CInv, DoneMeansDelivered
    <3>2. QED BY ZenonT(30), <1>1, <3>1 DEF DoneMeansDelivered
  <2>7. CASE c'.st = "wait"
    <3>1. Lock' /\ Received(q)'
      BY Zenon, <2>5, <2>7 DEF IInv, Untouched, DInv, Quiet, Requested
    <3>2. Closing(q)'
      BY ZenonT(30), <2>7, <3>1, WaitClosesNext
    <3>3. QED BY ZenonT(30), <2>5, <2>6, <3>2 DEF CInv
  <2>8. CASE c'.st # "wait"
    <3>1. /\ c.block \in 1..(BlockMod - 1) /\ \A i \in Srv : s[i].block <= c.block
          /\ Before(ServerOptions(q).blksize, c.block) <= Len(Wanted(q.name))
      BY ZenonT(30), <2>1, <2>2, <2>3, WaitCloses DEF Closing
    <3>2. \A p \in net : p.op = "ACK" => p.block < c.block
      BY <2>2 DEF Lock, AcksBehind
    <3>3. Wire(c.block) = c.block
      <4>1. c.block \in Nat /\ c.block < BlockMod
        BY SMTT(30), <3>1, CommonAssumption
      <4>2. QED BY Zenon, <4>1, WireIdentity
    <3>4. c'.block = c.block /\ \A p \in net' : p.op = "ACK" => Accounted(p, q)'
      <4>1. CASE GivesUp
        <5>1. \A p \in net' \ net : s[p.srv].st = "nak"
          <6>1. \A p \in net' \ net : \E r \in net : r.op = "ERROR" /\ p = ACK(r.srv, c.block)
            BY Zenon, <4>1 DEF GivesUp
          <6>2. \A r \in net : r.op = "ERROR" => s[r.srv].st = "nak"
            BY ZenonT(30) DEF CInv, Errors
          <6>3. QED BY SMTT(30), <6>1, <6>2, PacketFields
        <5>2. QED BY ZenonT(30), <1>1, <3>2, <4>1, <5>1 DEF GivesUp, Accounted
      <4>2. CASE \E p \in net : Takes(p)
        <5>1. PICK p \in net : Takes(p)
          BY Zenon, <4>2
        <5>2. /\ Len(Clip(p)) # Settled /\ c'.block = c.block /\ c'.serv = p.srv
              /\ Logs("ok") /\ net' = net \cup {ACK(p.srv, c.block)}
          BY Zenon, <2>8, <5>1 DEF Takes, Sent
        <5>3. Len(Wanted(q.name)) < Before(ServerOptions(q).blksize, c.block + 1)
          BY ZenonT(30), <2>1, <2>2, <2>3, <5>1, <5>2, TakesStores
        <5>4. \A i : i = p.srv => Delivered(i)'
          BY ZenonT(30), <2>2, <5>2, EndDelivers
        <5>5. \A r \in net' \ net : r.srv = p.srv /\ r.block = c.block
          BY SMTT(30), <3>3, <5>2, PacketFields
        <5>6. QED BY Zenon, <3>2, <5>2, <5>3, <5>4, <5>5 DEF Accounted
      <4>3. CASE Again \/ \E p \in net : Accepts(p)
        BY Zenon, <2>8, <4>3 DEF Again, Accepts, Sent
      <4>4. QED BY ZenonT(30), <1>4, <4>1, <4>2, <4>3
    <3>5. Closing(q)'
      BY Zenon, <1>1, <3>1, <3>4 DEF Closing
    <3>6. QED BY SMTT(30), <2>5, <2>6, <3>5 DEF CInv
  <2>9. QED BY Zenon, <2>7, <2>8
<1>5. QED
  BY Zenon, <1>1, <1>2, <1>3, <1>4 DEF ClientEffect

(* A tftpd whose last block was acknowledged has a client that took it and *)
(* ended its get: no ack is sent for a block that was not received, unless *)
(* sendto() fails.                                                         *)
THEOREM DoneIsDelivered ==
  Len(Jobs) <= 1 /\ Registers = {} /\ "send" \notin Faults =>
    (Spec /\ []NoWrap => []DoneMeansDelivered)
<1> SUFFICES ASSUME Len(Jobs) <= 1, Registers = {}, "send" \notin Faults
             PROVE  Spec /\ []NoWrap => []DoneMeansDelivered
  BY Zenon
<1>1. Init => CInv
  BY Zenon, FreshType DEF Init, CInv, Errors, DoneMeansDelivered
<1>2. TypeOK /\ TypeOK' /\ NoWrap /\ NoWrap' /\ IInv /\ IInv' /\ DInv /\ DInv' /\ CInv
        /\ [Next]_vars => CInv'
  <2> SUFFICES ASSUME TypeOK, TypeOK', NoWrap, NoWrap', IInv, IInv', DInv, DInv', CInv,
                      [Next]_vars
               PROVE  CInv'
    OBVIOUS
  <2>1. CASE Client
    BY Zenon, <2>1, ClientKeepsCInv
  <2>2. CASE \E i \in Srv : Server(i)
    BY ZenonT(30), <2>2, ServerKeepsCInv
  <2>3. CASE UNCHANGED vars
    BY SMTT(30), <2>3 DEF vars, CInv, Errors, DoneMeansDelivered, Closing, Accounted, Delivered
  <2>4. QED BY Zenon, <2>1, <2>2, <2>3 DEF Next
<1>3. CInv => DoneMeansDelivered
  BY DEF CInv
<1>4. Spec /\ []NoWrap => [](TypeOK /\ IInv /\ DInv)
  BY DeliveryInvariant
<1>5. QED
  BY <1>1, <1>2, <1>3, <1>4, PTL DEF Spec
=============================================================================
