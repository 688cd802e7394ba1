------------------------------- MODULE TftpGet -------------------------------
(***************************************************************************)
(* "get" of the TFTP client: recvfile() of tftp.tproj/tftp.c against any   *)
(* number of tftpd processes running xmitfile() of tftpd.tproj/tftpd.c.    *)
(* Every delivery of the read request starts one tftpd.  One client reads  *)
(* the files Jobs[1], Jobs[2], ... through one socket.                     *)
(***************************************************************************)
EXTENDS TftpCommon

CONSTANTS Files,      \* contents of each file the server has
          Jobs,       \* names that are read, in order
          BlkSizes,   \* values the user may give to "blksize"
          Rexmts,     \* values the user may give to "rexmt"
          MaxTimes,   \* values the user may give to "timeout"
          Toggles,    \* values the user may give to "tout" and "tsize"
          Registers   \* locals of recvfile that longjmp() sets back to
                      \* their value at setjmp(): of {"oack", "readlen"}

ASSUME GetAssumption ==
  /\ Jobs \in Seq(STRING)
  /\ \A n \in DOMAIN Files : Files[n] \in Seq(Byte)
  /\ BlkSizes \subseteq Nat \ {0} /\ Rexmts \subseteq Nat /\ MaxTimes \subseteq Nat
  /\ Toggles \subseteq BOOLEAN
  /\ Registers \subseteq {"oack", "readlen"}

VARIABLES c,     \* the client: globals and the locals of recvfile
          s,     \* the tftpd processes
          net,   \* every packet sent
          got    \* one record per get that has ended

vars == <<c, s, net, got>>

\* A tftpd that has not been started.
Fresh == [st |-> "free", name |-> "none", block |-> 0, blksize |-> SegSize,
          rexmtval |-> TIMEOUT, maxtimeout |-> MaxTimeouts * TIMEOUT,
          timeout |-> 0, pkt |-> NoPacket, buf |-> r_init, pos |-> 0]

Init ==
  /\ c = [st |-> "idle", job |-> 0, block |-> 0, oack |-> FALSE,
          readlen |-> SegSize, blksize |-> SegSize, rexmtval |-> TIMEOUT,
          maxtimeout |-> MaxTimeouts * TIMEOUT, tout |-> FALSE, tsize |-> FALSE,
          timeout |-> 0, serv |-> NoSrv, pkt |-> NoPacket, buf |-> w_init, disk |-> <<>>,
          werr |-> FALSE]
  /\ s = [i \in Srv |-> Fresh]
  /\ net = {}
  /\ got = <<>>

-----------------------------------------------------------------------------
(* The client.                                                             *)

\* The commands blksize, rexmt, timeout, tout and tsize.
Set ==
  /\ c.st = "idle"
  /\ \/ \E b \in BlkSizes : c' = [c EXCEPT !.blksize = b]
     \/ \E t \in Rexmts : c' = [c EXCEPT !.rexmtval = t]
     \/ \E t \in MaxTimes : c' = [c EXCEPT !.maxtimeout = t]
     \/ \E b \in Toggles : c' = [c EXCEPT !.tout = b]
     \/ \E b \in Toggles : c' = [c EXCEPT !.tsize = b]
  /\ UNCHANGED <<s, net, got>>

\* write_behind(file, convert)
WriteBehind(cc, err) ==
  LET w == write_behind(cc.buf, cc.disk, FALSE, err)
  IN [cc EXCEPT !.buf = w.b, !.disk = w.disk, !.werr = @ \/ err]

\* abort: the ack that ends every transfer, the last flush, fclose().  The
\* ack goes to the server if there is one, else to the well-known port,
\* where it is ignored.
Finish(cc, status) ==
  /\ \E err \in Faulty("write") :
       LET f == WriteBehind(cc, err) IN
       /\ c' = [f EXCEPT !.st = "idle"]
       /\ got' = Append(got, [name |-> Jobs[cc.job], status |-> status,
                              serv |-> cc.serv,
                              disk |-> f.disk, werr |-> f.werr])
  /\ net' = net \cup (IF cc.serv = NoSrv THEN {} ELSE {ACK(cc.serv, cc.block)})

\* send_ack: the packet in ackbuf is sent (again), then write_behind().
SendAck(cc) ==
  \E fails \in Faulty("send"), err \in Faulty("write") :
    IF fails
    THEN Finish(cc, "sendto")
    ELSE /\ c' = WriteBehind(cc, err)
         /\ net' = net \cup {cc.pkt}
         /\ UNCHANGED got

\* get(): recvfile() up to the first wait.
Get ==
  /\ c.st = "idle" /\ c.job < Len(Jobs)
  /\ SendAck([c EXCEPT !.st = "wait", !.job = @ + 1, !.block = 1,
                       !.oack = FALSE, !.readlen = SegSize, !.timeout = 0,
                       !.serv = NoSrv, !.buf = w_init, !.disk = <<>>,
                       !.werr = FALSE,
                       !.pkt = makerequest("RRQ", Jobs[c.job + 1], c.blksize,
                                 IF c.tout THEN c.rexmtval ELSE NoOption,
                                 c.tsize)])
  /\ UNCHANGED s

\* timer(), when alarm(rexmtval) goes off; alarm(0) never does.  longjmp()
\* brings back the locals kept in registers; they only differ from their
\* value at setjmp() while block is 1.
ClientTimer ==
  /\ c.st = "wait" /\ c.rexmtval > 0
  /\ LET t  == Elapsed(c)
         cc == [c EXCEPT !.timeout = t,
                  !.oack    = IF c.block = 1 /\ "oack" \in Registers
                              THEN FALSE ELSE @,
                  !.readlen = IF c.block = 1 /\ "readlen" \in Registers
                              THEN SegSize ELSE @]
     IN IF t >= c.maxtimeout
        THEN /\ c' = [c EXCEPT !.st = "idle", !.timeout = t]
             /\ got' = Append(got, [name |-> Jobs[c.job], status |-> "timeout",
                                    serv |-> c.serv,
                                    disk |-> c.disk, werr |-> c.werr])
             /\ UNCHANGED net
        ELSE SendAck(cc)
  /\ UNCHANGED s

\* SIGINT: intr() jumps to the command loop.
Intr ==
  /\ c.st = "wait"
  /\ c' = [c EXCEPT !.st = "idle"]
  /\ got' = Append(got, [name |-> Jobs[c.job], status |-> "intr",
                         serv |-> c.serv,
                         disk |-> c.disk, werr |-> c.werr])
  /\ UNCHANGED <<s, net>>

\* The packets recvfile() looks at: once serv is set, only those from it.
FromServer(p) == c.st = "wait" /\ c.serv \in {NoSrv, p.srv}

\* rx_block == (u_short)block
NextBlock(p) == p.block = Wire(c.block)

\* DATA with the block waited for: writeit(), and unless it is the last one
\* (shorter than blksize) the next turn of the loop up to the next wait.
GotData(p) ==
  LET data == SubSeq(p.data, 1, IF c.readlen < Len(p.data) THEN c.readlen
                                ELSE Len(p.data))
      cc   == [(IF c.block = 1 /\ ~c.oack THEN DefaultOptions(c) ELSE c)
                 EXCEPT !.serv = p.srv]
  IN /\ FromServer(p) /\ NextBlock(p)
     /\ \E err \in Faulty("write") :
          LET w  == writeit(RecvInto(cc.buf, data), cc.disk, FALSE, err)
              wr == [cc EXCEPT !.buf = w.b, !.disk = w.disk, !.werr = @ \/ err]
          IN IF Len(data) = cc.blksize
             THEN SendAck([wr EXCEPT !.pkt = ACK(cc.serv, c.block),
                                     !.readlen = cc.blksize,
                                     !.block = @ + 1, !.timeout = 0])
             ELSE Finish(wr, "ok")
     /\ UNCHANGED s

\* DATA with another block: synchnet(), and the ack again if the server is
\* one behind.
StaleData(p) ==
  /\ FromServer(p) /\ ~NextBlock(p)
  /\ p.block = Wire(c.block - 1) /\ c.serv # NoSrv
  /\ SendAck(c)
  /\ UNCHANGED s

\* Mutant: that there was an OACK is not remembered.
GotOackForgets(p) ==
  /\ FromServer(p) /\ c.block = 1
  /\ LET cc == ClientOptions(c, p) IN
     SendAck([cc EXCEPT !.serv = p.srv, !.pkt = ACK(p.srv, 0),
                        !.readlen = cc.blksize])
  /\ UNCHANGED s

GotOack(p) ==
  /\ FromServer(p) /\ c.block = 1
  /\ LET cc == ClientOptions(c, p) IN
     SendAck([cc EXCEPT !.serv = p.srv, !.oack = TRUE, !.pkt = ACK(p.srv, 0),
                        !.readlen = cc.blksize])
  /\ UNCHANGED s

GotError(p) ==
  /\ FromServer(p)
  /\ Finish([c EXCEPT !.serv = p.srv], "error")
  /\ UNCHANGED s

\* recvfrom()
ClientRecv ==
  \E p \in net :
    \/ p.op = "DATA" /\ GotData(p)
    \/ p.op = "DATA" /\ StaleData(p)
    \/ p.op = "OACK" /\ GotOack(p)
    \/ p.op = "ERROR" /\ GotError(p)

\* quit: the socket is closed.
Quit ==
  /\ c.st = "idle" /\ c.job = Len(Jobs)
  /\ c' = [c EXCEPT !.st = "quit"]
  /\ UNCHANGED <<s, net, got>>

-----------------------------------------------------------------------------
(* The servers.                                                            *)

Exit(i, status) == s' = [s EXCEPT ![i].st = status]

\* send_data: the packet is sent (again); read_ahead() once past the OACK.
SendData(i, r) ==
  \E fails \in Faulty("send"), err \in Faulty("read") :
    IF fails
    THEN Exit(i, "abort") /\ UNCHANGED net
    ELSE LET a == read_ahead(r.buf, r.pos, Files[r.name], r.blksize, FALSE, err)
         IN /\ s' = [s EXCEPT ![i] =
                       IF r.block = 0 THEN r
                       ELSE [r EXCEPT !.buf = a.b, !.pos = a.pos]]
            /\ net' = net \cup {r.pkt}

\* Mutant: an error of read() is not noticed.
ReadFailedNever(b) == FALSE

\* size < 0 after readit()
ReadFailed(b) == BufCount(b) < 0

\* The top of the loop of xmitfile(), block > 0.
SendBlock(i, r) ==
  \E err \in Faulty("read") :
    LET a == readit(r.buf, r.pos, Files[r.name], r.blksize, FALSE, err) IN
    IF ReadFailed(a.b)
    THEN Exit(i, "nak") /\ net' = net \cup {ERROR(i)}
    ELSE SendData(i, [r EXCEPT !.buf = a.b, !.pos = a.pos, !.timeout = 0,
                        !.pkt = DATA(i, r.block, BufData(a.b))])

\* A request starts a tftpd: main(), tftp(), validate_access() (here: the
\* file exists and may be read, or not), xmitfile() up to the first wait.
Start(i) ==
  /\ s[i].st = "free"
  /\ \E p \in net :
       /\ p.op = "RRQ"
       /\ LET o == ServerOptions(p)
              r == [Fresh EXCEPT !.st = "wait", !.name = p.name,
                      !.block = IF o.etftp THEN 0 ELSE 1,
                      !.blksize = o.blksize, !.rexmtval = o.rexmtval,
                      !.maxtimeout = o.maxtimeout]
          IN IF p.name \notin DOMAIN Files
             THEN Exit(i, "nak") /\ net' = net \cup {ERROR(i)}
             ELSE IF o.etftp
             THEN SendData(i, [r EXCEPT !.pkt = OACK(i, p.blksize, o.tout)])
             ELSE SendBlock(i, r)
  /\ UNCHANGED <<c, got>>

\* Mutant: the ack of the block before is taken as well.
AckOfBlockLoose(i, p) == p.block \in {Wire(s[i].block), Wire(s[i].block - 1)}

\* ap->th_block == (u_short)block
AckOfBlock(i, p) == p.block = Wire(s[i].block)

\* ACK of the block sent: the next one, or the end after a short block.
\* ACK 0 answers the OACK.
GotAck(i, p) ==
  /\ s[i].st = "wait" /\ p.srv = i /\ AckOfBlock(i, p)
  /\ IF s[i].block = 0 \/ BufCount(s[i].buf) = s[i].blksize
     THEN SendBlock(i, [s[i] EXCEPT !.block = @ + 1,
                          !.buf = IF s[i].block = 0 THEN r_init ELSE @])
     ELSE Exit(i, "done") /\ UNCHANGED net
  /\ UNCHANGED <<c, got>>

\* ACK of the block before: synchnet() and the packet again.  Other acks
\* only cause the synchnet().
StaleAck(i, p) ==
  /\ s[i].st = "wait" /\ p.srv = i
  /\ ~AckOfBlock(i, p) /\ p.block = Wire(s[i].block - 1)
  /\ SendData(i, s[i])
  /\ UNCHANGED <<c, got>>

ServerRecv(i) ==
  \E p \in net : p.op = "ACK" /\ (GotAck(i, p) \/ StaleAck(i, p))

\* The client has closed its socket: send() is answered by a port
\* unreachable message and recv() fails.
Refused(i) ==
  /\ s[i].st = "wait" /\ c.st = "quit"
  /\ Exit(i, "abort")
  /\ UNCHANGED <<c, net, got>>

ServerTimer(i) ==
  /\ s[i].st = "wait"
  /\ LET t == Elapsed(s[i]) IN
     IF t >= s[i].maxtimeout
     THEN Exit(i, "timeout") /\ UNCHANGED net
     ELSE SendData(i, [s[i] EXCEPT !.timeout = t])
  /\ UNCHANGED <<c, got>>

-----------------------------------------------------------------------------
Client == Set \/ Get \/ ClientTimer \/ Intr \/ ClientRecv \/ Quit
Server(i) == Start(i) \/ ServerRecv(i) \/ Refused(i) \/ ServerTimer(i)
Next == Client \/ \E i \in Srv : Server(i)

Spec == Init /\ [][Next]_vars

\* alarm() delivers its signal when nothing arrives, and the network does
\* not deliver copies of a packet for ever.
FairSpec ==
  /\ Spec
  /\ WF_vars(ClientTimer)
  /\ \A i \in Srv : WF_vars(ServerTimer(i))

-----------------------------------------------------------------------------
Packets == Request("RRQ") \cup Reply

ClientType ==
  [st : {"idle", "wait", "quit"}, job : Nat, block : Nat, oack : BOOLEAN,
   readlen : Nat, blksize : Nat, rexmtval : Nat, maxtimeout : Nat,
   tout : BOOLEAN, tsize : BOOLEAN, timeout : Nat, serv : Srv \cup {NoSrv},
   pkt : Packets \cup {NoPacket}, buf : BufType(Byte),
   disk : Seq(Byte), werr : BOOLEAN]
ServerType ==
  [st : {"free", "wait", "done", "nak", "abort", "timeout"},
   name : STRING \cup {"none"},
   block : Nat, blksize : Nat, rexmtval : Nat, maxtimeout : Nat,
   timeout : Nat, pkt : Packets \cup {NoPacket}, buf : BufType(Byte), pos : Nat]

\* A tftpd in its loop has a packet to send and an offset into its file.
Serving(r) == /\ r.pkt \in Packets
              /\ r.name \in DOMAIN Files /\ r.pos \in 0..Len(Files[r.name])

TypeOK ==
  /\ c \in ClientType
  /\ s \in [Srv -> ServerType]
  /\ net \subseteq Packets
  /\ c.st = "wait" => c.pkt \in Packets
  /\ \A i \in Srv : s[i].st = "wait" => Serving(s[i])

\* The file a get asks for.
Wanted(name) == IF name \in DOMAIN Files THEN Files[name] ELSE <<>>

\* A tftpd that was started for the get in progress, not for an earlier one
\* whose packets come late.
Own(i) == i # NoSrv /\ s[i].name = Jobs[c.job]

(* A get that ends with a short block, with no failed write and no packet  *)
(* left over from an earlier get, has written the file it asked for, whole *)
(* and in order (recvfile, do ... while).                                  *)
GetComplete ==
  \A k \in DOMAIN got :
    LET g == got[k] IN
    g.status = "ok" /\ ~g.werr /\ s[g.serv].name = g.name =>
      g.disk = Wanted(g.name)

(* Past the first block the client and the server it listens to cut the    *)
(* file into blocks of the same size, whatever was asked for, granted,     *)
(* lost and repeated: else a full block looks like the last one.           *)
BlksizeAgreed ==
  c.st = "wait" /\ c.block > 1 /\ Own(c.serv) => s[c.serv].blksize = c.blksize

(* "no OACK, revert to defaults" (tftp.c, case DATA): a get that has       *)
(* accepted an OACK, so that serv is set while it waits for block 1, keeps *)
(* what was negotiated when that block comes, also after retransmissions.  *)
RevertsOnlyWithoutOack ==
  [][/\ c.st = "wait" /\ c.block = 1 /\ c.serv # NoSrv
     /\ c'.st # "wait" \/ c'.block = 2
     => c'.blksize = c.blksize]_vars

(* Lock step: the server the client listens to is at the block the client  *)
(* waits for or at the one before it (xmitfile block, recvfile block).     *)
InStep ==
  c.st = "wait" /\ Own(c.serv) => s[c.serv].block \in {c.block - 1, c.block}

(* A tftpd whose last block was acknowledged has a client that wrote the   *)
(* whole file: no ack is sent for a block that was not received.           *)
DoneMeansDelivered ==
  \A i \in Srv : s[i].st = "done" =>
    \E k \in DOMAIN got : got[k].status = "ok" /\ got[k].serv = i

(* Every get returns to the command loop, and every tftpd exits, whatever  *)
(* the network loses (timer in both programs).                             *)
ClientReturns == c.st = "wait" ~> c.st # "wait"
ServersExit == \A i \in Srv : s[i].st = "wait" ~> s[i].st # "wait"

-----------------------------------------------------------------------------
(* The last get implements FileCopy.  The copy is what is on disk and what *)
(* is in the buffer that write_behind has not flushed yet; the buffers a   *)
(* failed or interrupted get leaves are lost.                              *)
Unflushed(b) ==
  IF b.counter[b.nextone] >= 0 THEN b.data[b.nextone] ELSE <<>>

LastJob == Len(Jobs)

Copy == INSTANCE FileCopy WITH
  source <- Wanted(Jobs[LastJob]),
  phase  <- IF Len(got) = LastJob
            THEN IF got[LastJob].status = "ok" THEN "complete" ELSE "failed"
            ELSE IF c.st = "wait" /\ c.job = LastJob THEN "copying" ELSE "idle",
  copy   <- IF c.job = LastJob THEN c.disk \o Unflushed(c.buf) ELSE <<>>

(* A get is a FileCopy: retransmissions, duplicates, second servers and    *)
(* option negotiation never add a byte out of place to the local file.     *)
GetIsCopy == Copy!Spec
=============================================================================
