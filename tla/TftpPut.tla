------------------------------- MODULE TftpPut -------------------------------
(***************************************************************************)
(* "put" of the TFTP client: xmitfile() of tftp.tproj/tftp.c against any   *)
(* number of tftpd processes running recvfile() of tftpd.tproj/tftpd.c.    *)
(* Every delivery of the write request starts one tftpd, which truncates   *)
(* the remote file and writes to it at an offset of its own.               *)
(***************************************************************************)
EXTENDS TftpCommon

CONSTANTS Local,      \* contents of the client's files
          Args,       \* arguments of the command: put Args[1] ... Args[n]
          Remote,     \* files that exist on the server and may be written
          BlkSizes,   \* values the user may give to "blksize"
          Toggles     \* values the user may give to "tsize"

VARIABLES c,     \* the client: globals and the locals of xmitfile
          s,     \* the tftpd processes
          disk,  \* the remote files
          net,   \* every packet sent
          put    \* one record per put that has ended

vars == <<c, s, disk, net, put>>

\* put(): the local file and the remote name of each transfer.
Jobs ==
  LET n == Len(Args) IN
  CASE n = 1 -> <<[src |-> Args[1], targ |-> Args[1]]>>
    [] n = 2 -> <<[src |-> Args[1], targ |-> Args[2]]>>
    [] OTHER -> [k \in 1..(n - 1) |-> [src |-> Args[k], targ |-> Args[n]]]

\* put() returns when a local file cannot be opened: the files are there.
ASSUME PutAssumption ==
  /\ Args \in Seq(STRING) \ {<<>>}
  /\ \A k \in DOMAIN Jobs : Jobs[k].src \in DOMAIN Local
  /\ \A n \in DOMAIN Local : Local[n] \in Seq(Byte)
  /\ NUL \in Byte
  /\ BlkSizes \subseteq Nat \ {0} /\ Toggles \subseteq BOOLEAN

\* ackbuf before anything was stored in it, as it goes out on the network.
ZeroPacket(i) == [op |-> "ZERO", srv |-> i]
\* The client's nak().
ClientNak(i) == [op |-> "CNAK", srv |-> i]

\* A tftpd that has not been started.
Fresh == [st |-> "free", name |-> "none", block |-> 0, blksize |-> SegSize,
          rexmtval |-> TIMEOUT, maxtimeout |-> MaxTimeouts * TIMEOUT,
          timeout |-> 0, ap |-> "oackbuf",
          ackbuf |-> NoPacket, oackbuf |-> NoPacket,
          buf |-> w_init, hdr |-> [b \in Bufs |-> 0], out |-> <<>>,
          werr |-> FALSE, finals |-> 0]

Init ==
  /\ c = [st |-> "idle", job |-> 0, block |-> 0, blksize |-> SegSize,
          rexmtval |-> TIMEOUT, tsize |-> FALSE, timeout |-> 0,
          serv |-> NoSrv, pkt |-> NoPacket, buf |-> r_init, pos |-> 0]
  /\ s = [i \in Srv |-> Fresh]
  /\ disk = [n \in Remote |-> <<>>]
  /\ net = {}
  /\ put = <<>>

-----------------------------------------------------------------------------
(* The client.                                                             *)

\* The commands blksize and tsize.
Set ==
  /\ c.st = "idle"
  /\ \/ \E b \in BlkSizes : c' = [c EXCEPT !.blksize = b]
     \/ \E b \in Toggles : c' = [c EXCEPT !.tsize = b]
  /\ UNCHANGED <<s, disk, net, put>>

\* abort: fclose() and back to the command loop.
Finish(cc, status) ==
  /\ c' = [cc EXCEPT !.st = "idle"]
  /\ put' = Append(put, [job |-> cc.job, status |-> status, serv |-> cc.serv])

\* send_data: the packet is sent (again); read_ahead() once past the WRQ.
SendData(cc) ==
  \E fails \in Faulty("send"), err \in Faulty("read") :
    IF fails
    THEN Finish(cc, "sendto") /\ UNCHANGED net
    ELSE LET a == read_ahead(cc.buf, cc.pos, Local[Jobs[cc.job].src],
                             cc.blksize, FALSE, err)
         IN /\ c' = IF cc.block = 0 THEN cc
                    ELSE [cc EXCEPT !.buf = a.b, !.pos = a.pos]
            /\ net' = net \cup {cc.pkt}
            /\ UNCHANGED put

\* The top of the loop of xmitfile(), block > 0.
SendBlock(cc) ==
  \E err \in Faulty("read") :
    LET a == readit(cc.buf, cc.pos, Local[Jobs[cc.job].src], cc.blksize,
                    FALSE, err) IN
    IF BufCount(a.b) < 0
    THEN Finish(cc, "nak") /\ net' = net \cup {ClientNak(cc.serv)}
    ELSE SendData([cc EXCEPT !.buf = a.b, !.pos = a.pos, !.timeout = 0,
                     !.pkt = DATA(cc.serv, cc.block, BufData(a.b))])

\* put(): xmitfile() up to the first wait.
Put ==
  /\ c.st = "idle" /\ c.job < Len(Jobs)
  /\ SendData([c EXCEPT !.st = "wait", !.job = @ + 1, !.block = 0,
                 !.timeout = 0, !.serv = NoSrv, !.buf = r_init, !.pos = 0,
                 !.pkt = makerequest("WRQ", Jobs[c.job + 1].targ, c.blksize,
                                     NoOption, c.tsize)])
  /\ UNCHANGED <<s, disk>>

\* timer()
ClientTimer ==
  /\ c.st = "wait"
  /\ LET t == Elapsed(c) IN
     IF t >= MaxTimeouts * TIMEOUT
     THEN Finish(c, "timeout") /\ UNCHANGED net
     ELSE SendData([c EXCEPT !.timeout = t])
  /\ UNCHANGED <<s, disk>>

\* SIGINT: intr() jumps to the command loop.
Intr ==
  /\ c.st = "wait"
  /\ Finish(c, "intr")
  /\ UNCHANGED <<s, disk, net>>

\* The first packet of any kind chooses the server; a packet from another
\* one ends the transfer.
FromServer(p) == c.st = "wait" /\ c.serv \in {NoSrv, p.srv}

Mismatch(p) ==
  /\ c.st = "wait" /\ c.serv \notin {NoSrv, p.srv}
  /\ Finish(c, "mismatch")
  /\ UNCHANGED <<s, disk, net>>

GotError(p) ==
  /\ FromServer(p)
  /\ Finish([c EXCEPT !.serv = p.srv], "error")
  /\ UNCHANGED <<s, disk, net>>

\* After the ack of block: the next block, or the end if it was short.
Acked(cc) ==
  IF c.block = 0 \/ BufCount(c.buf) = cc.blksize
  THEN SendBlock([cc EXCEPT !.block = @ + 1])
  ELSE Finish([cc EXCEPT !.block = @ + 1], "ok") /\ UNCHANGED net

\* Mutant: any ack is taken for the one waited for.
AckOfBlockAny(p) == TRUE

\* ap->th_block == (u_short)block
AckOfBlock(p) == p.block = Wire(c.block)

\* Mutant: the server's address is not taken over.
GotAckNoPeer(p) ==
  /\ FromServer(p) /\ AckOfBlock(p)
  /\ Acked(IF c.block = 0 THEN DefaultOptions(c) ELSE c)
  /\ UNCHANGED <<s, disk>>

GotAck(p) ==
  /\ FromServer(p) /\ AckOfBlock(p)
  /\ LET cc == IF c.block = 0 THEN DefaultOptions(c) ELSE c IN
     Acked([cc EXCEPT !.serv = p.srv])
  /\ UNCHANGED <<s, disk>>

\* Another ack: synchnet(), and the block again if the server is one behind.
StaleAck(p) ==
  /\ FromServer(p) /\ ~AckOfBlock(p)
  /\ LET cc == [c EXCEPT !.serv = p.srv] IN
     IF p.block = Wire(c.block - 1)
     THEN SendData(cc)
     ELSE c' = cc /\ UNCHANGED <<net, put>>
  /\ UNCHANGED <<s, disk>>

GotOack(p) ==
  /\ FromServer(p) /\ c.block = 0
  /\ Acked([ClientOptions(c, p) EXCEPT !.serv = p.srv])
  /\ UNCHANGED <<s, disk>>

\* Anything else: only serv is set.
Ignored(p) ==
  /\ FromServer(p)
  /\ c' = [c EXCEPT !.serv = p.srv]
  /\ UNCHANGED <<s, disk, net, put>>

\* recvfrom()
ClientRecv ==
  \E p \in net :
    \/ p.op = "ACK" /\ (GotAck(p) \/ StaleAck(p))
    \/ p.op = "OACK" /\ (GotOack(p) \/ (c.block # 0 /\ Ignored(p)))
    \/ p.op = "ERROR" /\ GotError(p)
    \/ p.op = "ZERO" /\ Ignored(p)
    \/ p.op \in {"ACK", "OACK", "ERROR", "ZERO"} /\ Mismatch(p)

\* quit: the socket is closed.
Quit ==
  /\ c.st = "idle" /\ c.job = Len(Jobs)
  /\ c' = [c EXCEPT !.st = "quit"]
  /\ UNCHANGED <<s, disk, net, put>>

-----------------------------------------------------------------------------
(* The servers.                                                            *)

\* The remote file after data is written to it at offset off; a gap that a
\* truncation by another tftpd has left reads as zeros.
Overlay(d, off, data) ==
  [k \in 1..(IF Len(d) < off + Len(data) THEN off + Len(data) ELSE Len(d)) |->
     IF k \in (off + 1)..(off + Len(data)) THEN data[k - off]
     ELSE IF k <= Len(d) THEN d[k] ELSE NUL]

\* r becomes the state of tftpd i, with what it has written since (r.out is
\* everything it wrote, so its length is the file offset).
Become(i, r) ==
  LET off == Len(s[i].out) IN
  /\ s' = [s EXCEPT ![i] = r]
  /\ disk' = [disk EXCEPT ![r.name] =
                Overlay(@, off, SubSeq(r.out, off + 1, Len(r.out)))]

WriteBehind(r, err) ==
  LET w == write_behind(r.buf, r.out, FALSE, err)
  IN [r EXCEPT !.buf = w.b, !.out = w.disk, !.werr = @ \/ err]

\* send_ack: the packet ap points to is sent (again), then write_behind().
SendAck(i, r) ==
  \E fails \in Faulty("send"), err \in Faulty("write") :
    IF fails
    THEN Become(i, [r EXCEPT !.st = "abort"]) /\ UNCHANGED net
    ELSE /\ Become(i, WriteBehind(r, err))
         /\ net' = net \cup {r[r.ap]}

\* The top of the loop of recvfile() once etftp is 0: a plain ack of the
\* block received (0: of the request), then the wait for the next one.
AckBlock(i, r) ==
  SendAck(i, [r EXCEPT !.ap = "ackbuf", !.ackbuf = ACK(i, r.block),
                       !.block = @ + 1, !.timeout = 0])

\* A request starts a tftpd: main(), tftp(), validate_access(), which
\* truncates the file, and recvfile() up to the first wait.
Start(i) ==
  /\ s[i].st = "free"
  /\ \E p \in net :
       /\ p.op = "WRQ"
       /\ LET o == ServerOptions(p)
              r == [Fresh EXCEPT !.st = "wait", !.name = p.name, !.block = 1,
                      !.blksize = o.blksize, !.rexmtval = o.rexmtval,
                      !.maxtimeout = o.maxtimeout,
                      !.ap      = IF o.etftp THEN "oackbuf" ELSE "ackbuf",
                      !.oackbuf = OACK(i, p.blksize, o.tout),
                      !.ackbuf  = IF o.etftp THEN ZeroPacket(i) ELSE ACK(i, 0)]
          IN IF p.name \notin Remote
             THEN /\ s' = [s EXCEPT ![i].st = "nak"]
                  /\ net' = net \cup {ERROR(i)}
                  /\ UNCHANGED disk
             ELSE \E fails \in Faulty("send") :
                  /\ s' = [s EXCEPT ![i] = IF fails THEN [r EXCEPT !.st = "abort"]
                                           ELSE r]
                  /\ net' = IF fails THEN net ELSE net \cup {r[r.ap]}
                  /\ disk' = [disk EXCEPT ![p.name] = <<>>]
  /\ UNCHANGED <<c, put>>

\* Mutant: the final ack goes out before its block number is set.
LastBlockEarly(i, r) ==
  /\ Become(i, [WriteBehind(r, FALSE) EXCEPT !.st = "dally", !.finals = 1])
  /\ net' = net \cup {r.ackbuf}

\* The last block: flush, fclose(), the final ack, and the wait for a
\* repetition of the block.  The header goes to the packet ap points to,
\* what is sent is ackbuf.
LastBlock(i, r) ==
  \E err \in Faulty("write") :
    LET f == [WriteBehind(r, err) EXCEPT ![r.ap] = ACK(i, r.block)] IN
    /\ Become(i, [f EXCEPT !.st = "dally", !.finals = 1])
    /\ net' = net \cup {f.ackbuf}

\* Mutant: the block before is taken as well.
NextBlockLoose(i, p) == p.block \in {Wire(s[i].block), Wire(s[i].block - 1)}

\* dp->th_block == (u_short)block
NextBlock(i, p) == p.block = Wire(s[i].block)

\* DATA with the block waited for.  recv() takes at most blksize bytes.
GotData(i, p) ==
  LET r    == s[i]
      data == SubSeq(p.data, 1, IF r.blksize < Len(p.data) THEN r.blksize
                                ELSE Len(p.data))
  IN /\ r.st = "wait" /\ p.srv = i /\ NextBlock(i, p)
     /\ \E err \in Faulty("write") :
          LET w  == writeit(RecvInto(r.buf, data), r.out, FALSE, err)
              wr == [r EXCEPT !.buf = w.b, !.out = w.disk, !.werr = @ \/ err,
                              !.hdr[r.buf.current] = p.block]
          IN IF Len(data) = r.blksize THEN AckBlock(i, wr) ELSE LastBlock(i, wr)
     /\ UNCHANGED <<c, put>>

\* DATA of the block before: synchnet() and the ack again.
StaleData(i, p) ==
  /\ s[i].st = "wait" /\ p.srv = i
  /\ ~NextBlock(i, p) /\ p.block = Wire(s[i].block - 1)
  /\ SendAck(i, s[i])
  /\ UNCHANGED <<c, put>>

GotNak(i, p) ==
  /\ s[i].st = "wait" /\ p.srv = i
  /\ s' = [s EXCEPT ![i].st = "abort"]
  /\ UNCHANGED <<c, disk, net, put>>

\* The recv() after the final ack.  The packet is in buf, but the test looks
\* at dp, the write buffer that held the block before the last.
DallyRecv(i, p) ==
  /\ s[i].st = "dally" /\ p.srv = i
  /\ LET again == s[i].hdr[s[i].buf.current] = s[i].block IN
     /\ s' = [s EXCEPT ![i].st = "done", ![i].finals = IF again THEN @ + 1 ELSE @]
     /\ net' = net \cup (IF again THEN {s[i].ackbuf} ELSE {})
  /\ UNCHANGED <<c, disk, put>>

ServerRecv(i) ==
  \E p \in net :
    \/ p.op = "DATA" /\ (GotData(i, p) \/ StaleData(i, p) \/ DallyRecv(i, p))
    \/ p.op = "CNAK" /\ GotNak(i, p)

\* The client has closed its socket: recv() fails.
Refused(i) ==
  /\ s[i].st \in {"wait", "dally"} /\ c.st = "quit"
  /\ s' = [s EXCEPT ![i].st = IF @ = "dally" THEN "done" ELSE "abort"]
  /\ UNCHANGED <<c, disk, net, put>>

\* timer(), and justquit() while dallying.
ServerTimer(i) ==
  /\ LET t == Elapsed(s[i]) IN
     \/ /\ s[i].st = "wait" /\ t < s[i].maxtimeout
        /\ SendAck(i, [s[i] EXCEPT !.timeout = t])
     \/ /\ s[i].st = "wait" /\ t >= s[i].maxtimeout
        /\ s' = [s EXCEPT ![i].st = "timeout"]
        /\ UNCHANGED <<disk, net>>
     \/ /\ s[i].st = "dally"
        /\ s' = [s EXCEPT ![i].st = "done"]
        /\ UNCHANGED <<disk, net>>
  /\ UNCHANGED <<c, put>>

-----------------------------------------------------------------------------
Client == Set \/ Put \/ ClientTimer \/ Intr \/ ClientRecv \/ Quit
Server(i) == Start(i) \/ ServerRecv(i) \/ Refused(i) \/ ServerTimer(i)
Next == Client \/ \E i \in Srv : Server(i)

Spec == Init /\ [][Next]_vars

\* alarm() delivers its signal when nothing arrives, and the network does
\* not deliver copies of a packet for ever.
FairSpec ==
  /\ Spec
  /\ WF_vars(ClientTimer)
  /\ \A i \in Srv : WF_vars(ServerTimer(i))

-----------------------------------------------------------------------------
Packets == Request("WRQ") \cup Reply \cup [op : {"ZERO", "CNAK"}, srv : Srv]

ClientType ==
  [st : {"idle", "wait", "quit"}, job : 0..Len(Jobs), block : Nat,
   blksize : Nat, rexmtval : Nat, tsize : BOOLEAN, timeout : Nat,
   serv : Srv \cup {NoSrv}, pkt : Packets \cup {NoPacket},
   buf : BufType(Byte), pos : Nat]
ServerType ==
  [st : {"free", "wait", "dally", "done", "nak", "abort", "timeout"},
   name : STRING \cup {"none"}, block : Nat, blksize : Nat, rexmtval : Nat,
   maxtimeout : Nat, timeout : Nat, ap : {"ackbuf", "oackbuf"},
   ackbuf : Packets \cup {NoPacket}, oackbuf : Packets \cup {NoPacket},
   buf : BufType(Byte), hdr : [Bufs -> Nat], out : Seq(Byte), werr : BOOLEAN,
   finals : Nat]

TypeOK ==
  /\ c \in ClientType
  /\ s \in [Srv -> ServerType]
  /\ disk \in [Remote -> Seq(Byte)]
  /\ net \subseteq Packets
  /\ c.st = "wait" => /\ c.pkt \in Packets /\ c.job > 0
                      /\ c.pos \in 0..Len(Local[Jobs[c.job].src])
  /\ \A i \in Srv :
       /\ s[i].st = "wait" => s[i][s[i].ap] \in Packets
       /\ s[i].st \in {"wait", "dally"} => s[i].ackbuf \in Packets

(* "the file is stored remotely as remotename" (tftp.1): a put whose last  *)
(* block was acknowledged has its file on the server, whole and in order,  *)
(* when no write failed there (client xmitfile, server recvfile,           *)
(* write_behind).                                                          *)
PutStored ==
  \A k \in DOMAIN put :
    LET j == Jobs[put[k].job] IN
    put[k].status = "ok" /\ ~s[put[k].serv].werr => disk[j.targ] = Local[j.src]

(* The same of what the tftpd that acknowledged the last block has         *)
(* written, whatever other tftpd processes, started by copies of the       *)
(* request, do to the remote file.                                         *)
PutWritten ==
  \A k \in DOMAIN put :
    put[k].status = "ok" /\ ~s[put[k].serv].werr =>
      s[put[k].serv].out = Local[Jobs[put[k].job].src]

(* Lock step: the server waits for the block the client is sending or for  *)
(* the one after it.                                                       *)
InStep ==
  c.st = "wait" /\ c.serv # NoSrv /\ s[c.serv].st = "wait" =>
    s[c.serv].block \in {c.block, c.block + 1}

(* The "final" ack (tftpd.c recvfile): a server that has the whole file    *)
(* has sent the ack of its last block.                                     *)
FinalAckSent == \A i \in Srv : s[i].st = "dally" => ACK(i, s[i].block) \in net

(* "then my last ack was lost ... resend final ack": while it waits after  *)
(* the final ack, a repetition of the last block makes the server send it  *)
(* again.                                                                  *)
ResendsFinalAck ==
  [][\A i \in Srv : \A p \in net :
       /\ p.op = "DATA" /\ p.block = Wire(s[i].block)
       /\ DallyRecv(i, p)
       => s'[i].finals = s[i].finals + 1]_vars

(* Every put returns to the command loop and every tftpd exits.            *)
ClientReturns == c.st = "wait" ~> c.st # "wait"
ServersExit ==
  \A i \in Srv : s[i].st \in {"wait", "dally"} ~> s[i].st \notin {"wait", "dally"}
=============================================================================
