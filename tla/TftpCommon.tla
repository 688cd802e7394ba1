----------------------------- MODULE TftpCommon -----------------------------
(***************************************************************************)
(* What the TFTP client (remote_cmds/tftp.tproj) and server                *)
(* (remote_cmds/tftpd.tproj) share: packets, option negotiation and the    *)
(* retransmission timer.                                                   *)
(*                                                                         *)
(* The network is a set of packets that never forgets one: a packet that   *)
(* was sent may be delivered late, in any order, any number of times or    *)
(* never.  A packet that synchnet() discards is one that is not delivered  *)
(* then, so synchnet() has no other effect on this network.                *)
(***************************************************************************)
EXTENDS TftpBuf

CONSTANTS SegSize,      \* SEGSIZE, the default block size
          TIMEOUT,      \* default retransmission interval, seconds
          MaxTimeouts,  \* default intervals before a transfer is given up
          Srv,          \* tftpd processes that can be started
          NoSrv,        \* serv.ss_family == AF_UNSPEC
          Byte,         \* what files are made of
          BlockMod,     \* how many block numbers there are: 65536 (u_short)
          Faults        \* what may fail: subset of {"send","read","write"}

ASSUME CommonAssumption ==
  /\ SegSize \in Nat \ {0} /\ TIMEOUT \in Nat \ {0} /\ MaxTimeouts \in Nat \ {0}
  /\ NoSrv \notin Srv
  /\ BlockMod \in Nat \ {0}
  /\ Faults \subseteq {"send", "read", "write"}

\* Whether an operation of kind k fails, where the model lets it fail.
Faulty(k) == IF k \in Faults THEN BOOLEAN ELSE {FALSE}

\* A block number as th_block carries it: (u_short)block.
Wire(block) == block % BlockMod

-----------------------------------------------------------------------------
(* Packets.  A packet names the tftpd it comes from or goes to; requests   *)
(* go to the well-known port.  An option that is absent is 0; a request    *)
(* may carry "timeout 0", so there it is NoOption.                         *)

NoOption == -1

makerequest(op, name, blksize, tout, tsize) ==
  [op |-> op, name |-> name, blksize |-> IF blksize = SegSize THEN 0 ELSE blksize,
   timeout |-> tout, tsize |-> tsize]

DATA(i, block, data) ==
  [op |-> "DATA", srv |-> i, block |-> Wire(block), data |-> data]
ACK(i, block) == [op |-> "ACK", srv |-> i, block |-> Wire(block)]
OACK(i, blksize, timeout) ==
  [op |-> "OACK", srv |-> i, blksize |-> blksize, timeout |-> timeout]
ERROR(i) == [op |-> "ERROR", srv |-> i]

Request(op) == [op : {op}, name : STRING, blksize : Nat, timeout : Int,
                tsize : BOOLEAN]
Reply ==
  [op : {"DATA"}, srv : Srv, block : Nat, data : Seq(Byte)]
    \cup [op : {"ACK"}, srv : Srv, block : Nat]
    \cup [op : {"OACK"}, srv : Srv, blksize : Nat, timeout : Nat]
    \cup [op : {"ERROR"}, srv : Srv]

\* A packet buffer in which nothing has been stored.
NoPacket == [op |-> "NONE"]

\* Mutant: the intervals that have passed are not added up.
ElapsedReset(r) == r.rexmtval

\* timer(): timeout += rexmtval, before it is compared with maxtimeout.
Elapsed(r) == r.timeout + r.rexmtval

-----------------------------------------------------------------------------
(* Options.                                                                *)

\* blk_handler, timeout_handler and get_options of the server.  An option
\* that is out of range still counts as one, so the reply is still an OACK.
\* The client only asks for block sizes that are in range.
ServerOptions(req) ==
  LET granted == req.timeout \in 1..255
      rexmt   == IF granted THEN req.timeout ELSE TIMEOUT
  IN [etftp      |-> req.blksize # 0 \/ req.timeout # NoOption \/ req.tsize,
      blksize    |-> IF req.blksize = 0 THEN SegSize ELSE req.blksize,
      rexmtval   |-> rexmt,
      maxtimeout |-> IF ~granted THEN MaxTimeouts * TIMEOUT
                     ELSE IF rexmt > 60 THEN rexmt * 3
                     ELSE rexmt * MaxTimeouts,
      tout       |-> IF granted THEN req.timeout ELSE 0]

\* Mutant: the block size granted is not taken over.
ClientOptionsIgnored(c, p) ==
  [c EXCEPT !.blksize  = SegSize,
            !.rexmtval = IF p.timeout = 0 THEN TIMEOUT ELSE p.timeout]

\* The client on an OACK: defaults first, then what get_options finds.
ClientOptions(c, p) ==
  [c EXCEPT !.blksize  = IF p.blksize = 0 THEN SegSize ELSE p.blksize,
            !.rexmtval = IF p.timeout = 0 THEN TIMEOUT ELSE p.timeout]

\* The client on a first reply that is not an OACK.
DefaultOptions(c) == [c EXCEPT !.blksize = SegSize, !.rexmtval = TIMEOUT]
=============================================================================
