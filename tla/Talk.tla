-------------------------------- MODULE Talk --------------------------------
(***************************************************************************)
(* talk (remote_cmds/talk.tproj) and talkd (remote_cmds/talkd.tproj): how  *)
(* two users find one another through the daemons of their hosts.  Each    *)
(* user runs one talk at a time and calls the other; the hosts are two, or *)
(* one with one daemon.                                                    *)
(*                                                                         *)
(* Datagrams to and from the own host's daemon keep their order and arrive *)
(* (external: the loopback interface); those of the other host are lost,   *)
(* late and reordered.  A process is the number of its user's call, which  *)
(* stands for msg.pid and for the address of its socket.  The daemon never *)
(* finds an entry too old: it tests ptr->time - current_time > MAX_LIFE,   *)
(* which no clock that goes forward makes true.  A malformed request, and  *)
(* the conversation itself, are left out.                                  *)
(***************************************************************************)
EXTENDS Integers, Sequences

CONSTANTS
    MaxCalls,    \* bound: user -> times it starts talk
    MaxTrouble   \* bound: datagrams lost or answered late, announcements
                 \* refused or repeated, talks interrupted or killed

Users == {"A", "B"}

ASSUME TalkAssumption == MaxCalls \in [Users -> Nat] /\ MaxTrouble \in Nat

VARIABLES
    onehost,     \* both users are on one host
    talker,      \* user -> its talk
    table,       \* host -> the daemon's table, newest entry first
    current_id,  \* host -> the last id of new_id()
    requests,    \* host -> requests in the queue of the daemon's socket
    far,         \* requests on the way to the other host
    farback,     \* responses on the way back from it
    inbox,       \* user -> responses in the queue of ctl_sockt
    trouble      \* what MaxTrouble bounds, so far

talkVars == <<onehost, talker, table, current_id, requests, far, farback, inbox,
              trouble>>

Other(u) == IF u = "A" THEN "B" ELSE "A"
Host(u) == IF onehost THEN "A" ELSE u

MAX_ID == 16000
NOID == 0
IMPOSSIBLE == 100000    \* htonl(-1), unsigned: above every id

\* local_id, remote_id and id (of msg) are those of the source; waiting is
\* invitation_waiting; mode is where ctl_transact() waits; listen and backlog
\* are of the listening socket; ringing: in re_invite().
Asleep(pid) ==
    [pc |-> "off", mode |-> "select", pid |-> pid, id |-> NOID, addr |-> 0,
     local_id |-> NOID, remote_id |-> NOID, waiting |-> FALSE,
     listen |-> FALSE, backlog |-> 0, ringing |-> FALSE]

Troubled == trouble < MaxTrouble /\ trouble' = trouble + 1

TalkInit ==
    /\ onehost \in BOOLEAN
    /\ talker = [u \in Users |-> Asleep(0)]
    /\ table = [h \in Users |-> <<>>] /\ current_id = [h \in Users |-> 0]
    /\ requests = [h \in Users |-> <<>>] /\ far = {} /\ farback = {}
    /\ inbox = [u \in Users |-> <<>>]
    /\ trouble = 0

-----------------------------------------------------------------------------
(* talkd: the table.                                                       *)

\* The first of a set of places, 0 when there is none.
First(S) == IF S = {} THEN 0 ELSE CHOOSE i \in S : \A j \in S : i <= j

\* The invitation of the user that u wants to talk to.
find_match(t, u) ==
    First({i \in DOMAIN t : t[i].type = "LEAVE_INVITE" /\ t[i].from = Other(u)})

\* Mutant: the process that sent a request makes no difference.
find_requestAnyPid(t, m) ==
    First({i \in DOMAIN t : t[i].type = m.type /\ t[i].from = m.from})

find_request(t, m) ==
    First({i \in DOMAIN t : /\ t[i].type = m.type /\ t[i].from = m.from
                            /\ t[i].pid = m.pid})

new_id(h) ==
    LET n == (current_id[h] + 1) % MAX_ID IN IF n = 0 THEN 1 ELSE n

delete_invite(t, id) ==
    LET i == First({k \in DOMAIN t : t[k].id = id}) IN
    IF i = 0 THEN t ELSE SubSeq(t, 1, i - 1) \o SubSeq(t, i + 1, Len(t))

TableEntry(m, id) == [type |-> m.type, from |-> m.from, pid |-> m.pid, id |-> id]
Response(m, ok, id, addr) == [type |-> m.type, ok |-> ok, id |-> id, addr |-> addr]

\* What process_request() makes of request m on host h: the new table, the
\* last id and the response.  ring is what became of the announcement: shown,
\* refused by find_user() or gethostbyaddr(), or by announce() at the end.
insert_table(h, m, ok) ==
    [t |-> <<TableEntry(m, new_id(h))>> \o table[h], id |-> new_id(h),
     r |-> Response(m, ok, new_id(h), 0)]

do_announce(h, m, ring) ==
    LET i == find_request(table[h], m) IN
    CASE ring = "nouser" ->
           [t |-> table[h], id |-> current_id[h], r |-> Response(m, FALSE, NOID, 0)]
      [] ring # "nouser" /\ i = 0 -> insert_table(h, m, ring = "shown")
      [] ring # "nouser" /\ i # 0 /\ m.id > table[h][i].id ->
           [t |-> [table[h] EXCEPT ![i].id = new_id(h)], id |-> new_id(h),
            r |-> Response(m, ring = "shown", new_id(h), 0)]
      [] OTHER ->
           [t |-> table[h], id |-> current_id[h],
            r |-> Response(m, TRUE, table[h][i].id, 0)]

leave_invite(h, m) ==
    LET i == find_request(table[h], m) IN
    IF i = 0 THEN insert_table(h, m, TRUE)
    ELSE [t |-> table[h], id |-> current_id[h],
          r |-> Response(m, TRUE, table[h][i].id, 0)]

look_up(h, m) ==
    LET i == find_match(table[h], m.from) IN
    [t |-> table[h], id |-> current_id[h],
     r |-> IF i = 0 THEN Response(m, FALSE, NOID, 0)
           ELSE Response(m, TRUE, table[h][i].id, table[h][i].pid)]

delete_request(h, m) ==
    [t |-> delete_invite(table[h], m.id), id |-> current_id[h],
     r |-> Response(m, delete_invite(table[h], m.id) # table[h], NOID, 0)]

process_request(h, m, ring) ==
    CASE m.type = "ANNOUNCE" -> do_announce(h, m, ring)
      [] m.type = "LEAVE_INVITE" -> leave_invite(h, m)
      [] m.type = "LOOK_UP" -> look_up(h, m)
      [] m.type = "DELETE" -> delete_request(h, m)

\* A response reaches the process that asked, if there still is one; in the
\* conversation ctl_sockt is not read any more.
Heard(u, pid, r) ==
    IF talker[u].pc \notin {"off", "talk"} /\ talker[u].pid = pid
    THEN [inbox EXCEPT ![u] = Append(@, r)] ELSE inbox

\* A turn of talkd's main loop.
Serve(h) ==
    /\ requests[h] # <<>>
    /\ requests' = [requests EXCEPT ![h] = Tail(@)]
    /\ \E ring \in {"shown", "nouser", "refused"} :
         LET m == Head(requests[h])
             p == process_request(h, m, ring) IN
         /\ IF ring = "shown" THEN UNCHANGED trouble ELSE m.type = "ANNOUNCE" /\ Troubled
         /\ table' = [table EXCEPT ![h] = p.t]
         /\ current_id' = [current_id EXCEPT ![h] = p.id]
         /\ IF h = Host(m.from)
            THEN inbox' = Heard(m.from, m.pid, p.r) /\ UNCHANGED farback
            ELSE /\ farback' = farback \cup {[to |-> m.from, pid |-> m.pid, r |-> p.r]}
                 /\ UNCHANGED inbox
    /\ UNCHANGED <<onehost, talker, far>>

ArriveThere(m) ==
    /\ far' = far \ {m}
    /\ requests' = [requests EXCEPT ![Other(m.from)] = Append(@, m)]
    /\ UNCHANGED <<onehost, talker, table, current_id, farback, inbox, trouble>>

ArriveBack(b) ==
    /\ farback' = farback \ {b} /\ inbox' = Heard(b.to, b.pid, b.r)
    /\ UNCHANGED <<onehost, talker, table, current_id, requests, far, trouble>>

Lose ==
    /\ Troubled
    /\ \/ \E m \in far : far' = far \ {m} /\ UNCHANGED farback
       \/ \E b \in farback : farback' = farback \ {b} /\ UNCHANGED far
    /\ UNCHANGED <<onehost, talker, table, current_id, requests, inbox>>

-----------------------------------------------------------------------------
(* talk: ctl_transact().                                                   *)

Transacting == {"lookup", "del", "announce", "leave", "del1", "del2"}

TypeOf(pc) ==
    CASE pc = "lookup" -> "LOOK_UP"
      [] pc = "announce" -> "ANNOUNCE"
      [] pc = "leave" -> "LEAVE_INVITE"
      [] OTHER -> "DELETE"

\* The daemon a transaction is with: the own one, or that of the other user.
Near(pc) == pc \in {"leave", "del1"}

Post(u, m, near) ==
    IF near \/ onehost
    THEN requests' = [requests EXCEPT ![Host(u)] = Append(@, m)] /\ UNCHANGED far
    ELSE far' = far \cup {m} /\ UNCHANGED requests

CtlMsg(u, c, type, id) == [type |-> type, from |-> u, pid |-> c.pid, id |-> id]

\* The talk of u becomes c, which begins or repeats a transaction.
Transact(u, c) ==
    /\ talker' = [talker EXCEPT ![u] = [c EXCEPT !.mode = "select"]]
    /\ Post(u, CtlMsg(u, c, TypeOf(c.pc), c.id), Near(c.pc))

\* quit() with send_delete(), and the exit of the process.
send_delete(u, c) ==
    LET m == CtlMsg(u, c, "DELETE", c.remote_id)
        l == CtlMsg(u, c, "DELETE", c.local_id) IN
    IF ~c.waiting THEN UNCHANGED <<requests, far>>
    ELSE IF onehost
    THEN requests' = [requests EXCEPT ![Host(u)] = @ \o <<m, l>>] /\ UNCHANGED far
    ELSE far' = far \cup {m} /\ requests' = [requests EXCEPT ![u] = Append(@, l)]

quit(u, c) ==
    /\ send_delete(u, c)
    /\ talker' = [talker EXCEPT ![u] = Asleep(c.pid)]
    /\ inbox' = [inbox EXCEPT ![u] = <<>>]
    /\ UNCHANGED <<onehost, table, current_id, farback>>

\* Nothing is on the way from u to a daemon or back.
Silent(u) ==
    /\ inbox[u] = <<>>
    /\ \A h \in Users : \A k \in DOMAIN requests[h] : requests[h][k].from # u
    /\ \A m \in far : m.from # u
    /\ \A b \in farback : b.to # u

\* Mutant: select() is called again, and nothing is sent.
ResendWaits(u) ==
    LET c == talker[u] IN
    /\ c.pc \in Transacting /\ c.mode = "select" /\ inbox[u] = <<>>
    /\ UNCHANGED talkVars

\* select() times out; early, when an answer is still to come.
Resend(u) ==
    LET c == talker[u] IN
    /\ c.pc \in Transacting /\ c.mode = "select" /\ inbox[u] = <<>>
    /\ IF Silent(u) THEN UNCHANGED trouble ELSE Troubled
    /\ Transact(u, c)
    /\ UNCHANGED <<onehost, table, current_id, farback, inbox>>

\* SIGALRM, for disp_msg(), interrupts select(): `continue' evaluates
\* nready == 0 with nready = -1, so the loop ends, and recv() blocks.  While
\* an answer is on the way that makes no difference, and the step is left out.
\* In re_invite() the signal is blocked.
Interrupted(u) ==
    LET c == talker[u] IN
    /\ c.pc \in Transacting /\ c.mode = "select" /\ Silent(u) /\ ~c.ringing
    /\ talker' = [talker EXCEPT ![u].mode = "recv"]
    /\ UNCHANGED <<onehost, table, current_id, requests, far, farback, inbox,
                   trouble>>

-----------------------------------------------------------------------------
(* talk: check_local() and invite_remote().                                *)

\* The beginning of invite_remote(), up to the ANNOUNCE.
Inviting(c) ==
    [c EXCEPT !.pc = "announce", !.id = IMPOSSIBLE, !.waiting = TRUE, !.listen = TRUE]

\* The talk of u becomes c, which has no transaction to wait for.
GoesTo(u, c) ==
    /\ talker' = [talker EXCEPT ![u] = [c EXCEPT !.mode = "select"]]
    /\ UNCHANGED <<requests, far>>

\* In the conversation; local_id tells the user who waited to be called.
Talking(c) == [Asleep(c.pid) EXCEPT !.pc = "talk", !.local_id = c.local_id]

\* What the talk c does with the response r of its transaction.
Answered(u, c, r) ==
    CASE c.pc = "lookup" /\ r.ok ->
           GoesTo(u, [c EXCEPT !.pc = "connect", !.id = r.id, !.addr = r.addr])
      [] (c.pc = "lookup" /\ ~r.ok) \/ c.pc = "del" -> Transact(u, Inviting(c))
      [] c.pc = "announce" -> Transact(u, [c EXCEPT !.pc = "leave", !.remote_id = r.id])
      [] c.pc = "leave" ->
           GoesTo(u, [c EXCEPT !.pc = "accept", !.local_id = r.id, !.ringing = FALSE])
      [] c.pc = "del1" -> Transact(u, [c EXCEPT !.pc = "del2", !.id = c.remote_id])
      [] c.pc = "del2" -> GoesTo(u, Talking(c))

\* The loop that reads the queued responses, up to the first of the proper
\* type; when there is none, the request is sent again.
Read(u) ==
    LET c == talker[u]
        k == First({i \in DOMAIN inbox[u] : inbox[u][i].type = TypeOf(c.pc)})
        r == inbox[u][k] IN
    /\ c.pc \in Transacting /\ inbox[u] # <<>>
    /\ IF k = 0
       THEN /\ Transact(u, c) /\ inbox' = [inbox EXCEPT ![u] = <<>>]
            /\ UNCHANGED <<onehost, table, current_id, farback>>
       ELSE IF c.pc = "announce" /\ ~r.ok
       THEN quit(u, [c EXCEPT !.remote_id = r.id])
       ELSE /\ Answered(u, c, r)
            /\ inbox' = [inbox EXCEPT ![u] =
                 IF c.pc = "del2" THEN <<>> ELSE SubSeq(@, k + 1, Len(@))]
            /\ UNCHANGED <<onehost, table, current_id, farback>>
    /\ UNCHANGED trouble

\* main() up to look_for_invite().
Start(u) ==
    LET pid == talker[u].pid + 1 IN
    /\ talker[u].pc = "off" /\ talker[u].pid < MaxCalls[u]
    /\ Transact(u, [Asleep(pid) EXCEPT !.pc = "lookup"])
    /\ UNCHANGED <<onehost, table, current_id, farback, inbox, trouble>>

\* connect(); when it is refused the invitation is deleted.
Connect(u) ==
    LET c == talker[u]
        o == Other(u) IN
    /\ c.pc = "connect"
    /\ IF talker[o].pid = c.addr /\ talker[o].listen
       THEN /\ talker' = [talker EXCEPT ![u] = Talking(c), ![o].backlog = @ + 1]
            /\ inbox' = [inbox EXCEPT ![u] = <<>>]
            /\ UNCHANGED <<requests, far>>
       ELSE Transact(u, [c EXCEPT !.pc = "del", !.addr = 0]) /\ UNCHANGED inbox
    /\ UNCHANGED <<onehost, table, current_id, farback, trouble>>

\* accept() returns; on a socket that does not listen it fails, p_error().
Accept(u) ==
    LET c == talker[u] IN
    /\ c.pc = "accept"
    /\ IF c.listen
       THEN /\ c.backlog > 0
            /\ talker' = [talker EXCEPT ![u].pc = "accepted", ![u].backlog = @ - 1]
            /\ UNCHANGED <<onehost, table, current_id, requests, far, farback,
                           inbox>>
       ELSE quit(u, c)
    /\ UNCHANGED trouble

\* close(sockt): connections not yet accepted are reset.
CloseSockt(u) ==
    /\ talker[u].pc = "accepted"
    /\ talker' = [talker EXCEPT ![u].pc = "closed", ![u].listen = FALSE, ![u].backlog = 0]
    /\ UNCHANGED <<onehost, table, current_id, requests, far, farback, inbox,
                   trouble>>

\* Mutant: the own daemon is given the id of the other one.
DeleteInvitationsSwapped(u) ==
    LET c == talker[u] IN
    /\ c.pc = "closed"
    /\ Transact(u, [c EXCEPT !.pc = "del1", !.id = c.remote_id])
    /\ UNCHANGED <<onehost, table, current_id, farback, inbox, trouble>>

\* start_msgs(), after which SIGALRM is disp_msg()'s, and the first DELETE.
DeleteInvitations(u) ==
    LET c == talker[u] IN
    /\ c.pc = "closed"
    /\ Transact(u, [c EXCEPT !.pc = "del1", !.id = c.local_id])
    /\ UNCHANGED <<onehost, table, current_id, farback, inbox, trouble>>

\* SIGALRM calls re_invite(), which jumps back to accept(): also when accept()
\* has returned, and the new socket is forgotten.
re_invite(u) ==
    LET c == talker[u] IN
    /\ c.pc \in {"accept", "accepted", "closed"}
    /\ Transact(u, [c EXCEPT !.pc = "announce", !.id = c.remote_id + 1, !.ringing = TRUE])
    /\ Troubled
    /\ UNCHANGED <<onehost, table, current_id, farback, inbox>>

\* SIGINT, sig_sent().
SigSent(u) ==
    /\ talker[u].pc \notin {"off", "talk"}
    /\ quit(u, talker[u]) /\ Troubled

\* A signal that is not caught: no DELETE is sent.
Killed(u) ==
    /\ talker[u].pc \notin {"off", "talk"}
    /\ quit(u, [talker[u] EXCEPT !.waiting = FALSE]) /\ Troubled

\* talk() ends, for its user or because the connection is closed.
TalkEnds(u) ==
    talker[u].pc = "talk" /\ quit(u, talker[u]) /\ UNCHANGED trouble

\* timeout() of talkd: after MAXIDLE seconds without a request it exits, and
\* the next request finds a new daemon.  A talk that waits to be answered
\* sends requests to both daemons every RING_WAIT seconds.
DaemonIdle(h) ==
    /\ \A u \in Users : talker[u].pc \in {"off", "talk"} /\ Silent(u)
    /\ current_id[h] > 0
    /\ table' = [table EXCEPT ![h] = <<>>] /\ current_id' = [current_id EXCEPT ![h] = 0]
    /\ UNCHANGED <<onehost, talker, requests, far, farback, inbox, trouble>>

TalkStep(u) ==
    \/ Resend(u) \/ Read(u) \/ Connect(u) \/ Accept(u) \/ CloseSockt(u)
    \/ DeleteInvitations(u)

\* What happens when nothing disturbs the calls.
TalkAdvance ==
    \/ \E u \in Users : TalkStep(u) \/ Serve(u)
    \/ \E m \in far : ArriveThere(m)
    \/ \E b \in farback : ArriveBack(b)

TalkNext ==
    \/ TalkAdvance
    \/ \E u \in Users :
         \/ Start(u) \/ Interrupted(u) \/ re_invite(u) \/ SigSent(u)
         \/ Killed(u) \/ TalkEnds(u) \/ DaemonIdle(u)
    \/ Lose

\* The system does not stop while a talk, a daemon or the network can go on.
TalkFair == WF_talkVars(TalkAdvance)

TalkSpec == TalkInit /\ [][TalkNext]_talkVars /\ TalkFair

-----------------------------------------------------------------------------
\* Types; the ids of new_id() are unique within a table.
TalkTypeOK ==
    /\ \A u \in Users :
         /\ talker[u].pid \in 0..MaxCalls[u]
         /\ talker[u].backlog \in 0..MaxCalls[Other(u)]
         /\ current_id[u] \in 0..(MAX_ID - 1)
         /\ \A i, j \in DOMAIN table[u] : i < j => table[u][i].id # table[u][j].id
    /\ trouble \in 0..MaxTrouble

\* While a talk waits in accept(), what the daemon of its host finds for the
\* other user is its own invitation, under the id the talk would delete:
\* look_up.c's "there are no newer invitations, the talkd works LIFO".  Calls
\* that were killed leave invitations behind, requests are repeated, and the
\* other user deletes invitations by their id.
TalkInvites ==
    \A u \in Users :
      LET t == table[Host(u)]
          i == find_match(t, Other(u)) IN
      talker[u].pc = "accept" /\ talker[u].listen =>
        i # 0 /\ t[i].pid = talker[u].pid /\ t[i].id = talker[u].local_id

\* Once invite_remote() has returned, the talk's invitation is deleted, or the
\* DELETE is on the way to the own daemon, whichever response ended the
\* transaction.
TalkCleared ==
    \A u \in Users :
      LET c == talker[u]
          t == table[Host(u)] IN
      c.pc = "talk" /\ c.local_id # NOID =>
        \A i \in DOMAIN t :
          t[i].type = "LEAVE_INVITE" /\ t[i].from = u /\ t[i].pid = c.pid =>
            \E k \in DOMAIN requests[Host(u)] :
              LET m == requests[Host(u)][k] IN m.type = "DELETE" /\ m.id = t[i].id

\* A call comes to wait in accept(), to the conversation or to its end, unless
\* recv() of ctl_transact() was entered by an interrupted select() and
\* nothing is on the way that could end it.
TalkGoesOn ==
    \A u \in Users :
      talker[u].pc = "lookup" ~>
        \/ talker[u].pc \in {"accept", "talk", "off"}
        \/ talker[u].mode = "recv" /\ Silent(u)
=============================================================================
