------------------------------- MODULE Telnet -------------------------------
(***************************************************************************)
(* Option negotiation between telnet (remote_cmds/telnet.tproj) and        *)
(* telnetd (remote_cmds/telnetd.tproj), and the two places where telnetd   *)
(* waits for it before the login: getterminaltype() and the beginning of   *)
(* telnet().                                                               *)
(*                                                                         *)
(* An agreement is an option together with the end that performs it: ECHO  *)
(* is the client echoing, SECHO the server.  The performing end says WILL  *)
(* and WONT, the other end DO and DONT; a message is the agreement and     *)
(* whether the word is a positive one.  The four handlers of each program  *)
(* keep for each agreement the last state heard of, the state wanted and   *)
(* the answers outstanding, and are one operator here.  A behaviour looks  *)
(* at one group of agreements.  TSPEED and XDISPLOC are like TTYPE, STATUS *)
(* and LFLOW are only asked for.  LINEMODE, SGA and TM, whose handlers act *)
(* on one another, are left out, as are AUTHENTICATION and ENCRYPT.        *)
(***************************************************************************)
EXTENDS Integers, Sequences

CONSTANTS
    Groups,     \* the sets of agreements a behaviour may be about
    UserOpts,   \* the agreements the client's user gives commands about
    MaxAsks,    \* bound: commands of the user and changes of the pty
    MaxNames    \* bound: terminal names telnetd asks for again

Ends == {"client", "server"}
ByClient == {"TTYPE", "NEW", "OLD", "NAWS", "ECHO", "BIN"}
ByServer == {"SECHO", "SBIN"}

ASSUME TelnetAssumption ==
    /\ \A g \in Groups : g \subseteq ByClient \cup ByServer
    /\ UserOpts \subseteq ByClient \cup ByServer
    /\ MaxAsks \in Nat /\ MaxNames \in Nat

VARIABLES
    group,
    opts,       \* end -> agreement -> its bits in options[] and its counter
    net,        \* end -> what is on the way to it
    tdpc,       \* where telnetd is
    answered,   \* options whose timer telnetd has set since baseline
    names,      \* terminal names asked for again
    asks

telnetVars == <<group, opts, net, tdpc, answered, names, asks>>

Peer(e) == IF e = "client" THEN "server" ELSE "client"
Word(a, on) == [kind |-> "option", agr |-> a, on |-> on]
SubOpt(a, on) == [kind |-> "sub", agr |-> a, on |-> on]    \* on: SEND, else IS

\* The options each program agrees to when asked: the cases of its switches.
ChangeOk(e, a) ==
    CASE e = "server" -> a # "ECHO"
      [] e = "client" -> a \notin {"ECHO", "OLD"}

-----------------------------------------------------------------------------
(* One end of one agreement: s is its state, and the result its new state  *)
(* and the words it says.                                                  *)

\* send_do(), send_dont(), send_will() and send_wont() with init = 1.
Ask(s, a, on) ==
    IF (s.resp = 0 /\ s.is = on) \/ s.want = on
    THEN [s |-> s, out |-> <<>>]
    ELSE [s |-> [s EXCEPT !.want = on, !.resp = @ + 1],
          out |-> <<Word(a, on)>>]

\* Mutants: the count goes below 0; a refusal is not taken for an answer.
CountedBlind(s, on) == s.resp - 1
CountedWanted(s, on) == IF s.resp > 0 /\ s.want = on THEN s.resp - 1 ELSE s.resp

\* The answers still outstanding once a word has come in.
Counted(s, on) ==
    CASE s.resp = 0 -> 0
      [] s.resp > 1 /\ s.is = on -> s.resp - 2
      [] OTHER -> s.resp - 1

\* Mutant: every word is answered.
HearAnswers(e, s, a, on) ==
    LET r == Counted(s, on)
        to == on /\ ChangeOk(e, a) IN
    [s |-> [is |-> on, want |-> to, resp |-> r], out |-> <<Word(a, to)>>]

\* willoption(), wontoption(), dooption() and dontoption().
Hear(e, s, a, on) ==
    LET r == Counted(s, on) IN
    CASE r # 0 \/ s.want = on ->
            [s |-> [s EXCEPT !.is = on, !.resp = r], out |-> <<>>]
      [] r = 0 /\ s.want # on /\ on /\ ChangeOk(e, a) ->
            [s |-> [is |-> on, want |-> TRUE, resp |-> 0],
             out |-> <<Word(a, TRUE)>>]
      [] r = 0 /\ s.want # on /\ on /\ ~ChangeOk(e, a) ->
            [s |-> [is |-> on, want |-> s.want, resp |-> 1],
             out |-> <<Word(a, FALSE)>>]
      [] r = 0 /\ s.want # on /\ ~on ->
            [s |-> [is |-> on, want |-> FALSE, resp |-> 0],
             out |-> IF s.is THEN <<Word(a, FALSE)>> ELSE <<>>]

\* WILL ECHO as the answer to our DO ECHO: telnetd calls send_dont() before
\* it notes that the option is on.
Confirms(s, a) == a = "ECHO" /\ Counted(s, TRUE) = 0 /\ s.want

ServerHear(s, a, on) ==
    IF ~(on /\ Confirms(s, a)) THEN Hear("server", s, a, on)
    ELSE LET d == Ask([s EXCEPT !.resp = Counted(s, on)], a, FALSE) IN
         [d EXCEPT !.s.is = TRUE]

-----------------------------------------------------------------------------
Off == [is |-> FALSE, want |-> FALSE, resp |-> 0]

\* One end asks for several agreements in turn.
AskAll(e, o, reqs) ==
    LET Requested(a) == {i \in DOMAIN reqs : reqs[i] = a}
        new == [a \in DOMAIN o[e] |->
                  IF Requested(a) = {} THEN [s |-> o[e][a], out |-> <<>>]
                  ELSE Ask(o[e][a], a, TRUE)]
        outs[i \in 0..Len(reqs)] ==
            IF i = 0 THEN <<>> ELSE outs[i - 1] \o new[reqs[i]].out
    IN [o |-> [o EXCEPT ![e] = [a \in DOMAIN o[e] |-> new[a].s]],
        out |-> outs[Len(reqs)]]

InGroup(g, reqs) == SelectSeq(reqs, LAMBDA a : a \in g)

\* telnet() of the client and the first requests of getterminaltype(); a
\* client given a port number waits to be asked.
TelnetInit ==
    /\ group \in Groups
    /\ \E eager \in BOOLEAN :
         LET o == [e \in Ends |-> [a \in group |-> Off]]
             c == AskAll("client", o,
                         IF eager THEN InGroup(group, <<"TTYPE", "NAWS", "NEW">>)
                                  ELSE <<>>)
             s == AskAll("server", c.o, InGroup(group, <<"TTYPE", "NEW", "OLD">>))
         IN opts = s.o /\ net = [client |-> s.out, server |-> c.out]
    /\ tdpc = [at |-> "negotiate", spin |-> FALSE]
    /\ answered = {} /\ names = 0 /\ asks = 0

\* his_will_wont_is_changing()
Changing(a) ==
    a \in group /\ opts["server"][a].is # opts["server"][a].want
HisStateWill(a) == a \in group /\ opts["server"][a].is

-----------------------------------------------------------------------------
\* Mutant: an option that is turned off is still waited for.
TimerNever(a, on, r) == answered

\* wontoption() sets the timer of an option whose sub-negotiation telnetd may
\* be waiting for.
TimerSet(a, on, r) ==
    IF ~on /\ r.resp = 0 /\ opts["server"][a].want /\ a \in {"TTYPE", "NEW", "OLD"}
    THEN answered \cup {a} ELSE answered

\* telrcv() of telnetd, for one command.
ServerReads ==
    LET m == Head(net["server"])
        s == opts["server"][m.agr]
        r == ServerHear(s, m.agr, m.on) IN
    /\ net["server"] # <<>>
    /\ \/ /\ m.kind = "option"
          /\ opts' = [opts EXCEPT !["server"][m.agr] = r.s]
          /\ net' = [client |-> net["client"] \o r.out,
                     server |-> Tail(net["server"])]
          /\ answered' = TimerSet(m.agr, m.on, r.s)
       \/ /\ m.kind = "sub"         \* suboption(): the answer to SEND
          /\ net' = [net EXCEPT !["server"] = Tail(@)]
          /\ answered' = IF m.agr = "TTYPE" /\ ~s.is THEN answered
                         ELSE answered \cup {m.agr}
          /\ UNCHANGED opts
    /\ UNCHANGED <<group, tdpc, names, asks>>

\* telrcv() of telnet, for one command.
ClientReads ==
    LET m == Head(net["client"])
        s == opts["client"][m.agr]
        r == Hear("client", s, m.agr, m.on) IN
    /\ net["client"] # <<>>
    /\ \/ /\ m.kind = "option"
          /\ opts' = [opts EXCEPT !["client"][m.agr] = r.s]
          /\ net' = [client |-> Tail(net["client"]),
                     server |-> net["server"] \o r.out]
       \/ /\ m.kind = "sub"         \* suboption(): SEND
          /\ net' = [client |-> Tail(net["client"]),
                     server |-> net["server"] \o
                       (IF s.want /\ m.agr # "OLD" THEN <<SubOpt(m.agr, FALSE)>>
                                                   ELSE <<>>)]
          /\ UNCHANGED opts
    /\ UNCHANGED <<group, tdpc, answered, names, asks>>

-----------------------------------------------------------------------------
(* telnetd before the login.                                               *)

At(p) == [at |-> p, spin |-> FALSE]
Say(words) == net' = [net EXCEPT !["client"] = @ \o words]

\* getterminaltype(), once no option is changing: ask for the values.
SendRequests ==
    /\ tdpc.at = "negotiate"
    /\ \A a \in {"TTYPE", "NEW", "OLD"} : ~Changing(a)
    /\ Say((IF HisStateWill("NEW") THEN <<SubOpt("NEW", TRUE)>>
            ELSE IF HisStateWill("OLD") THEN <<SubOpt("OLD", TRUE)>> ELSE <<>>)
           \o (IF HisStateWill("TTYPE") THEN <<SubOpt("TTYPE", TRUE)>> ELSE <<>>))
    /\ tdpc' = At("NEW")
    /\ UNCHANGED <<group, opts, answered, names, asks>>

AfterSpin(a) == CASE a = "NEW" -> "OLD" [] a = "OLD" -> "TTYPE"
                  [] a = "TTYPE" -> "telnet"

\* if (his_state_is_will(a)) while (sequenceIs(...)) ttloop();
EnterSpin ==
    /\ tdpc.at \in {"NEW", "OLD", "TTYPE"} /\ ~tdpc.spin
    /\ tdpc' = IF HisStateWill(tdpc.at) THEN [tdpc EXCEPT !.spin = TRUE]
                                        ELSE At(AfterSpin(tdpc.at))
    /\ UNCHANGED <<group, opts, net, answered, names, asks>>

LeaveSpin ==
    /\ tdpc.spin /\ tdpc.at \in answered
    /\ tdpc' = At(AfterSpin(tdpc.at))
    /\ UNCHANGED <<group, opts, net, answered, names, asks>>

\* _gettermname(): the terminal is not known, ask for its next name.
NextName ==
    /\ tdpc.at = "TTYPE" /\ tdpc.spin /\ "TTYPE" \in answered
    /\ HisStateWill("TTYPE") /\ names < MaxNames
    /\ Say(<<SubOpt("TTYPE", TRUE)>>)
    /\ answered' = {} /\ names' = names + 1
    /\ UNCHANGED <<group, opts, tdpc, asks>>

\* telnet(): ask whether the client echoes.
TestEcho ==
    LET r == AskAll("server", opts, InGroup(group, <<"ECHO", "NAWS">>)) IN
    /\ tdpc.at = "telnet"
    /\ opts' = r.o /\ Say(r.out)
    /\ tdpc' = At("naws")
    /\ UNCHANGED <<group, answered, names, asks>>

\* ... spin until NAWS has settled, then until ECHO has if that is worth it.
NawsSettled ==
    /\ tdpc.at = "naws" /\ ~Changing("NAWS")
    /\ tdpc' = IF "ECHO" \in group /\ opts["server"]["ECHO"].want
                  /\ HisStateWill("NAWS")
               THEN At("echo") ELSE At("settled")
    /\ UNCHANGED <<group, opts, net, answered, names, asks>>

EchoSettled ==
    /\ tdpc.at = "echo" /\ ~Changing("ECHO")
    /\ tdpc' = At("settled")
    /\ UNCHANGED <<group, opts, net, answered, names, asks>>

\* ... and the willoption(TELOPT_ECHO) that stands for an answer that did not
\* come, and the WILL ECHO.
StartLogin ==
    LET pretend == "ECHO" \in group /\ opts["server"]["ECHO"].want
        r == ServerHear(opts["server"]["ECHO"], "ECHO", TRUE)
        o == IF pretend THEN [opts EXCEPT !["server"]["ECHO"] = r.s] ELSE opts
        w == IF "SECHO" \in group /\ ~o["server"]["SECHO"].is
             THEN AskAll("server", o, <<"SECHO">>) ELSE [o |-> o, out |-> <<>>] IN
    /\ tdpc.at = "settled"
    /\ opts' = w.o
    /\ Say((IF pretend THEN r.out ELSE <<>>) \o w.out)
    /\ tdpc' = At("run")
    /\ UNCHANGED <<group, answered, names, asks>>

-----------------------------------------------------------------------------
AskOne(e, a, on) ==
    LET r == Ask(opts[e][a], a, on) IN
    /\ asks < MaxAsks /\ asks' = asks + 1
    /\ opts' = [opts EXCEPT ![e][a] = r.s]
    /\ net' = [net EXCEPT ![Peer(e)] = @ \o r.out]
    /\ UNCHANGED <<group, tdpc, answered, names>>

\* The user's send and set commands.
UserAsks ==
    \E a \in group \cap UserOpts, on \in BOOLEAN : AskOne("client", a, on)

\* localstat(), after a program on the pty has changed its modes.
localstat ==
    /\ tdpc.at = "run"
    /\ \E a \in group \cap {"BIN", "SBIN", "SECHO"}, on \in BOOLEAN :
         AskOne("server", a, on)

TelnetdStep ==
    \/ SendRequests \/ EnterSpin \/ LeaveSpin \/ NextName
    \/ TestEcho \/ NawsSettled \/ EchoSettled \/ StartLogin

TelnetNext == ServerReads \/ ClientReads \/ TelnetdStep \/ UserAsks \/ localstat

\* Both programs go on reading; telnetd goes on when it is not waiting.
TelnetFair ==
    /\ WF_telnetVars(ServerReads)
    /\ WF_telnetVars(ClientReads)
    /\ WF_telnetVars(TelnetdStep)

TelnetSpec == TelnetInit /\ [][TelnetNext]_telnetVars /\ TelnetFair
-----------------------------------------------------------------------------
TelnetTypeOK ==
    /\ opts \in [Ends -> [group -> [is : BOOLEAN, want : BOOLEAN, resp : Nat]]]
    /\ DOMAIN net = Ends
    /\ answered \subseteq {"TTYPE", "NEW", "OLD"}
    /\ tdpc.at \in {"negotiate", "NEW", "OLD", "TTYPE", "telnet", "naws",
                    "echo", "settled", "run"}
    /\ names \in 0..MaxNames /\ asks \in 0..MaxAsks

Quiet == net["client"] = <<>> /\ net["server"] = <<>>

\* Once nothing is on the way the two programs want the same of every option,
\* however their requests crossed: willoption(), wontoption(), dooption() and
\* dontoption() of the two programs count each other's answers right.
TelnetAgree ==
    Quiet => \A a \in group :
               opts["client"][a].want = opts["server"][a].want

\* Negotiation dies down: no request, and no two that cross, set off a loop of
\* answers to answers.
TelnetDiesDown == <>[]Quiet

\* telnetd gets past the loops of getterminaltype() and telnet() to the login,
\* even when the user turns an option off while it waits for its value.
TelnetStarts == <>(tdpc.at = "run")

\* The client is not left echoing: as the comment in willoption() says, telnetd
\* turns off at once a WILL ECHO that answers its DO ECHO.
TelnetEchoOff ==
    Quiet /\ tdpc.at = "run" /\ "ECHO" \in group => ~opts["server"]["ECHO"].want
=============================================================================
