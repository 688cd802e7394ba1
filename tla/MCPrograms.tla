----------------------------- MODULE MCPrograms -----------------------------
(***************************************************************************)
(* The programs that do not talk to one another, for TLC: a behaviour      *)
(* picks one of them in prog and runs it, while the variables of the       *)
(* others stay as they are.                                                *)
(***************************************************************************)
EXTENDS Fsck, Xargs, RadixSort, Shlock, ShTrap, ShJobs, Telnet, Talk

VARIABLE prog

Part(n, d, p) == [name |-> n, disk |-> d, pass |-> p, there |-> TRUE]
Gone(n, d, p) == [name |-> n, disk |-> d, pass |-> p, there |-> FALSE]

\* Three disks, one of them with the root and two more partitions, and one
\* partition listed twice; an order that puts the root in the middle, and an
\* entry that is not to be checked; a partition that is not there.
MCFstabs ==
    {<<Part("r", "a", 1), Part("a1", "a", 2), Part("b1", "b", 2),
       Part("b1", "b", 2), Part("c1", "c", 2), Part("a2", "a", 2)>>,
     <<Part("a1", "a", 2), Part("b1", "b", 2), Part("r", "a", 1),
       Part("b2", "b", 2), Part("z", "z", 0)>>,
     <<Part("r", "a", 1), Gone("a1", "a", 2), Part("b1", "b", 2)>>}

MCStrangers == {-1}

\* Keys that are equal, that are prefixes of one another, that end at each
\* level; no line; two lines.
MCInputs ==
    {<< <<2, 1>>, <<1, 2>>, <<2, 2, 1>>, <<1>>, <<2, 1>>, <<2, 2>> >>,
     << <<1, 1, 2>>, <<>>, <<1, 1>>, <<1, 1, 1>>, <<1, 1, 2>> >>,
     <<>>,
     << <<2>>, <<1>> >>}

MCGroups == {{"TTYPE", "NEW", "OLD"}, {"NAWS", "ECHO", "SECHO"}, {"BIN"}, {"SBIN"}}

\* One user calls once and the other twice; which is which does not matter.
MCCalls == [u \in Users |-> IF u = "A" THEN 2 ELSE 1]

Programs == {"fsck", "xargs", "sort", "shlock", "trap", "jobs", "telnet", "talk"}

\* A program that is not run is in one state only.
Init ==
    /\ prog \in Programs
    /\ ShlockInit /\ ShTrapInit /\ ShJobsInit
    /\ FsckInit
    /\ prog # "fsck" => /\ Len(fstab) = 3 /\ ~preen /\ requested_passno = 0
                        /\ maximum_running = 0
    /\ XargsInit
    /\ prog # "xargs" => maxprocs = 1 /\ todo = 0
    /\ RadixInit
    /\ prog # "sort" => keys = <<>> /\ nthreads = 1 /\ ~reverse_sort
    /\ TelnetInit
    /\ prog # "telnet" => group = {"BIN"}
    /\ TalkInit
    /\ prog # "talk" => onehost

Next ==
    \/ /\ prog = "fsck" /\ FsckNext
       /\ UNCHANGED <<prog, xargsVars, radixVars, shlockVars, shTrapVars,
                      shJobsVars, telnetVars, talkVars>>
    \/ /\ prog = "xargs" /\ XargsNext
       /\ UNCHANGED <<prog, fsckVars, radixVars, shlockVars, shTrapVars,
                      shJobsVars, telnetVars, talkVars>>
    \/ /\ prog = "sort" /\ RadixNext
       /\ UNCHANGED <<prog, fsckVars, xargsVars, shlockVars, shTrapVars,
                      shJobsVars, telnetVars, talkVars>>
    \/ /\ prog = "shlock" /\ ShlockNext
       /\ UNCHANGED <<prog, fsckVars, xargsVars, radixVars, shTrapVars,
                      shJobsVars, telnetVars, talkVars>>
    \/ /\ prog = "trap" /\ ShTrapNext
       /\ UNCHANGED <<prog, fsckVars, xargsVars, radixVars, shlockVars,
                      shJobsVars, telnetVars, talkVars>>
    \/ /\ prog = "jobs" /\ ShJobsNext
       /\ UNCHANGED <<prog, fsckVars, xargsVars, radixVars, shlockVars,
                      shTrapVars, telnetVars, talkVars>>
    \/ /\ prog = "telnet" /\ TelnetNext
       /\ UNCHANGED <<prog, fsckVars, xargsVars, radixVars, shlockVars,
                      shTrapVars, shJobsVars, talkVars>>
    \/ /\ prog = "talk" /\ TalkNext
       /\ UNCHANGED <<prog, fsckVars, xargsVars, radixVars, shlockVars,
                      shTrapVars, shJobsVars, telnetVars>>

vars == <<prog, fsckVars, xargsVars, radixVars, shlockVars, shTrapVars,
          shJobsVars, telnetVars, talkVars>>

\* The fairness of each module, for the program that runs.
Fairness ==
    /\ WF_fsckVars(prog = "fsck" /\ FsckStep)
    /\ WF_xargsVars(prog = "xargs" /\ (Run \/ InputEnds \/ WaitDone))
    /\ WF_xargsVars(prog = "xargs" /\ \E p \in DOMAIN xkids : Reap(p))
    /\ WF_xargsVars(prog = "xargs" /\ \E p \in DOMAIN xkids : p > 0 /\ XChildEnds(p))
    /\ WF_radixVars(prog = "sort" /\ MainStep)
    /\ \A t \in 0..MaxThreads :
         WF_radixVars(prog = "sort" /\ t \in DOMAIN tpc /\ ThreadStep(t))
    /\ WF_shTrapVars(prog = "trap" /\ DotrapStep)
    /\ SF_shTrapVars(prog = "trap" /\ ActionEnds)
    /\ WF_shTrapVars(prog = "trap" /\ WaitStep)
    /\ WF_shTrapVars(prog = "trap" /\ SetSignal)
    /\ \A s \in Sigs : WF_shTrapVars(prog = "trap" /\ Deliver(s))
    /\ WF_shJobsVars(prog = "jobs" /\ ShJobsStep)
    /\ WF_shJobsVars(prog = "jobs" /\ \E p \in DOMAIN procs : ProcEnds(p))
    /\ WF_telnetVars(prog = "telnet" /\ ServerReads)
    /\ WF_telnetVars(prog = "telnet" /\ ClientReads)
    /\ WF_telnetVars(prog = "telnet" /\ TelnetdStep)
    /\ WF_talkVars(prog = "talk" /\ TalkAdvance)

Spec == Init /\ [][Next]_vars /\ Fairness

-----------------------------------------------------------------------------
\* The types of the programs' variables; the counters of answers outstanding
\* in telnet and of checks in fsck never fall below 0.
TypeOK ==
    /\ FsckTypeOK /\ XargsTypeOK /\ RadixTypeOK /\ ShlockTypeOK
    /\ ShTrapTypeOK /\ ShJobsTypeOK /\ TelnetTypeOK /\ TalkTypeOK

\* FsckEnds, of a behaviour of fsck: do_diskchecks() returns.
FsckTerminates == prog = "fsck" => FsckEnds

\* XargsEnds, of a behaviour of xargs: it exits once its commands end.
XargsTerminates == prog = "xargs" => XargsEnds

\* RadixEnds, of a behaviour of sort: rxsort() returns with any number of
\* threads.
SortTerminates == prog = "sort" => RadixEnds

\* TelnetDiesDown, of a behaviour of telnet: negotiation comes to rest.
NegotiationEnds == prog = "telnet" => TelnetDiesDown

\* TelnetStarts, of a behaviour of telnet: telnetd reaches the login.
LoginStarts == prog = "telnet" => TelnetStarts
=============================================================================
