------------------------------- MODULE ShTrap -------------------------------
(***************************************************************************)
(* sh (shell_cmds/sh/trap.c, and waitcmdloop() and dowait() of jobs.c):    *)
(* signals, the traps set for them, and the wait builtin they interrupt,   *)
(* in a shell that is not interactive.                                     *)
(*                                                                         *)
(* frames is the call stack: the script at the bottom, above it one frame  *)
(* for each dotrap() under way.  A frame that evaluates commands is at     *)
(* "eval"; the commands that matter here are trap, wait, starting a child  *)
(* in the background and running a subshell.  Signals come between any two *)
(* steps; onsig() itself is one step.                                      *)
(***************************************************************************)
EXTENDS Integers, Sequences, FiniteSets

CONSTANTS
    Sigs,        \* signals sent, out of INT, QUIT, TERM and CHLD
    MaxDepth,    \* bound: frames on the stack
    MaxSignals,  \* bound: signals sent
    MaxTraps     \* bound: trap commands executed

INT == 2
QUIT == 3
TERM == 15
CHLD == 20

ASSUME ShTrapAssumption ==
    /\ Sigs \subseteq {INT, QUIT, TERM, CHLD} /\ CHLD \in Sigs
    /\ MaxDepth \in Nat /\ MaxDepth > 1 /\ MaxSignals \in Nat /\ MaxTraps \in Nat

VARIABLES
    frames,             \* Seq of [pc, i]
    trap,               \* signal -> none, ignore ('') or cmd
    sigmode,            \* signal -> dfl, catch, ign: what the kernel knows
    gotsig, pendingsig, pendingsig_waitcmd,
    ignore_sigchld,
    sigpend,            \* signals sent and not yet delivered
    child,              \* a background child: none, runs, zombie, gone
    alive, rootshell,
    sent, traps         \* counters for the bounds

trapSettings == <<trap, sigmode>>
trapFlags == <<gotsig, pendingsig, pendingsig_waitcmd>>
trapEnv == <<sigpend, child, alive, sent>>
shTrapVars == <<frames, trapSettings, trapFlags, ignore_sigchld, trapEnv,
                rootshell, traps>>

Top == frames[Len(frames)]
Pc(l) == alive /\ Top.pc = l
GotoT(l) == frames' = [frames EXCEPT ![Len(frames)].pc = l]

\* setsignal(): the disposition that follows from trap[s].
ModeFor(s, t) == IF t = "cmd" THEN "catch"
                 ELSE IF t = "ignore" THEN "ign"
                 ELSE IF s \in {INT, QUIT} THEN "catch" ELSE "dfl"

ShTrapInit ==
    /\ frames = <<[pc |-> "eval", i |-> 0]>>
    /\ trap = [s \in Sigs |-> "none"]
    /\ sigmode = [s \in Sigs |-> ModeFor(s, "none")]
    /\ gotsig = [s \in Sigs |-> FALSE]
    /\ pendingsig = 0 /\ pendingsig_waitcmd = 0 /\ ignore_sigchld = 0
    /\ sigpend = {} /\ child = "none" /\ alive = TRUE /\ rootshell = TRUE
    /\ sent = 0 /\ traps = 0

-----------------------------------------------------------------------------
(* The kernel.  In dowait() every signal is blocked, except while          *)
(* sigsuspend() sleeps; and SIGCHLD has dummy_handler() if it has no trap. *)

Blocked == Top.pc = "wcheck"
\* Mutant: SIGCHLD has no handler in dowait().
DummyNever(s) == FALSE

Dummy(s) == s = CHLD /\ trap[CHLD] # "cmd" /\ Top.pc \in {"wcheck", "wsuspend"}
Dropped(s) == /\ ~Dummy(s)
              /\ sigmode[s] = "ign" \/ (sigmode[s] = "dfl" /\ s = CHLD)
Raise(s) == sigpend' = IF Dropped(s) THEN sigpend ELSE sigpend \cup {s}

Send(s) ==
    /\ alive /\ s # CHLD /\ sent < MaxSignals
    /\ sent' = sent + 1
    /\ Raise(s)
    /\ UNCHANGED <<frames, trapSettings, trapFlags, ignore_sigchld, child,
                   alive, rootshell, traps>>

ChildExits ==
    /\ alive /\ child = "runs"
    /\ child' = "zombie"
    /\ Raise(CHLD)
    /\ UNCHANGED <<frames, trapSettings, trapFlags, ignore_sigchld, alive,
                   sent, rootshell, traps>>

-----------------------------------------------------------------------------
(* onsig().  Without a trap SIGINT ends a script (onint()).                *)

Noted(s) == trap[s] = "cmd" /\ (s # CHLD \/ ignore_sigchld = 0)

\* Mutants: one of the two flags is not set.
onsigNoPending(s) ==
    /\ gotsig' = [gotsig EXCEPT ![s] = @ \/ Noted(s)]
    /\ pendingsig' = pendingsig
    /\ pendingsig_waitcmd' = IF s \in {INT, QUIT} \/ Noted(s)
                             THEN s ELSE pendingsig_waitcmd
onsigNoWait(s) ==
    /\ gotsig' = [gotsig EXCEPT ![s] = @ \/ Noted(s)]
    /\ pendingsig' = IF Noted(s) THEN s ELSE pendingsig
    /\ pendingsig_waitcmd' = pendingsig_waitcmd

onsig(s) ==
    /\ gotsig' = [gotsig EXCEPT ![s] = @ \/ Noted(s)]
    /\ pendingsig' = IF Noted(s) THEN s ELSE pendingsig
    /\ pendingsig_waitcmd' = IF s \in {INT, QUIT} \/ Noted(s)
                             THEN s ELSE pendingsig_waitcmd

Fatal(s) == \/ sigmode[s] = "dfl" /\ s # CHLD
            \/ s = INT /\ trap[INT] = "none"

Deliver(s) ==
    /\ alive /\ s \in sigpend /\ ~Blocked
    /\ sigpend' = sigpend \ {s}
    /\ alive' = ~Fatal(s)
    /\ IF sigmode[s] = "catch" /\ ~Fatal(s) THEN onsig(s)
                                           ELSE UNCHANGED trapFlags
    /\ IF Top.pc = "wsuspend" THEN GotoT("wcheck") ELSE UNCHANGED frames
    /\ UNCHANGED <<trapSettings, ignore_sigchld, child, sent, rootshell, traps>>

-----------------------------------------------------------------------------
(* evaltree(): "if (pendingsig) dotrap()", and dotrap().                   *)

\* The end of a command of the script or of a trap action.
CommandEnds ==
    /\ Pc("check")
    /\ frames' = IF pendingsig # 0 /\ Len(frames) < MaxDepth
                 THEN Append([frames EXCEPT ![Len(frames)].pc = "eval"],
                             [pc |-> "clear", i |-> 0])
                 ELSE [frames EXCEPT ![Len(frames)].pc = "eval"]
    /\ UNCHANGED <<trapSettings, trapFlags, ignore_sigchld, trapEnv, rootshell,
                   traps>>

\* A command that does nothing else of interest.
OtherCommand ==
    /\ Pc("eval") /\ pendingsig # 0 /\ Len(frames) < MaxDepth
    /\ GotoT("check")
    /\ UNCHANGED <<trapSettings, trapFlags, ignore_sigchld, trapEnv, rootshell,
                   traps>>

\* The top of the loop: the flags are cleared before gotsig is looked at.
ClearPending ==
    /\ Pc("clear")
    /\ pendingsig' = 0 /\ pendingsig_waitcmd' = 0
    /\ frames' = [frames EXCEPT ![Len(frames)] = [pc |-> "scan", i |-> 1]]
    /\ UNCHANGED <<trapSettings, gotsig, ignore_sigchld, trapEnv, rootshell,
                   traps>>

NSIG == CHLD + 1

\* for (i = 1; i < NSIG; i++): on to the next signal of interest.
ScanNext ==
    /\ Pc("scan") /\ Top.i < NSIG
    /\ Top.i \in Sigs => ~gotsig[Top.i]
    /\ \E j \in Sigs \cup {NSIG} :
        /\ j > Top.i /\ \A k \in Sigs : k > Top.i => j <= k
        /\ frames' = [frames EXCEPT ![Len(frames)].i = j]
    /\ UNCHANGED <<trapSettings, trapFlags, ignore_sigchld, trapEnv, rootshell,
                   traps>>

ScanTakes ==
    /\ Pc("scan") /\ Top.i \in Sigs /\ gotsig[Top.i]
    /\ gotsig' = [gotsig EXCEPT ![Top.i] = FALSE]
    /\ GotoT("take")
    /\ UNCHANGED <<trapSettings, pendingsig, pendingsig_waitcmd, ignore_sigchld,
                   trapEnv, rootshell, traps>>

\* if (trap[i]): evaluate the action.
RunAction ==
    /\ Pc("take")
    /\ IF trap[Top.i] = "none"
       THEN GotoT("clear") /\ UNCHANGED ignore_sigchld
       ELSE /\ GotoT("eval")
            /\ ignore_sigchld' = ignore_sigchld + (IF Top.i = CHLD THEN 1 ELSE 0)
    /\ UNCHANGED <<trapSettings, trapFlags, trapEnv, rootshell, traps>>

ActionEnds ==
    /\ Pc("eval") /\ Len(frames) > 1
    /\ GotoT("clear")
    /\ ignore_sigchld' = ignore_sigchld - (IF Top.i = CHLD THEN 1 ELSE 0)
    /\ UNCHANGED <<trapSettings, trapFlags, trapEnv, rootshell, traps>>

DotrapReturns ==
    /\ Pc("scan") /\ Top.i = NSIG
    /\ frames' = SubSeq(frames, 1, Len(frames) - 1)
    /\ UNCHANGED <<trapSettings, trapFlags, ignore_sigchld, trapEnv, rootshell,
                   traps>>

-----------------------------------------------------------------------------
(* The commands.                                                           *)

\* trapcmd() assigns trap[signo], and then calls setsignal().
TrapCmd(s, t) ==
    /\ Pc("eval") /\ traps < MaxTraps
    /\ trap' = [trap EXCEPT ![s] = t]
    /\ traps' = traps + 1
    /\ GotoT("trapset")
    /\ UNCHANGED <<sigmode, trapFlags, ignore_sigchld, trapEnv, rootshell>>

SetSignal ==
    /\ Pc("trapset")
    /\ sigmode' = [s \in Sigs |-> ModeFor(s, trap[s])]
    /\ sigpend' = {s \in sigpend : sigmode'[s] # "ign"}
    /\ GotoT("check")
    /\ UNCHANGED <<trap, trapFlags, ignore_sigchld, child, alive, sent,
                   rootshell, traps>>

\* forkshell() in the child: clear_traps() keeps the empty traps.
Subshell ==
    /\ Pc("eval") /\ rootshell
    /\ rootshell' = FALSE
    /\ trap' = [s \in Sigs |-> IF trap[s] = "cmd" THEN "none" ELSE trap[s]]
    /\ sigmode' = [s \in Sigs |-> ModeFor(s, trap'[s])]
    /\ sigpend' = {} /\ child' = "gone"
    /\ UNCHANGED <<frames, trapFlags, ignore_sigchld, alive, sent, traps>>

StartChild ==
    /\ Pc("eval") /\ child = "none" /\ rootshell
    /\ child' = "runs"
    /\ GotoT("check")
    /\ UNCHANGED <<trapSettings, trapFlags, ignore_sigchld, sigpend,
                   alive, sent, rootshell, traps>>

\* waitcmdloop() with a running job, dowait(DOWAIT_BLOCK | DOWAIT_SIG): block
\* all signals, then look for a child that is done.
WaitCmd ==
    /\ Pc("eval") /\ child \in {"runs", "zombie"}
    /\ GotoT("wcheck")
    /\ UNCHANGED <<trapSettings, trapFlags, ignore_sigchld, trapEnv, rootshell,
                   traps>>

\* wait3() finds the child: wait returns its status.
WaitGotChild ==
    /\ Pc("wcheck") /\ child = "zombie"
    /\ child' = "gone"
    /\ sigpend' = IF trap[CHLD] = "cmd" THEN sigpend ELSE sigpend \ {CHLD}
    /\ GotoT("check")
    /\ UNCHANGED <<trapSettings, trapFlags, ignore_sigchld, alive, sent,
                   rootshell, traps>>

\* wait3() finds nothing: EINTR if a signal has been noted, else sigsuspend().
WaitInterrupted ==
    /\ Pc("wcheck") /\ child # "zombie" /\ pendingsig_waitcmd # 0
    /\ GotoT("wbreak")
    /\ sigpend' = IF trap[CHLD] = "cmd" THEN sigpend ELSE sigpend \ {CHLD}
    /\ UNCHANGED <<trapSettings, trapFlags, ignore_sigchld, child, alive, sent,
                   rootshell, traps>>

WaitSuspend ==
    /\ Pc("wcheck") /\ child # "zombie" /\ pendingsig_waitcmd = 0
    /\ GotoT("wsuspend")
    /\ UNCHANGED <<trapSettings, trapFlags, ignore_sigchld, trapEnv, rootshell,
                   traps>>

\* The end of waitcmdloop(), with signals unblocked again.
WaitReturns128 ==
    /\ Pc("wbreak")
    /\ pendingsig_waitcmd' = 0
    /\ GotoT("check")
    /\ UNCHANGED <<trapSettings, gotsig, pendingsig, ignore_sigchld, trapEnv,
                   rootshell, traps>>

DotrapStep == CommandEnds \/ OtherCommand \/ ClearPending \/ ScanNext
                  \/ ScanTakes \/ RunAction \/ DotrapReturns
WaitStep == WaitGotChild \/ WaitInterrupted \/ WaitSuspend \/ WaitReturns128
ShTrapNext ==
    \/ DotrapStep \/ ActionEnds \/ WaitStep
    \/ \E s \in Sigs : Send(s) \/ Deliver(s)
    \/ \E s \in Sigs, t \in {"none", "ignore", "cmd"} : TrapCmd(s, t)
    \/ SetSignal \/ ChildExits \/ Subshell \/ StartChild \/ WaitCmd
ShTrapSpec == ShTrapInit /\ [][ShTrapNext]_shTrapVars

\* The shell runs, trap actions end, and the kernel delivers signals.  The
\* child need not end.
ShTrapFair ==
    /\ WF_shTrapVars(DotrapStep) /\ SF_shTrapVars(ActionEnds)
    /\ WF_shTrapVars(WaitStep)
    /\ WF_shTrapVars(SetSignal)
    /\ \A s \in Sigs : WF_shTrapVars(Deliver(s))

-----------------------------------------------------------------------------
(* Properties.                                                             *)

ShTrapTypeOK ==
    /\ frames \in Seq([pc : {"eval", "clear", "scan", "take", "wcheck",
                             "wsuspend", "wbreak", "trapset", "check"},
                       i : 0..NSIG])
    /\ frames # <<>>
    /\ trap \in [Sigs -> {"none", "ignore", "cmd"}]
    /\ sigmode \in [Sigs -> {"dfl", "catch", "ign"}]
    /\ gotsig \in [Sigs -> BOOLEAN]
    /\ pendingsig \in Sigs \cup {0} /\ pendingsig_waitcmd \in Sigs \cup {0}
    /\ ignore_sigchld \in Nat
    /\ sigpend \subseteq Sigs /\ child \in {"none", "runs", "zombie", "gone"}
    /\ alive \in BOOLEAN /\ rootshell \in BOOLEAN
    /\ sent \in Nat /\ traps \in Nat

Passed(f, s) == f.pc = "scan" /\ f.i > s

\* A signal that onsig() has noted in gotsig[] is not forgotten: pendingsig
\* still asks for dotrap(), or a dotrap() under way has yet to look at it.
\* Clearing pendingsig before the scan, and scanning anew after each action,
\* is what makes this so, wherever the signal comes in.
TrapNotLost ==
    \A s \in Sigs : gotsig[s] =>
        \/ pendingsig # 0
        \/ \E n \in 2..Len(frames) : ~Passed(frames[n], s)

\* wait never sleeps in sigsuspend() on a signal already noted, nor on a child
\* that is gone and whose SIGCHLD will not come: blocking all signals around
\* the checks leaves no gap.
WaitNoSleep ==
    Top.pc = "wsuspend" =>
        /\ pendingsig_waitcmd = 0
        /\ child = "zombie" => CHLD \in sigpend

\* A signal noted for a trap is taken up by dotrap(), if the shell lives.
\* The action of another trap may wait for a child before that, with the
\* flags already cleared: so this takes a child that does not run for ever.
TrapTaken ==
    <>[](child # "runs") => \A s \in Sigs : gotsig[s] ~> (~gotsig[s] \/ ~alive)

\* A signal that is to interrupt wait does so, although the child never ends.
WaitWakes ==
    (Top.pc \in {"wcheck", "wsuspend"}
        /\ (pendingsig_waitcmd # 0
            \/ \E s \in sigpend : s # CHLD /\ (trap[s] = "cmd" \/ s \in {INT, QUIT})))
        ~> (~alive \/ Top.pc \notin {"wcheck", "wsuspend"})
=============================================================================
