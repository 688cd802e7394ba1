------------------------------- MODULE Xargs -------------------------------
(***************************************************************************)
(* xargs (shell_cmds/xargs/xargs.c): the commands it runs, up to maxprocs  *)
(* of them at a time, and how their ends become its exit status.           *)
(*                                                                         *)
(* What the input says is abstracted to the number of commands it makes    *)
(* xargs run, and to whether it ends well or in an error (an unterminated  *)
(* quote, an argument that does not fit).  The options -p and -o are left  *)
(* out.                                                                    *)
(***************************************************************************)
EXTENDS Integers, FiniteSets

CONSTANTS
    MaxCmds,    \* bound: commands an input leads to
    Procs,      \* values of -P
    Strangers   \* children xargs has before it starts, by pid

ASSUME XargsAssumption ==
    /\ MaxCmds \in Nat
    /\ Procs \subseteq Nat \ {0}
    /\ Strangers \subseteq {n \in Int : n < 0} /\ IsFiniteSet(Strangers)

VARIABLES
    maxprocs, todo,      \* -P, and the commands still to come
    xpc,                 \* read, wait (in waitchildren), exit
    childpids, curprocs,
    childerr, rval,
    waitall, cause_exit, \* parameter and local of waitchildren()
    exit_code,           \* parameter of xexit(), NONE outside it, LATER when
                         \* the status is rval as it is after the wait
    xkids,               \* children not yet waited for: pid -> status
    xpid,                \* the pids given out to commands
    ended                \* history: how the commands begun have ended, an
                         \* exec that failed being -errno

xargsVars == <<maxprocs, todo, xpc, childpids, curprocs, childerr, rval,
               waitall, cause_exit, exit_code, xkids, xpid, ended>>

NOPID == 0
NONE == -1
LATER == -2             \* exit(rval) is to follow
RUNNING == -1
FAILING == -2           \* exec failed: on the way to _exit(1)
Alive(st) == st \in {RUNNING, FAILING}
ENOENT == 2
EACCES == 13
SIGNALED == 256         \* a status that is no exit value
EndStatuses == {0, 1, 255, SIGNALED}
Slots == 0..(maxprocs - 1)

XargsInit ==
    /\ maxprocs \in Procs /\ todo \in 0..MaxCmds
    /\ xpc = "read"
    /\ childpids = [s \in Slots |-> NOPID] /\ curprocs = 0
    /\ childerr = 0 /\ rval = 0
    /\ waitall = FALSE /\ cause_exit = 0 /\ exit_code = NONE
    /\ xkids = [p \in Strangers |-> RUNNING]
    /\ xpid = 0 /\ ended = <<>>

-----------------------------------------------------------------------------
findslot(pid) == {s \in Slots : childpids[s] = pid /\
                                \A t \in Slots : childpids[t] = pid => s <= t}
pids_empty == curprocs = 0
pids_full == curprocs >= maxprocs

\* waitchildren(name, all), up to its loop.
EnterWait(all) == xpc' = "wait" /\ waitall' = all /\ cause_exit' = 0

xexit(code) == EnterWait(TRUE) /\ exit_code' = code

\* run(): vfork() lets the parent go on once the child has executed the
\* command or has failed to: then childerr is set and the child is about to
\* be gone with status 1.
Run ==
    /\ xpc = "read" /\ todo > 0
    /\ todo' = todo - 1
    /\ \E err \in {0, ENOENT, EACCES} :
        LET st == IF err = 0 THEN RUNNING ELSE FAILING IN
        /\ childerr' = err
        /\ xpid' = xpid + 1
        /\ xkids' = [p \in DOMAIN xkids \cup {xpid + 1} |->
                        IF p = xpid + 1 THEN st ELSE xkids[p]]
        /\ ended' = [n \in 1..(xpid + 1) |->
                        IF n = xpid + 1 THEN (IF err = 0 THEN RUNNING ELSE -err)
                                        ELSE ended[n]]
    /\ IF findslot(NOPID) = {}
       THEN /\ xpc' = "exit" /\ exit_code' = 1    \* "no free pid slot"
            /\ UNCHANGED <<childpids, curprocs, waitall, cause_exit>>
       ELSE /\ \E s \in findslot(NOPID) :
                 childpids' = [childpids EXCEPT ![s] = xpid + 1]
            /\ curprocs' = curprocs + 1
            /\ EnterWait(FALSE)
            /\ UNCHANGED exit_code
    /\ UNCHANGED <<maxprocs, rval>>

\* run() when vfork() fails.
RunFails ==
    /\ xpc = "read" /\ todo > 0
    /\ childerr' = 0
    /\ xexit(1)
    /\ UNCHANGED <<maxprocs, todo, childpids, curprocs, rval, xkids, xpid, ended>>

\* parse_input() reaches the end of the input, or an error in it.
InputEnds ==
    /\ xpc = "read" /\ todo = 0
    /\ xexit(rval)
    /\ UNCHANGED <<maxprocs, todo, childpids, curprocs, childerr, rval, xkids,
                   xpid, ended>>

\* parse_input() finds the -E string at the beginning of an argument list.
EofString ==
    /\ xpc = "read" /\ todo = 0
    /\ EnterWait(TRUE) /\ exit_code' = LATER
    /\ UNCHANGED <<maxprocs, todo, childpids, curprocs, childerr, rval, xkids,
                   xpid, ended>>

InputError ==
    /\ xpc = "read"
    /\ xexit(1)
    /\ UNCHANGED <<maxprocs, todo, childpids, curprocs, childerr, rval, xkids,
                   xpid, ended>>

-----------------------------------------------------------------------------
XChildEnds(p) ==
    /\ Alive(xkids[p])
    /\ \E st \in IF xkids[p] = RUNNING THEN EndStatuses ELSE {1} :
        /\ xkids' = [xkids EXCEPT ![p] = st]
        /\ ended' = IF p > 0 /\ xkids[p] = RUNNING
                    THEN [ended EXCEPT ![p] = st] ELSE ended
    /\ UNCHANGED <<maxprocs, todo, xpc, childpids, curprocs, childerr, rval,
                   waitall, cause_exit, exit_code, xpid>>

Forget(p) == xkids' = [q \in DOMAIN xkids \ {p} |-> xkids[q]]

\* Mutants: 255 is a status like others; a command that ends well makes up
\* for one that did not.
FatalSignal(st) == st = SIGNALED
LastStatus(st) == IF st # 0 THEN 1 ELSE 0

\* What waitchildren() makes of the status of a tracked child.
NotRun == IF childerr = ENOENT THEN 127 ELSE 126
EndsXargs(st) == st \in {SIGNALED, 255}
RvalAfter(st) == IF st # 0 THEN 1 ELSE rval

Judge(st) ==
    IF childerr # 0 /\ cause_exit = 0
    THEN waitall' = TRUE /\ cause_exit' = NotRun /\ UNCHANGED rval
    ELSE IF EndsXargs(st)
    THEN waitall' = TRUE /\ cause_exit' = 1 /\ UNCHANGED rval
    ELSE rval' = RvalAfter(st) /\ UNCHANGED <<waitall, cause_exit>>

\* Mutant: any child counts.
pids_removeAny(p) ==
    /\ childpids' = [s \in Slots |-> IF s \in findslot(p) THEN NOPID ELSE childpids[s]]
    /\ curprocs' = curprocs - 1

\* pids_remove() and clearslot()
pids_remove(p) ==
    IF findslot(p) = {} THEN UNCHANGED <<childpids, curprocs>>
    ELSE /\ \E s \in findslot(p) : childpids' = [childpids EXCEPT ![s] = NOPID]
         /\ curprocs' = curprocs - 1

\* xwait(): waitpid() returns a child, tracked or not.
Reap(p) ==
    /\ xpc = "wait" /\ ~pids_empty
    /\ ~Alive(xkids[p])
    /\ Forget(p)
    /\ pids_remove(p)
    /\ IF findslot(p) = {} THEN UNCHANGED <<waitall, cause_exit, rval>>
                           ELSE Judge(xkids[p])
    /\ UNCHANGED <<maxprocs, todo, xpc, childerr, exit_code, xpid, ended>>

\* Mutant: it waits for children of others.
NothingLeft == DOMAIN xkids = {}

\* xwait() returns -1 (ECHILD), or 0 when it does not block.
Nothing ==
    \/ pids_empty
    \/ ~waitall /\ ~pids_full /\ \A p \in DOMAIN xkids : Alive(xkids[p])

WaitDone ==
    /\ xpc = "wait"
    /\ Nothing
    /\ IF cause_exit # 0
       THEN xpc' = "exit" /\ exit_code' = cause_exit
       ELSE /\ xpc' = IF exit_code = NONE THEN "read" ELSE "exit"
            /\ exit_code' = IF exit_code = LATER THEN rval ELSE exit_code
    /\ UNCHANGED <<maxprocs, todo, childpids, curprocs, childerr, rval,
                   waitall, cause_exit, xkids, xpid, ended>>

XargsNext ==
    \/ Run \/ RunFails \/ InputEnds \/ EofString \/ InputError \/ WaitDone
    \/ \E p \in DOMAIN xkids : XChildEnds(p) \/ Reap(p)

XargsSpec == XargsInit /\ [][XargsNext]_xargsVars

\* Every command comes to its end, and xargs is scheduled.
XargsFair ==
    /\ WF_xargsVars(Run \/ InputEnds \/ WaitDone)
    /\ WF_xargsVars(\E p \in DOMAIN xkids : Reap(p))
    /\ WF_xargsVars(\E p \in DOMAIN xkids : p > 0 /\ XChildEnds(p))

-----------------------------------------------------------------------------
(* Properties.                                                             *)

Own == {p \in DOMAIN xkids : p > 0}

XargsTypeOK ==
    /\ maxprocs \in Procs /\ todo \in 0..MaxCmds
    /\ xpc \in {"read", "wait", "exit"}
    /\ childpids \in [Slots -> Nat] /\ curprocs \in Nat
    /\ childerr \in {0, ENOENT, EACCES} /\ rval \in {0, 1}
    /\ waitall \in BOOLEAN /\ cause_exit \in {0, 1, 126, 127}
    /\ exit_code \in {NONE, LATER, 0, 1, 126, 127}
    /\ xpid \in Nat
    /\ DOMAIN xkids \subseteq Strangers \cup 1..xpid
    /\ \A p \in DOMAIN xkids : xkids[p] \in EndStatuses \cup {RUNNING, FAILING}
    /\ DOMAIN ended = 1..xpid

\* The table childpids holds the commands not yet waited for, each in one
\* slot, and curprocs counts them: run() always finds a free slot, and never
\* are more than maxprocs commands under way, whatever other children end.
XargsSlots ==
    /\ {childpids[s] : s \in Slots} \ {NOPID} = Own
    /\ \A s, t \in Slots : childpids[s] = childpids[t] /\ s # t
                             => childpids[s] = NOPID
    /\ curprocs = Cardinality(Own)
    /\ curprocs <= maxprocs
    /\ xpc = "read" => curprocs < maxprocs

\* "waiting is preferable to orphaning": when xargs exits, for whatever
\* reason, it has waited for every command it has begun.
XargsNoOrphans == xpc = "exit" => Own = {}

\* Once waitchildren() has seen a command die of a signal or exit with 255
\* no further command is begun, whichever other commands still run.
XargsStops ==
    [][(\E n \in 1..xpid : ended[n] \in {255, SIGNALED} /\ n \notin Own)
       => xpid' = xpid]_xargsVars

\* Without -P the exit status is the one of the manual: 127 or 126 exactly
\* when the last command could not be found or executed, 0 only when every
\* command was run and exited with 0.
XargsSerial ==
    xpc = "exit" /\ maxprocs = 1 =>
        /\ exit_code = 127 <=> \E n \in 1..xpid : ended[n] = -ENOENT
        /\ exit_code = 126 <=> \E n \in 1..xpid : ended[n] = -EACCES
        /\ exit_code = 0 => todo = 0 /\ \A n \in 1..xpid : ended[n] = 0

\* xargs ends when its commands do, whether it waits for a slot, for all of
\* them, or polls; a child that is not its own and never ends is no obstacle.
XargsEnds == <>(xpc = "exit")

\* "exits with a value of 0 if no error occurs ... If any other error occurs,
\* exits with a value of 1": whatever -P, 0 means that every command exited
\* with 0.
XargsStatus ==
    xpc = "exit" /\ exit_code = 0 => \A n \in 1..xpid : ended[n] = 0
=============================================================================
