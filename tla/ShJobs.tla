------------------------------- MODULE ShJobs -------------------------------
(***************************************************************************)
(* sh (shell_cmds/sh/jobs.c): the job table of a shell that is not         *)
(* interactive: background and foreground commands, $!, and wait.          *)
(*                                                                         *)
(* A job has one process.  Growing jobtab[] relocates every pointer into   *)
(* it, so pointers are indices here.  Signals are the subject of ShTrap.   *)
(***************************************************************************)
EXTENDS Integers, Sequences, FiniteSets

CONSTANTS
    MaxJobs,   \* bound: size of the table
    MaxPids    \* bound: processes started

ASSUME ShJobsAssumption == MaxJobs \in Nat \ {0} /\ MaxPids \in Nat

VARIABLES
    jobtab,              \* slot -> [used, done, pid, status, remembered]
    bgjob, backgndpid,
    jobmru,              \* the list of jobs, most recently used first
    jpc,                 \* eval, bgfork, fgwait, waitall, waitjob
    jp,                  \* the job the code at jpc is about
    procs,               \* children not yet waited for: pid -> status
    lastpid,
    actual,              \* history: pid -> status, -1 while it runs
    asked,               \* history: pids that $! has given out
    discarded,           \* history: pids a wait has returned or discarded
    wrong                \* history: a wait for a pid returned a wrong status

jobList == <<jobtab, bgjob, jobmru>>
jobHist == <<actual, asked, discarded, wrong>>
shJobsVars == <<jobList, backgndpid, jpc, jp, procs, lastpid, jobHist>>

JobSlots == 1..MaxJobs
NOJOB == 0
LIVE == -1
FREE == [used |-> FALSE, done |-> FALSE, pid |-> 0, status |-> LIVE,
         remembered |-> FALSE]

ShJobsInit ==
    /\ jobtab = [j \in JobSlots |-> FREE]
    /\ bgjob = NOJOB /\ backgndpid = -1 /\ jobmru = <<>>
    /\ jpc = "eval" /\ jp = NOJOB
    /\ procs = <<>> /\ lastpid = 0
    /\ actual = <<>> /\ asked = {} /\ discarded = {} /\ wrong = FALSE

Without(seq, S) == SelectSeq(seq, LAMBDA j : j \notin S)

\* freejob() for the jobs in S; deljob() takes them off the list.
Freed(tab, S) == [j \in JobSlots |-> IF j \in S THEN FREE ELSE tab[j]]
BgAfter(S) == IF bgjob \in S THEN NOJOB ELSE bgjob

\* makejob(): the first unused slot.
makejob(j) ==
    /\ ~jobtab[j].used
    /\ \A k \in 1..j - 1 : jobtab[k].used
    /\ jobtab' = [jobtab EXCEPT ![j] = [FREE EXCEPT !.used = TRUE]]
    /\ jp' = j

\* The parent's part of fork(): a new process for job j in table tab.
Spawn(tab, j) ==
    /\ lastpid' = lastpid + 1
    /\ jobtab' = [tab EXCEPT ![j].pid = lastpid + 1]
    /\ procs' = [p \in DOMAIN procs \cup {lastpid + 1} |->
                    IF p = lastpid + 1 THEN LIVE ELSE procs[p]]
    /\ actual' = Append(actual, LIVE)

\* evalbackgnd() calls makejob(), forkshell() then checkzombies().
Background ==
    /\ jpc = "eval" /\ lastpid < MaxPids
    /\ \E j \in JobSlots : makejob(j)
    /\ jpc' = "bgfork"
    /\ UNCHANGED <<bgjob, jobmru, backgndpid, procs, lastpid, jobHist>>

Zombies == {p \in DOMAIN procs : procs[p] # LIVE}

\* forkshell(FORK_BG) once no zombie is left: an earlier background job that
\* is done, and that nobody can ask for any more, is freed.
ForkBg ==
    /\ jpc = "bgfork" /\ Zombies = {}
    /\ LET old == IF bgjob # NOJOB /\ jobtab[bgjob].done /\ ~jobtab[bgjob].remembered
                  THEN {bgjob} ELSE {}
       IN /\ Spawn(Freed(jobtab, old), jp)
          /\ jobmru' = <<jp>> \o Without(jobmru, old \cup {jp})
    /\ bgjob' = jp /\ backgndpid' = lastpid + 1
    /\ jpc' = "eval" /\ jp' = NOJOB
    /\ UNCHANGED <<asked, discarded, wrong>>

\* A foreground command: makejob(), forkshell() or vforkexecshell(), and
\* waitforjob().
Foreground ==
    /\ jpc = "eval" /\ lastpid < MaxPids
    /\ \E j \in JobSlots :
        /\ ~jobtab[j].used /\ \A k \in 1..j - 1 : jobtab[k].used
        /\ jp' = j
        /\ Spawn([jobtab EXCEPT ![j] = [FREE EXCEPT !.used = TRUE]], j)
        /\ jobmru' = <<j>> \o Without(jobmru, {j})
    /\ jpc' = "fgwait"
    /\ UNCHANGED <<bgjob, backgndpid, asked, discarded, wrong>>

ProcEnds(p) ==
    /\ procs[p] = LIVE
    /\ \E st \in {0, 1} : /\ procs' = [procs EXCEPT ![p] = st]
                          /\ actual' = [actual EXCEPT ![p] = st]
    /\ UNCHANGED <<jobList, backgndpid, jpc, jp, lastpid, asked, discarded, wrong>>

\* Mutant: a job that $! has named is freed by dowait().
UselessNamed(j) == j # bgjob

\* Nobody can ask for this job.
Useless(j) == ~jobtab[j].remembered /\ j # bgjob

\* What dowait(mode, job) does with a process wait3() has returned.
Settled(p, job) ==
    LET S == {j \in JobSlots : jobtab[j].used /\ jobtab[j].pid = p
                               /\ jobtab[j].status = LIVE}
        tab == [j \in JobSlots |->
                  IF j \in S THEN [jobtab[j] EXCEPT !.status = procs[p], !.done = TRUE]
                             ELSE jobtab[j]]
        others == S \ {job}
        gone == {j \in others : Useless(j)}
    IN /\ jobtab' = Freed(tab, gone)
       /\ jobmru' = Without(jobmru, others)
       /\ bgjob' = BgAfter(gone)
       /\ procs' = [q \in DOMAIN procs \ {p} |-> procs[q]]

\* dowait() from checkzombies(), waitforjob() and waitcmdloop(); only the
\* second passes its job.
DoWait(p) ==
    /\ p \in Zombies
    /\ \/ jpc = "bgfork" /\ Settled(p, NOJOB)
       \/ jpc = "fgwait" /\ ~jobtab[jp].done /\ Settled(p, jp)
       \/ jpc = "waitall" /\ (\E j \in JobSlots : jobtab[j].used /\ ~jobtab[j].done)
          /\ Settled(p, NOJOB)
       \/ jpc = "waitjob" /\ ~jobtab[jp].done /\ Settled(p, NOJOB)
    /\ UNCHANGED <<backgndpid, jpc, jp, lastpid, jobHist>>

\* The end of waitforjob().
ForegroundDone ==
    /\ jpc = "fgwait" /\ jobtab[jp].done
    /\ wrong' = (wrong \/ jobtab[jp].status # actual[jobtab[jp].pid])
    /\ jobtab' = Freed(jobtab, {jp}) /\ jobmru' = Without(jobmru, {jp})
    /\ bgjob' = BgAfter({jp})
    /\ jpc' = "eval" /\ jp' = NOJOB
    /\ UNCHANGED <<backgndpid, procs, lastpid, actual, asked, discarded>>

\* Mutant: the job is not remembered.
BangForgets ==
    /\ jpc = "eval" /\ backgndpid # -1
    /\ asked' = asked \cup {backgndpid}
    /\ UNCHANGED <<jobList, backgndpid, jpc, jp, procs, lastpid, actual,
                   discarded, wrong>>

\* $!: backgndpidval().
Bang ==
    /\ jpc = "eval" /\ backgndpid # -1
    /\ jobtab' = IF bgjob # NOJOB THEN [jobtab EXCEPT ![bgjob].remembered = TRUE]
                                  ELSE jobtab
    /\ asked' = asked \cup {backgndpid}
    /\ UNCHANGED <<bgjob, jobmru, backgndpid, jpc, jp, procs, lastpid, actual,
                   discarded, wrong>>

\* waitcmd() without arguments: waitcmdloop(NULL).
WaitAll ==
    /\ jpc = "eval"
    /\ jpc' = "waitall"
    /\ UNCHANGED <<jobList, backgndpid, jp, procs, lastpid, jobHist>>

\* One turn of its loop: done jobs are freed; with none running it returns.
WaitAllTurn ==
    /\ jpc = "waitall"
    /\ LET S == {j \in JobSlots : jobtab[j].used /\ jobtab[j].done}
       IN /\ S # {} \/ \A j \in JobSlots : ~jobtab[j].used
          /\ jobtab' = Freed(jobtab, S) /\ jobmru' = Without(jobmru, S)
          /\ bgjob' = BgAfter(S)
          /\ discarded' = discarded \cup {jobtab[j].pid : j \in S}
    /\ jpc' = IF \E j \in JobSlots : jobtab'[j].used THEN jpc ELSE "eval"
    /\ UNCHANGED <<backgndpid, jp, procs, lastpid, actual, asked, wrong>>

\* waitcmd() with a pid that $! gave: getjob_nonotfound(), or 127.
WaitPid(p) ==
    /\ jpc = "eval" /\ p \in asked
    /\ LET S == {j \in JobSlots : jobtab[j].used /\ jobtab[j].pid = p}
       IN IF S = {}
          THEN wrong' = (wrong \/ p \notin discarded) /\ UNCHANGED <<jpc, jp>>
          ELSE /\ jpc' = "waitjob" /\ jp' \in S
               /\ UNCHANGED wrong
    /\ UNCHANGED <<jobList, backgndpid, procs, lastpid, actual, asked, discarded>>

\* waitcmdloop(job) finds its job done.
WaitPidDone ==
    /\ jpc = "waitjob" /\ jobtab[jp].done
    /\ wrong' = (wrong \/ jobtab[jp].status # actual[jobtab[jp].pid])
    /\ discarded' = discarded \cup {jobtab[jp].pid}
    /\ jobtab' = Freed(jobtab, {jp}) /\ jobmru' = Without(jobmru, {jp})
    /\ bgjob' = BgAfter({jp})
    /\ jpc' = "eval" /\ jp' = NOJOB
    /\ UNCHANGED <<backgndpid, procs, lastpid, actual, asked>>

ShJobsStep ==
    \/ ForkBg \/ ForegroundDone \/ WaitAllTurn \/ WaitPidDone
    \/ \E p \in DOMAIN procs : DoWait(p)
ShJobsNext ==
    \/ ShJobsStep
    \/ Background \/ Foreground \/ Bang \/ WaitAll
    \/ \E p \in DOMAIN procs : ProcEnds(p)
    \/ \E p \in asked : WaitPid(p)
ShJobsSpec == ShJobsInit /\ [][ShJobsNext]_shJobsVars
ShJobsFair ==
    /\ WF_shJobsVars(ShJobsStep)
    /\ WF_shJobsVars(\E p \in DOMAIN procs : ProcEnds(p))

-----------------------------------------------------------------------------
(* Properties.                                                             *)

ShJobsTypeOK ==
    /\ jobtab \in [JobSlots -> [used : BOOLEAN, done : BOOLEAN, pid : 0..MaxPids,
                                status : {LIVE, 0, 1}, remembered : BOOLEAN]]
    /\ bgjob \in JobSlots \cup {NOJOB} /\ backgndpid \in -1..MaxPids
    /\ jobmru \in Seq(JobSlots)
    /\ jpc \in {"eval", "bgfork", "fgwait", "waitall", "waitjob"}
    /\ jp \in JobSlots \cup {NOJOB}
    /\ lastpid \in 0..MaxPids /\ DOMAIN procs \subseteq 1..lastpid
    /\ actual \in Seq({LIVE, 0, 1})

\* A wait for a pid that $! gave out returns the status the process ended
\* with, however late it is called and whenever the process ends, before $!
\* is expanded included; it fails with 127 only after an earlier wait.
BangStatus == ~wrong

\* A job that is done stays in the table only while $! has named it or may
\* still name it: starting jobs for ever does not fill the table.
JobsKept ==
    \A j \in JobSlots : jobtab[j].used /\ jobtab[j].done =>
        jobtab[j].remembered \/ j = bgjob \/ j = jp

\* A shell that waits goes on once its children have ended.
ShJobsGoesOn == jpc # "eval" ~> jpc = "eval"
=============================================================================
