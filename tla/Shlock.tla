------------------------------- MODULE Shlock -------------------------------
(***************************************************************************)
(* shlock (shell_cmds/shlock/shlock.c) run by several scripts that want    *)
(* one lock file.  A script is its pid; it runs `shlock -f lock -p $$',    *)
(* and with the lock works, removes the file and goes on, as in the        *)
(* manual's example.  Scripts die at any moment, with or without the lock, *)
(* and the shlock a dead script was waiting for dies with it.  The         *)
(* temporary file has the pid of shlock in its name, and stands under its  *)
(* script here.                                                            *)
(***************************************************************************)
EXTENDS Integers, FiniteSets

CONSTANTS
    Scripts,   \* pids of the scripts
    MaxDeaths, \* bound: scripts that die
    MaxRuns    \* bound: times a script runs shlock

ASSUME ShlockAssumption ==
    /\ IsFiniteSet(Scripts) /\ Scripts \subseteq Nat \ {0}
    /\ MaxDeaths \in Nat /\ MaxRuns \in Nat

VARIABLES
    lockfile,  \* the pid in the lock file, NOFILE when there is none
    tmpfile,   \* script -> what its temporary file holds
    spc,       \* script -> where its shlock is: open, write, link, cklock,
               \* kill, unlink, clean; or idle, hold, dead
    seen,      \* script -> the pid cklock() has read
    got,       \* script -> retcode of mklock()
    runs, deaths

shlockVars == <<lockfile, tmpfile, spc, seen, got, runs, deaths>>

NOFILE == -1
EMPTY == 0      \* created, nothing written

ShlockInit ==
    /\ lockfile = NOFILE
    /\ tmpfile = [s \in Scripts |-> NOFILE]
    /\ spc = [s \in Scripts |-> "idle"]
    /\ seen = [s \in Scripts |-> NOFILE]
    /\ got = [s \in Scripts |-> FALSE]
    /\ runs = [s \in Scripts |-> 0] /\ deaths = 0

Goto(s, l) == spc' = [spc EXCEPT ![s] = l]
\* Mutant: whatever kill() returns, the process is taken to be gone.
p_existsNever(pid) == FALSE

p_exists(pid) == pid \in Scripts /\ spc[pid] # "dead"

\* The script runs shlock.
Begin(s) ==
    /\ spc[s] = "idle" /\ runs[s] < MaxRuns
    /\ Goto(s, "open") /\ runs' = [runs EXCEPT ![s] = @ + 1]
    /\ UNCHANGED <<lockfile, tmpfile, seen, got, deaths>>

\* xtmpfile(): open() with O_EXCL; a file left over is removed first.
OpenTmp(s) ==
    /\ spc[s] = "open"
    /\ IF tmpfile[s] = NOFILE
       THEN tmpfile' = [tmpfile EXCEPT ![s] = EMPTY] /\ Goto(s, "write")
       ELSE tmpfile' = [tmpfile EXCEPT ![s] = NOFILE] /\ UNCHANGED spc
    /\ UNCHANGED <<lockfile, seen, got, runs, deaths>>

WriteTmp(s) ==
    /\ spc[s] = "write"
    /\ tmpfile' = [tmpfile EXCEPT ![s] = s] /\ Goto(s, "link")
    /\ UNCHANGED <<lockfile, seen, got, runs, deaths>>

\* Mutant: the result of write() is ignored.
WriteFailsUnseen(s) ==
    /\ spc[s] = "write"
    /\ Goto(s, "link")
    /\ UNCHANGED <<lockfile, tmpfile, seen, got, runs, deaths>>

\* write() fails: the temporary file is removed and mklock() returns FALSE.
WriteFails(s) ==
    /\ spc[s] = "write"
    /\ tmpfile' = [tmpfile EXCEPT ![s] = NOFILE] /\ Goto(s, "idle")
    /\ UNCHANGED <<lockfile, seen, got, runs, deaths>>

\* mklock(): link().
Link(s) ==
    /\ spc[s] = "link"
    /\ IF lockfile = NOFILE
       THEN /\ lockfile' = tmpfile[s] /\ got' = [got EXCEPT ![s] = TRUE]
            /\ Goto(s, "clean")
       ELSE Goto(s, "cklock") /\ UNCHANGED <<lockfile, got>>
    /\ UNCHANGED <<tmpfile, seen, runs, deaths>>

\* cklock(): open() and read().  A file that is gone counts as valid.
ReadLock(s) ==
    /\ spc[s] = "cklock"
    /\ seen' = [seen EXCEPT ![s] = lockfile]
    /\ Goto(s, IF lockfile = NOFILE THEN "clean"
               ELSE IF lockfile = EMPTY THEN "unlink" ELSE "kill")
    /\ UNCHANGED <<lockfile, tmpfile, got, runs, deaths>>

\* cklock(): kill(pid, 0).
CheckPid(s) ==
    /\ spc[s] = "kill"
    /\ Goto(s, IF p_exists(seen[s]) THEN "clean" ELSE "unlink")
    /\ UNCHANGED <<lockfile, tmpfile, seen, got, runs, deaths>>

\* mklock(): "lock is invalid, removing"; unlink() fails if it is gone.
Remove(s) ==
    /\ spc[s] = "unlink"
    /\ lockfile' = NOFILE
    /\ Goto(s, IF lockfile = NOFILE THEN "clean" ELSE "link")
    /\ UNCHANGED <<tmpfile, seen, got, runs, deaths>>

\* The end of mklock(), and the exit of shlock.
Clean(s) ==
    /\ spc[s] = "clean"
    /\ tmpfile' = [tmpfile EXCEPT ![s] = NOFILE]
    /\ Goto(s, IF got[s] THEN "hold" ELSE "idle")
    /\ seen' = [seen EXCEPT ![s] = NOFILE] /\ got' = [got EXCEPT ![s] = FALSE]
    /\ UNCHANGED <<lockfile, runs, deaths>>

\* open(), link() or unlink() fails for a reason of its own.
CallFails(s) ==
    /\ \/ spc[s] = "open" /\ Goto(s, "idle")
       \/ spc[s] \in {"link", "cklock", "unlink"} /\ Goto(s, "clean")
    /\ UNCHANGED <<lockfile, tmpfile, seen, got, runs, deaths>>

\* The script is done with the lock: rm.
Release(s) ==
    /\ spc[s] = "hold"
    /\ lockfile' = NOFILE
    /\ Goto(s, "idle")
    /\ UNCHANGED <<tmpfile, seen, got, runs, deaths>>

Die(s) ==
    /\ spc[s] # "dead" /\ deaths < MaxDeaths
    /\ Goto(s, "dead") /\ deaths' = deaths + 1
    /\ seen' = [seen EXCEPT ![s] = NOFILE] /\ got' = [got EXCEPT ![s] = FALSE]
    /\ UNCHANGED <<lockfile, tmpfile, runs>>

\* A new process is given the pid of a dead one.
Reborn(s) ==
    /\ spc[s] = "dead"
    /\ Goto(s, "idle")
    /\ UNCHANGED <<lockfile, tmpfile, seen, got, runs, deaths>>

ShlockStep(s) == OpenTmp(s) \/ WriteTmp(s) \/ Link(s) \/ ReadLock(s)
                     \/ CheckPid(s) \/ Remove(s) \/ Clean(s)
ShlockNext ==
    \E s \in Scripts : \/ ShlockStep(s) \/ WriteFails(s) \/ CallFails(s)
                       \/ Begin(s) \/ Release(s) \/ Die(s) \/ Reborn(s)
ShlockSpec == ShlockInit /\ [][ShlockNext]_shlockVars

-----------------------------------------------------------------------------
(* Properties.                                                             *)

ShlockTypeOK ==
    /\ lockfile \in Scripts \cup {NOFILE, EMPTY}
    /\ tmpfile \in [Scripts -> Scripts \cup {NOFILE, EMPTY}]
    /\ spc \in [Scripts -> {"idle", "open", "write", "link", "cklock", "kill",
                            "unlink", "clean", "hold", "dead"}]
    /\ seen \in [Scripts -> Scripts \cup {NOFILE, EMPTY}]
    /\ got \in [Scripts -> BOOLEAN]
    /\ runs \in [Scripts -> 0..MaxRuns] /\ deaths \in 0..MaxDeaths

\* "That way we have a valid lock the instant the link succeeds": the lock
\* file never lacks its pid, although shlock may die between any two of its
\* calls and leave its temporary file to the next process with its pid.
LockComplete == lockfile # EMPTY

\* As long as no process has died, shlock gives the lock to one script at a
\* time, and the file names that script.
LockExclusive ==
    deaths = 0 =>
        \A s \in Scripts : spc[s] = "hold" \/ (spc[s] = "clean" /\ got[s]) =>
            /\ lockfile = s
            /\ \A t \in Scripts \ {s} : spc[t] # "hold"
=============================================================================
