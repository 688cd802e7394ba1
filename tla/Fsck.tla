-------------------------------- MODULE Fsck --------------------------------
(***************************************************************************)
(* fsck (diskdev_cmds/fsck.tproj/fsck.c): the scan of the fstab and, with  *)
(* -p, the parallel checks of the disks by child processes.                *)
(*                                                                         *)
(* A partition is its name, a disk the prefix of that name which           *)
(* finddisk() takes.  The list disk->part is the sequence queue[d]; the    *)
(* pointer part->next matters by itself only once a partition has left     *)
(* its disk, and is then link[p].  A check ends with 0 or with EEXIT (8).  *)
(***************************************************************************)
EXTENDS Integers, Sequences, FiniteSets

CONSTANTS
    Fstabs,  \* fstabs to be scanned: sequences of entries
    Limits,  \* values of -l; 0 when it is not given
    Asked    \* values of -R; 0 when it is not given

\* fs_passno is 0 for an entry that fs_checkable() refuses; there is FALSE
\* when blockcheck() does not find the device; the disk is a prefix of the
\* name, so that entries of the same name are of the same disk.
Entry(e) == /\ e.pass \in 0..2
            /\ e.there \in BOOLEAN

ASSUME FsckAssumption ==
    /\ \A t \in Fstabs : t \in Seq({t[i] : i \in DOMAIN t})
    /\ \A t \in Fstabs : \A i \in DOMAIN t : Entry(t[i])
    /\ \A t \in Fstabs : \A i, j \in DOMAIN t :
        t[i].name = t[j].name => t[i].disk = t[j].disk
    /\ Limits \subseteq Nat
    /\ Asked \subseteq 0..2

VARIABLES
    fstab, preen, requested_passno,  \* what this run is given
    fpc,              \* scan, first, again, wait, spin, report, done
    passno, at,       \* the pass, and the entry getfsent() returns next
    disklist,         \* the disks, in the order of the list
    queue,            \* disk->part
    dpid,             \* disk->pid
    ndisks, fscks_running, maximum_running,
    nextdisk,         \* index in disklist; 0 is NULL
    target,           \* the disk startdiskcheck() is called for
    running_status,
    returntosingle,   \* SIGQUIT has been caught
    badlist, link,    \* head of the bad list, and part->next
    freed,            \* partitions given to destroy_part()
    kids, forks,      \* child processes not yet waited for; pids given out
    checks, failed    \* history: checks begun for a partition, and failures

fsckInput == <<fstab, preen, requested_passno, returntosingle>>
fsckScan == <<passno, at>>
fsckLists == <<disklist, queue>>
fsckBad == <<badlist, link, freed, failed>>
fsckRun == <<dpid, fscks_running, kids, forks, checks>>
fsckVars == <<fsckInput, fpc, fsckScan, fsckLists, fsckRun, ndisks,
              maximum_running, nextdisk, target, running_status, fsckBad>>

NULL == "NULL"
RUNS == -1             \* the status of a child that has not ended
Statuses == {0, 8}
Names == UNION {{t[i].name : i \in DOMAIN t} : t \in Fstabs}
Disks == UNION {{t[i].disk : i \in DOMAIN t} : t \in Fstabs}
FirstPass == IF requested_passno = 2 THEN 2 ELSE 1
LastPass == IF requested_passno = 1 THEN 1 ELSE 2

FsckInit ==
    /\ fstab \in Fstabs
    /\ preen \in BOOLEAN
    /\ requested_passno \in Asked
    /\ maximum_running \in Limits
    /\ fpc = "scan"
    /\ passno = FirstPass /\ at = 1
    /\ disklist = <<>> /\ queue = [d \in Disks |-> <<>>]
    /\ dpid = [d \in Disks |-> 0]
    /\ ndisks = 0 /\ fscks_running = 0 /\ nextdisk = 0
    /\ target = NULL /\ running_status = 0 /\ returntosingle = FALSE
    /\ badlist = NULL /\ link = [p \in Names |-> NULL] /\ freed = {}
    /\ kids = {} /\ forks = 0 /\ checks = [p \in Names |-> 0] /\ failed = {}

-----------------------------------------------------------------------------
(* The ends of checkfstab() and of main().                                 *)

\* main() exits with what checkfstab() returned, or with 2 after a SIGQUIT.
Exit(ret) ==
    /\ fpc' = "done"
    /\ running_status' = IF returntosingle THEN 2 ELSE ret

\* checkfstab(): what it does with the status do_diskchecks() returns.
Return(ret) ==
    IF ret # 0 /\ badlist # NULL
    THEN fpc' = "report" /\ target' = badlist /\ running_status' = ret
    ELSE Exit(ret) /\ target' = NULL

-----------------------------------------------------------------------------
(* build_disklist(): one action per kind of entry that getfsent() returns. *)

Cur == fstab[at]
Scanning == fpc = "scan" /\ at \in DOMAIN fstab
CheckedNow == Cur.pass # 0 /\ (~preen \/ (passno = 1 /\ Cur.pass = 1))
CheckedLater == ~CheckedNow /\ passno = 2 /\ Cur.pass > 1
Unasked == requested_passno # 0 /\ Cur.pass # requested_passno

ScanSkip ==
    /\ Scanning
    /\ IF CheckedNow THEN Unasked ELSE ~CheckedLater
    /\ at' = at + 1
    /\ UNCHANGED <<fsckInput, fpc, passno, fsckLists, fsckRun, ndisks,
                   maximum_running, nextdisk, target, running_status, fsckBad>>

\* checkfilesys() from build_disklist(): the scan waits for it.
ScanCheck ==
    /\ Scanning /\ CheckedNow /\ ~Unasked
    /\ \E st \in Statuses :
        /\ ~Cur.there => st = 8
        /\ IF st = 0 THEN at' = at + 1 /\ UNCHANGED <<fpc, running_status>>
                     ELSE Exit(st) /\ UNCHANGED at
        /\ failed' = IF st = 0 THEN failed ELSE failed \cup {Cur.name}
    /\ checks' = [checks EXCEPT ![Cur.name] = @ + (IF Cur.there THEN 1 ELSE 0)]
    /\ UNCHANGED <<fsckInput, passno, fsckLists, dpid, fscks_running, kids,
                   forks, ndisks, maximum_running, nextdisk, target, badlist,
                   link, freed>>

\* "BAD DISK NAME": noted in the status.
ScanBadName ==
    /\ Scanning /\ CheckedLater /\ ~Cur.there
    /\ running_status' = 8
    /\ at' = at + 1
    /\ UNCHANGED <<fsckInput, fpc, passno, fsckLists, fsckRun, ndisks,
                   maximum_running, nextdisk, target, fsckBad>>

\* addpart() with finddisk().
ScanAdd ==
    /\ Scanning /\ CheckedLater /\ Cur.there
    /\ LET d == Cur.disk
           known == \E i \in DOMAIN disklist : disklist[i] = d
           twice == \E i \in DOMAIN queue[d] : queue[d][i] = Cur.name
       IN /\ disklist' = IF known THEN disklist ELSE Append(disklist, d)
          /\ ndisks' = IF known THEN ndisks ELSE ndisks + 1
          /\ queue' = IF twice THEN queue
                      ELSE [queue EXCEPT ![d] = Append(@, Cur.name)]
    /\ at' = at + 1
    /\ UNCHANGED <<fsckInput, fpc, passno, fsckRun, maximum_running, nextdisk,
                   target, running_status, fsckBad>>

ScanAgain ==
    /\ fpc = "scan" /\ at = Len(fstab) + 1
    /\ preen /\ passno < LastPass
    /\ passno' = passno + 1 /\ at' = 1
    /\ UNCHANGED <<fsckInput, fpc, fsckLists, fsckRun, ndisks,
                   maximum_running, nextdisk, target, running_status, fsckBad>>

\* The end of build_disklist(), and do_diskchecks() up to its first loop.
ScanEnd ==
    /\ fpc = "scan" /\ at = Len(fstab) + 1
    /\ ~preen \/ passno = LastPass
    /\ IF running_status # 0 \/ ~preen
       THEN Exit(running_status) /\ UNCHANGED <<maximum_running, nextdisk>>
       ELSE /\ fpc' = "first"
            /\ maximum_running' = IF maximum_running = 0 \/ maximum_running > ndisks
                                  THEN ndisks ELSE maximum_running
            /\ nextdisk' = IF disklist = <<>> THEN 0 ELSE 1
            /\ UNCHANGED running_status
    /\ UNCHANGED <<fsckInput, fsckScan, fsckLists, fsckRun, ndisks, target,
                   fsckBad>>

-----------------------------------------------------------------------------
(* startdiskcheck(): the child checks the first partition of the disk.     *)

Fork(d) ==
    /\ forks' = forks + 1
    /\ dpid' = [dpid EXCEPT ![d] = forks + 1]
    /\ kids' = kids \cup {[pid |-> forks + 1, disk |-> d,
                           part |-> Head(queue[d]), st |-> RUNS]}
    /\ checks' = [checks EXCEPT ![Head(queue[d])] = @ + 1]
    /\ fscks_running' = fscks_running + 1

\* fork() fails: sleep and try again, unless nothing is running.
ForkFailed(d) ==
    /\ dpid' = [dpid EXCEPT ![d] = -1]
    /\ IF fscks_running > 0
       THEN UNCHANGED <<fpc, running_status, target>>
       ELSE Return(8)
    /\ UNCHANGED <<kids, forks, checks, fscks_running>>

After(i) == IF i = Len(disklist) THEN 0 ELSE i + 1

\* The loop that starts the first maximum_running checks.  In this loop
\* nothing is waited for: fscks_running counts the rounds.
StartFirst ==
    /\ fpc = "first" /\ fscks_running < maximum_running
    /\ Fork(disklist[nextdisk])
    /\ nextdisk' = After(nextdisk)
    /\ UNCHANGED <<fsckInput, fpc, fsckScan, fsckLists, ndisks,
                   maximum_running, target, running_status, fsckBad>>

StartFirstFails ==
    /\ fpc = "first" /\ fscks_running < maximum_running
    /\ ForkFailed(disklist[nextdisk])
    /\ UNCHANGED <<fsckInput, fsckScan, fsckLists, ndisks, maximum_running,
                   nextdisk, fsckBad>>

FirstDone ==
    /\ fpc = "first" /\ fscks_running = maximum_running
    /\ fpc' = "wait"
    /\ UNCHANGED <<fsckInput, fsckScan, fsckLists, fsckRun, ndisks,
                   maximum_running, nextdisk, target, running_status, fsckBad>>

StartAgain ==
    /\ fpc = "again"
    /\ Fork(target)
    /\ fpc' = "wait" /\ target' = NULL
    /\ UNCHANGED <<fsckInput, fsckScan, fsckLists, ndisks, maximum_running,
                   nextdisk, running_status, fsckBad>>

StartAgainFails ==
    /\ fpc = "again"
    /\ ForkFailed(target)
    /\ UNCHANGED <<fsckInput, fsckScan, fsckLists, ndisks, maximum_running,
                   nextdisk, fsckBad>>

-----------------------------------------------------------------------------
(* The children, and the wait() loop of do_diskchecks().                   *)

ChildEnds(k) ==
    /\ k.st = RUNS
    /\ \E st \in Statuses : kids' = (kids \ {k}) \cup {[k EXCEPT !.st = st]}
    /\ UNCHANGED <<fsckInput, fpc, fsckScan, fsckLists, dpid, fscks_running,
                   forks, checks, ndisks, maximum_running, nextdisk, target,
                   running_status, fsckBad>>

\* The first partition of d goes to the bad list or is destroyed.
Settle(d, st) ==
    LET p == Head(queue[d])
        rest == Tail(queue[d])
    IN /\ queue' = [queue EXCEPT ![d] = rest]
       /\ IF st = 0
          THEN freed' = freed \cup {p} /\ UNCHANGED <<badlist, link, failed>>
          ELSE /\ badlist' = p
               /\ link' = [link EXCEPT ![p] =
                             IF badlist # NULL THEN badlist
                             ELSE IF rest = <<>> THEN NULL ELSE Head(rest)]
               /\ failed' = failed \cup {p}
               /\ UNCHANGED freed

\* Mutant: a disk that is being checked is taken.
IdleAny(i) == queue'[disklist[i]] # <<>>

\* The disks the search for(;;) would stop at, given the new state.
Idle(i) == queue'[disklist[i]] # <<>> /\ dpid'[disklist[i]] = 0
Distance(i) == IF i > nextdisk THEN i - nextdisk ELSE i - nextdisk + Len(disklist)
Found(i) == /\ Idle(i)
            /\ \A j \in DOMAIN disklist : Idle(j) => Distance(i) <= Distance(j)

\* Mutant: a disk that is done still counts.
NdisksKept(d) == ndisks

\* Whether fewer checks run than could.
MoreToStart == fscks_running' < maximum_running /\ fscks_running' < ndisks'

\* A disk whose last partition has been checked no longer counts.
NdisksAfter(d) == IF queue'[d] = <<>> THEN ndisks - 1 ELSE ndisks

\* What a check that has ended makes do_diskchecks() do next.
GoOn(d) ==
    \/ /\ nextdisk = 0 /\ queue'[d] # <<>>
       /\ fpc' = "again" /\ target' = d
       /\ UNCHANGED nextdisk
    \/ /\ nextdisk = 0 /\ queue'[d] = <<>>
       /\ UNCHANGED <<fpc, target, nextdisk>>
    \/ /\ nextdisk # 0
       /\ MoreToStart
       /\ IF \E i \in DOMAIN disklist : Idle(i)
          THEN \E i \in DOMAIN disklist :
                  /\ Found(i)
                  /\ nextdisk' = i
                  /\ fpc' = "again" /\ target' = disklist[i]
          ELSE fpc' = "spin" /\ UNCHANGED <<target, nextdisk>>
    \/ /\ nextdisk # 0
       /\ ~MoreToStart
       /\ UNCHANGED <<fpc, target, nextdisk>>

\* Mutant: a check that ends well makes up for one that did not.
StatusLast(st) == IF st = 0 THEN 0 ELSE 8

\* running_status |= WEXITSTATUS(status)
StatusAfter(st) == IF st = 0 THEN running_status ELSE 8

WaitReturns(k) ==
    /\ fpc = "wait" /\ k.st # RUNS
    /\ kids' = kids \ {k}
    /\ \E d \in Disks :
        /\ dpid[d] = k.pid
        /\ Settle(d, k.st)
        /\ running_status' = StatusAfter(k.st)
        /\ dpid' = [dpid EXCEPT ![d] = 0]
        /\ fscks_running' = fscks_running - 1
        /\ ndisks' = NdisksAfter(d)
        /\ GoOn(d)
    /\ UNCHANGED <<fsckInput, fsckScan, disklist, maximum_running, forks,
                   checks>>

\* wait() returns -1.
NoChildren ==
    /\ fpc = "wait" /\ kids = {}
    /\ Return(running_status)
    /\ UNCHANGED <<fsckInput, fsckScan, fsckLists, fsckRun, ndisks,
                   maximum_running, nextdisk, fsckBad>>

\* checkfstab() prints one partition of the bad list.  The memory of a freed
\* one may hold any pointer by now.
Report ==
    /\ fpc = "report"
    /\ IF target \in freed THEN target' \in Names \cup {NULL}
                           ELSE target' = link[target]
    /\ IF target' = NULL THEN Exit(running_status)
                         ELSE UNCHANGED <<fpc, running_status>>
    /\ UNCHANGED <<fsckInput, fsckScan, fsckLists, fsckRun, ndisks,
                   maximum_running, nextdisk, fsckBad>>

\* catchsig(): SIGINT.
Interrupt ==
    /\ fpc # "done"
    /\ fpc' = "done" /\ running_status' = 12
    /\ UNCHANGED <<fsckInput, fsckScan, fsckLists, fsckRun, ndisks,
                   maximum_running, nextdisk, target, fsckBad>>

\* catchquit(): the first SIGQUIT with -p.
Quit ==
    /\ fpc # "done" /\ preen /\ ~returntosingle
    /\ returntosingle' = TRUE
    /\ UNCHANGED <<fstab, preen, requested_passno, fpc, fsckScan, fsckLists,
                   fsckRun, ndisks, maximum_running, nextdisk, target,
                   running_status, fsckBad>>

FsckStep ==
    \/ ScanSkip \/ ScanCheck \/ ScanBadName \/ ScanAdd \/ ScanAgain \/ ScanEnd
    \/ StartFirst \/ FirstDone \/ StartAgain
    \/ \E k \in kids : ChildEnds(k) \/ WaitReturns(k)
    \/ NoChildren \/ Report

FsckNext == FsckStep \/ StartFirstFails \/ StartAgainFails \/ Interrupt \/ Quit

FsckSpec == FsckInit /\ [][FsckNext]_fsckVars
FsckFair == WF_fsckVars(FsckStep)

-----------------------------------------------------------------------------
(* Properties.                                                             *)

FsckTypeOK ==
    /\ fstab \in Fstabs /\ preen \in BOOLEAN /\ requested_passno \in 0..2
    /\ returntosingle \in BOOLEAN
    /\ fpc \in {"scan", "first", "again", "wait", "spin", "report", "done"}
    /\ passno \in 1..2 /\ at \in Nat \ {0}
    /\ disklist \in Seq(Disks) /\ queue \in [Disks -> Seq(Names)]
    /\ dpid \in [Disks -> Int]
    /\ ndisks \in Nat /\ fscks_running \in Nat /\ maximum_running \in Nat
    /\ nextdisk \in 0..Len(disklist)
    /\ target \in Disks \cup Names \cup {NULL}
    /\ running_status \in {0, 2, 8, 12}
    /\ badlist \in Names \cup {NULL} /\ link \in [Names -> Names \cup {NULL}]
    /\ freed \subseteq Names /\ failed \subseteq Names
    /\ kids \subseteq [pid : Nat \ {0}, disk : Disks, part : Names,
                       st : Statuses \cup {RUNS}]
    /\ forks \in Nat /\ checks \in [Names -> Nat]

\* No disk has two checks at a time, and the checks that run are never more
\* than maximum_running: what startdiskcheck() and the counters fscks_running
\* and ndisks are for.
FsckBounded ==
    /\ \A k, l \in kids : k.disk = l.disk => k = l
    /\ fpc # "scan" => Cardinality(kids) <= maximum_running

\* No entry of the partition is for the first pass.
OnlyLater(p) == \A i \in DOMAIN fstab : fstab[i].name = p => fstab[i].pass # 1

Wanted(e) == e.pass # 0 /\ (requested_passno = 0 \/ e.pass = requested_passno)

\* An exit status of 0 means that every partition the fstab and -R ask for
\* was found and checked, those that only the parallel pass names exactly
\* once however often the fstab names them, and that no check failed; and a
\* run that no signal disturbed and in which no fork failed exits with 8 only
\* when something is wrong.
FsckExact ==
    fpc = "done" =>
        /\ running_status = 0 =>
            /\ failed = {} /\ kids = {}
            /\ \A i \in DOMAIN fstab : Wanted(fstab[i]) =>
                 /\ fstab[i].there /\ checks[fstab[i].name] >= 1
                 /\ preen /\ OnlyLater(fstab[i].name) => checks[fstab[i].name] = 1
        /\ running_status = 8 =>
            \/ failed # {}
            \/ \E d \in Disks : dpid[d] = -1
            \/ \E i \in DOMAIN fstab : ~fstab[i].there

\* do_diskchecks() returns: every child is waited for, forks that fail are
\* tried again, and the search comes to an end.
FsckEnds == <>(fpc \in {"report", "done"})

\* "List of partitions which may have had errors": what checkfstab() prints
\* after the parallel checks is a partition that failed and is still
\* allocated.
FsckReportsBad == fpc = "report" => target \in failed \ freed
=============================================================================
