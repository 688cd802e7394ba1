---------------------------- MODULE ShJobsProofs ----------------------------
(***************************************************************************)
(* Proofs about the job table of sh: for any size of the table and any     *)
(* number of processes, wait returns the status of the process that $!     *)
(* named, and a job that is done is kept only if it can be asked for.      *)
(***************************************************************************)
EXTENDS ShJobs, TLAPS

Job == [used : BOOLEAN, done : BOOLEAN, pid : Nat, status : Int,
        remembered : BOOLEAN]

ShJobsTypes ==
    /\ jobtab \in [JobSlots -> Job]
    /\ lastpid \in Nat
    /\ actual \in Seq(Int) /\ Len(actual) = lastpid
    /\ DOMAIN procs \subseteq 1..lastpid

\* The kernel keeps the status a process ended with; a job that is done has it.
Statuses ==
    /\ \A p \in DOMAIN procs : procs[p] = actual[p]
    /\ \A j \in JobSlots : jobtab[j].done =>
        /\ jobtab[j].pid \in 1..lastpid
        /\ jobtab[j].status = actual[jobtab[j].pid]
        /\ jobtab[j].status # LIVE

\* jp between two steps of a builtin; a job about to be forked or waited for
\* in the foreground is not one that $! can mean.
Current ==
    /\ jpc \in {"eval", "bgfork", "fgwait", "waitall", "waitjob"}
    /\ jpc \in {"eval", "waitall"} => jp = NOJOB
    /\ jpc \in {"bgfork", "fgwait", "waitjob"} => jp \in JobSlots
    /\ jpc \in {"bgfork", "fgwait"} => /\ ~jobtab[jp].remembered /\ jp # bgjob
                                       /\ jobtab[jp].used
    /\ jpc = "bgfork" => jobtab[jp].pid = 0 /\ ~jobtab[jp].done

\* bgjob is the job of $!; if it is gone, a wait has had its status.
Last ==
    /\ bgjob \in JobSlots \cup {NOJOB}
    /\ bgjob # NOJOB => jobtab[bgjob].used /\ jobtab[bgjob].pid = backgndpid
    /\ bgjob = NOJOB /\ backgndpid # -1 => backgndpid \in discarded

\* A pid given out by $! has its job until a wait has had its status.
Kept ==
    \A p \in asked : p \in discarded
        \/ \E j \in JobSlots : /\ jobtab[j].used /\ jobtab[j].pid = p
                               /\ jobtab[j].remembered

ShJobsInv ==
    /\ ShJobsTypes /\ Statuses /\ Current /\ Last /\ Kept
    /\ JobsKept /\ BangStatus

LEMMA FreeIsJob == FREE \in Job /\ NOJOB \notin JobSlots
  BY ShJobsAssumption DEF FREE, Job, LIVE, NOJOB, JobSlots, ShJobsAssumption

LEMMA ShJobsInvInit == ShJobsInit => ShJobsInv
  BY FreeIsJob
  DEF ShJobsInit, ShJobsInv, ShJobsTypes, Statuses, Current, Last, Kept,
      JobsKept, BangStatus, FREE

-----------------------------------------------------------------------------
(* freejob() and fork().                                                   *)

LEMMA FreedIs ==
  ASSUME NEW tab \in [JobSlots -> Job], NEW S
  PROVE  /\ Freed(tab, S) \in [JobSlots -> Job]
         /\ \A j \in JobSlots : j \in S => Freed(tab, S)[j] = FREE
         /\ \A j \in JobSlots : j \notin S => Freed(tab, S)[j] = tab[j]
  BY FreeIsJob DEF Freed

LEMMA SpawnIs ==
  ASSUME NEW tab \in [JobSlots -> Job], NEW j \in JobSlots, ShJobsTypes,
         \A p \in DOMAIN procs : procs[p] = actual[p], Spawn(tab, j)
  PROVE  /\ ShJobsTypes' /\ lastpid' = lastpid + 1
         /\ \A k \in JobSlots : k # j => jobtab'[k] = tab[k]
         /\ jobtab'[j] = [used |-> tab[j].used, done |-> tab[j].done,
                          pid |-> lastpid + 1, status |-> tab[j].status,
                          remembered |-> tab[j].remembered]
         /\ \A p \in DOMAIN procs' : procs'[p] = actual'[p]
         /\ \A p \in 1..lastpid : actual'[p] = actual[p]
  <1> DEFINE new == [used |-> tab[j].used, done |-> tab[j].done,
                     pid |-> lastpid + 1, status |-> tab[j].status,
                     remembered |-> tab[j].remembered]
  <1>1. tab[j] \in Job /\ lastpid \in Nat
    BY DEF ShJobsTypes
  <1>2. new \in Job
    BY <1>1 DEF Job
  <1>3. jobtab' = [tab EXCEPT ![j] = new]
    <2>1. [tab[j] EXCEPT !.pid = lastpid + 1] = new
      BY <1>1 DEF Job
    <2>2. jobtab' = [tab EXCEPT ![j] = [tab[j] EXCEPT !.pid = lastpid + 1]]
      BY DEF Spawn
    <2> QED BY Zenon, <2>1, <2>2
  <1> HIDE DEF new
  <1>4. jobtab' \in [JobSlots -> Job]
    BY <1>2, <1>3
  <1>5. /\ lastpid' = lastpid + 1
        /\ actual' \in Seq(Int) /\ Len(actual') = lastpid'
        /\ actual'[lastpid + 1] = LIVE
        /\ \A p \in 1..lastpid : actual'[p] = actual[p]
    BY <1>1 DEF Spawn, ShJobsTypes, LIVE
  <1>6. DOMAIN procs' = DOMAIN procs \cup {lastpid + 1}
    BY DEF Spawn
  <1>7. \A p \in DOMAIN procs' : procs'[p] = actual'[p]
    BY <1>1, <1>5, <1>6 DEF Spawn, ShJobsTypes
  <1>8. ShJobsTypes'
    BY <1>1, <1>4, <1>5, <1>6 DEF ShJobsTypes
  <1> QED BY <1>3, <1>5, <1>7, <1>8 DEF new

-----------------------------------------------------------------------------
(* The steps that free jobs at the end of a wait.                          *)

LEMMA FreeStep ==
  ASSUME ShJobsInv, NEW S, jobtab' = Freed(jobtab, S), bgjob' = BgAfter(S),
         UNCHANGED <<backgndpid, procs, lastpid, actual, asked>>,
         jpc' \in {"eval", "waitall"}, jp' = NOJOB, jp \in S \cup {NOJOB},
         discarded \subseteq discarded', ~wrong',
         \A j \in JobSlots : j \in S => \/ ~jobtab[j].remembered /\ j # bgjob
                                        \/ jobtab[j].pid \in discarded'
  PROVE  ShJobsInv'
  <1>0. jobtab \in [JobSlots -> Job]
    BY DEF ShJobsInv, ShJobsTypes
  <1>1. /\ jobtab' \in [JobSlots -> Job]
        /\ \A j \in JobSlots : j \in S => jobtab'[j] = FREE
        /\ \A j \in JobSlots : j \notin S => jobtab'[j] = jobtab[j]
    BY <1>0, FreedIs
  <1>2. ShJobsTypes'
    BY <1>1 DEF ShJobsInv, ShJobsTypes
  <1>3. Statuses'
    BY <1>1 DEF ShJobsInv, Statuses, FREE
  <1>4. Current'
    BY DEF Current
  <1>5. Last'
    BY <1>1, FreeIsJob DEF ShJobsInv, Last, BgAfter
  <1>6. Kept'
    <2> SUFFICES ASSUME NEW p \in asked, p \notin discarded'
                 PROVE  \E j \in JobSlots : /\ jobtab'[j].used /\ jobtab'[j].pid = p
                                            /\ jobtab'[j].remembered
      BY DEF Kept
    <2>1. PICK j \in JobSlots : /\ jobtab[j].used /\ jobtab[j].pid = p
                                /\ jobtab[j].remembered
      BY DEF ShJobsInv, Kept
    <2>2. j \notin S
      BY <2>1
    <2> QED BY <1>1, <2>1, <2>2
  <1>7. JobsKept'
    <2> SUFFICES ASSUME NEW j \in JobSlots, jobtab'[j].used, jobtab'[j].done
                 PROVE  jobtab'[j].remembered \/ j = bgjob'
      BY DEF JobsKept
    <2>1. j \notin S
      BY <1>1 DEF FREE
    <2>2. jobtab[j].remembered \/ j = bgjob \/ j = jp
      BY <1>1, <2>1 DEF ShJobsInv, JobsKept
    <2>3. j # jp
      BY <2>1, FreeIsJob
    <2> QED BY <1>1, <2>1, <2>2, <2>3 DEF BgAfter
  <1> QED BY <1>2, <1>3, <1>4, <1>5, <1>6, <1>7 DEF ShJobsInv, BangStatus

LEMMA ForegroundDoneStep ==
  ASSUME ShJobsInv, ForegroundDone PROVE ShJobsInv'
  <1>1. jp \in JobSlots /\ jobtab[jp].done /\ ~jobtab[jp].remembered /\ jp # bgjob
    BY DEF ForegroundDone, ShJobsInv, Current
  <1>2. ~wrong'
    BY Zenon, <1>1 DEF ForegroundDone, ShJobsInv, Statuses, BangStatus
  <1> QED BY <1>1, <1>2, FreeStep DEF ForegroundDone

LEMMA WaitPidDoneStep ==
  ASSUME ShJobsInv, WaitPidDone PROVE ShJobsInv'
  <1>1. jp \in JobSlots /\ jobtab[jp].done
    BY DEF WaitPidDone, ShJobsInv, Current
  <1>2. ~wrong'
    BY Zenon, <1>1 DEF WaitPidDone, ShJobsInv, Statuses, BangStatus
  <1>3. jobtab[jp].pid \in discarded' /\ discarded \subseteq discarded'
    BY DEF WaitPidDone
  <1> QED BY <1>1, <1>2, <1>3, FreeStep DEF WaitPidDone

LEMMA WaitAllTurnStep ==
  ASSUME ShJobsInv, WaitAllTurn PROVE ShJobsInv'
  <1> DEFINE S == {j \in JobSlots : jobtab[j].used /\ jobtab[j].done}
  <1>1. /\ jobtab' = Freed(jobtab, S) /\ bgjob' = BgAfter(S)
        /\ discarded' = discarded \cup {jobtab[j].pid : j \in S}
        /\ UNCHANGED <<backgndpid, procs, lastpid, actual, asked, wrong, jp>>
    BY DEF WaitAllTurn
  <1>2. jp = NOJOB /\ jpc' \in {"eval", "waitall"} /\ ~wrong'
    BY DEF WaitAllTurn, ShJobsInv, Current, BangStatus
  <1>3. \A j \in JobSlots : j \in S => jobtab[j].pid \in discarded'
    BY <1>1
  <1>4. discarded \subseteq discarded'
    BY <1>1
  <1> HIDE DEF S
  <1> QED BY <1>1, <1>2, <1>3, <1>4, FreeStep

-----------------------------------------------------------------------------
(* dowait(): a job that becomes done is freed, kept for $!, or the one     *)
(* waitforjob() waits for.                                                 *)

LEMMA JobUsed ==
  ASSUME NEW job \in Job, NEW v
  PROVE  [job EXCEPT !.used = v]
           = [used |-> v, done |-> job.done, pid |-> job.pid,
              status |-> job.status, remembered |-> job.remembered]
  BY DEF Job

LEMMA JobDone ==
  ASSUME NEW job \in Job, NEW v
  PROVE  [job EXCEPT !.done = v]
           = [used |-> job.used, done |-> v, pid |-> job.pid,
              status |-> job.status, remembered |-> job.remembered]
  BY DEF Job

LEMMA JobRemembered ==
  ASSUME NEW job \in Job, NEW v
  PROVE  [job EXCEPT !.remembered = v]
           = [used |-> job.used, done |-> job.done, pid |-> job.pid,
              status |-> job.status, remembered |-> v]
  BY DEF Job

LEMMA JobEnds ==
  ASSUME NEW job \in Job, NEW st \in Int
  PROVE  [job EXCEPT !.status = st, !.done = TRUE]
           = [used |-> job.used, done |-> TRUE, pid |-> job.pid, status |-> st,
              remembered |-> job.remembered]
  <1> DEFINE j1 == [job EXCEPT !.status = st]
  <1>1. j1 = [used |-> job.used, done |-> job.done, pid |-> job.pid,
              status |-> st, remembered |-> job.remembered]
    BY DEF Job
  <1>2. j1 \in Job
    BY <1>1 DEF Job
  <1>3. [job EXCEPT !.status = st, !.done = TRUE] = [j1 EXCEPT !.done = TRUE]
    OBVIOUS
  <1>4. [j1 EXCEPT !.done = TRUE]
          = [used |-> j1.used, done |-> TRUE, pid |-> j1.pid,
             status |-> j1.status, remembered |-> j1.remembered]
    <2> HIDE DEF j1
    <2> QED BY <1>2, JobDone, Zenon
  <1>5. j1.used = job.used /\ j1.pid = job.pid /\ j1.status = st
        /\ j1.remembered = job.remembered
    BY <1>1
  <1> HIDE DEF j1
  <1> QED BY <1>3, <1>4, <1>5, Zenon

LEMMA SettledStep ==
  ASSUME ShJobsInv, NEW p \in Zombies, NEW job \in {NOJOB, jp}, Settled(p, job),
         jpc = "fgwait" => job = jp,
         UNCHANGED <<backgndpid, jpc, jp, lastpid, jobHist>>
  PROVE  ShJobsInv'
  <1> DEFINE S == {j \in JobSlots : jobtab[j].used /\ jobtab[j].pid = p
                                    /\ jobtab[j].status = LIVE}
             Ended(j) == [used |-> jobtab[j].used, done |-> TRUE,
                          pid |-> jobtab[j].pid, status |-> procs[p],
                          remembered |-> jobtab[j].remembered]
             tab == [j \in JobSlots |->
                       IF j \in S
                       THEN [jobtab[j] EXCEPT !.status = procs[p], !.done = TRUE]
                       ELSE jobtab[j]]
             gone == {j \in S \ {job} : Useless(j)}
  <1>0. /\ jobtab \in [JobSlots -> Job] /\ lastpid \in Nat
        /\ p \in 1..lastpid /\ p \in DOMAIN procs
        /\ procs[p] = actual[p] /\ procs[p] # LIVE /\ procs[p] \in Int
    BY DEF ShJobsInv, ShJobsTypes, Statuses, Zombies
  <1>1. tab = [j \in JobSlots |-> IF j \in S THEN Ended(j) ELSE jobtab[j]]
    <2>1. ASSUME NEW j \in JobSlots
          PROVE  [jobtab[j] EXCEPT !.status = procs[p], !.done = TRUE] = Ended(j)
      <3>1. jobtab[j] \in Job
        BY <1>0
      <3> QED BY Zenon, <1>0, <3>1, JobEnds
    <2> QED BY <2>1, Zenon
  <1>2. tab \in [JobSlots -> Job]
    <2>1. \A j \in JobSlots : Ended(j) \in Job
      BY <1>0 DEF Job
    <2> HIDE DEF tab, Ended
    <2> QED BY <1>0, <1>1, <2>1
  <1>3. /\ jobtab' = Freed(tab, gone) /\ bgjob' = BgAfter(gone)
        /\ procs' = [q \in DOMAIN procs \ {p} |-> procs[q]]
    BY Zenon DEF Settled
  <1>4. bgjob' = bgjob
    BY Zenon, <1>3 DEF BgAfter, Useless
  <1>5. /\ jobtab' \in [JobSlots -> Job]
        /\ \A j \in JobSlots : j \in gone => jobtab'[j] = FREE
        /\ \A j \in JobSlots : j \in S /\ j \notin gone => jobtab'[j] = Ended(j)
        /\ \A j \in JobSlots : j \notin S => jobtab'[j] = jobtab[j]
    <2>1. \A j \in JobSlots : tab[j] = IF j \in S THEN Ended(j) ELSE jobtab[j]
      BY <1>1, Zenon
    <2>2. gone \subseteq S
      OBVIOUS
    <2> HIDE DEF tab, gone, S, Ended
    <2> QED BY <1>2, <1>3, <2>1, <2>2, FreedIs
  <1>6. \A j \in JobSlots : j \in gone => ~jobtab[j].remembered /\ j # bgjob
                                          /\ j # job
    BY DEF Useless
  <1>7. \A j \in JobSlots : j \in S /\ j \notin gone =>
                              jobtab[j].remembered \/ j = bgjob \/ j = job
    BY DEF Useless
  <1>8. \A j \in JobSlots : j \in S => jobtab[j].used /\ jobtab[j].pid = p
    OBVIOUS
  <1>81. gone \subseteq S
    OBVIOUS
  <1> HIDE DEF S, tab, gone
  <1>9. ShJobsTypes'
    BY <1>3, <1>5 DEF ShJobsInv, ShJobsTypes, jobHist
  <1>10. Statuses'
    <2>1. \A q \in DOMAIN procs' : procs'[q] = actual'[q]
      BY <1>3 DEF ShJobsInv, Statuses, jobHist
    <2>2. ASSUME NEW j \in JobSlots, jobtab'[j].done
          PROVE  /\ jobtab'[j].pid \in 1..lastpid
                 /\ jobtab'[j].status = actual[jobtab'[j].pid]
                 /\ jobtab'[j].status # LIVE
      <3>1. CASE j \notin S
        BY <1>5, <2>2, <3>1 DEF ShJobsInv, Statuses
      <3>2. CASE j \in S /\ j \notin gone
        BY <1>0, <1>5, <1>8, <3>2
      <3>3. CASE j \in gone
        BY <1>5, <2>2, <3>3 DEF FREE
      <3> QED BY <3>1, <3>2, <3>3
    <2> QED BY <2>1, <2>2 DEF Statuses, jobHist
  <1>11. Current'
    <2>1. ASSUME jpc \in {"bgfork", "fgwait"}
          PROVE  ~jobtab'[jp].remembered /\ jobtab'[jp].used
      <3>1. jp \in JobSlots /\ ~jobtab[jp].remembered /\ jobtab[jp].used
        BY <2>1 DEF ShJobsInv, Current
      <3>2. jp \notin gone
        <4>1. CASE jpc = "bgfork"
          BY <1>0, <1>8, <1>81, <3>1, <4>1 DEF ShJobsInv, Current
        <4>2. CASE jpc = "fgwait"
          BY <1>6, <3>1, <4>2
        <4> QED BY <2>1, <4>1, <4>2
      <3> QED BY <1>5, <3>1, <3>2
    <2>2. ASSUME jpc = "bgfork" PROVE jobtab'[jp].pid = 0 /\ ~jobtab'[jp].done
      <3>1. jp \in JobSlots /\ jobtab[jp].pid = 0 /\ ~jobtab[jp].done
        BY <2>2 DEF ShJobsInv, Current
      <3>2. jp \notin S
        BY <1>0, <1>8, <3>1
      <3> QED BY <1>5, <3>1, <3>2
    <2> QED BY <1>4, <2>1, <2>2 DEF ShJobsInv, Current
  <1>12. Last'
    <2>1. ASSUME bgjob # NOJOB
          PROVE  jobtab'[bgjob].used /\ jobtab'[bgjob].pid = backgndpid
      <3>1. bgjob \in JobSlots /\ jobtab[bgjob].used /\ jobtab[bgjob].pid = backgndpid
        BY <2>1 DEF ShJobsInv, Last
      <3> QED BY <1>5, <1>6, <3>1
    <2> QED BY <1>4, <2>1 DEF ShJobsInv, Last, jobHist
  <1>13. Kept'
    <2> SUFFICES ASSUME NEW q \in asked, q \notin discarded
                 PROVE  \E j \in JobSlots : /\ jobtab'[j].used /\ jobtab'[j].pid = q
                                            /\ jobtab'[j].remembered
      BY DEF Kept, jobHist
    <2>1. PICK j \in JobSlots : /\ jobtab[j].used /\ jobtab[j].pid = q
                                /\ jobtab[j].remembered
      BY DEF ShJobsInv, Kept
    <2> QED BY <1>5, <1>6, <2>1
  <1>14. JobsKept'
    <2> SUFFICES ASSUME NEW j \in JobSlots, jobtab'[j].used, jobtab'[j].done
                 PROVE  jobtab'[j].remembered \/ j = bgjob \/ j = jp
      BY <1>4 DEF JobsKept
    <2>1. CASE j \notin S
      BY <1>5, <2>1 DEF ShJobsInv, JobsKept
    <2>2. CASE j \in S /\ j \notin gone
      BY <1>5, <1>7, <2>2, FreeIsJob
    <2>3. CASE j \in gone
      BY <1>5, <2>3 DEF FREE
    <2> QED BY <2>1, <2>2, <2>3
  <1> QED BY <1>9, <1>10, <1>11, <1>12, <1>13, <1>14
    DEF ShJobsInv, BangStatus, jobHist

LEMMA DoWaitStep ==
  ASSUME ShJobsInv, NEW p \in DOMAIN procs, DoWait(p) PROVE ShJobsInv'
  BY SettledStep DEF DoWait

-----------------------------------------------------------------------------
(* The steps that start a process, and the others.                         *)

\* makejob() takes a slot that is not in use.
LEMMA NewJob ==
  ASSUME ShJobsInv, NEW j \in JobSlots, ~jobtab[j].used,
         NEW tab, tab = [jobtab EXCEPT ![j] = [FREE EXCEPT !.used = TRUE]]
  PROVE  /\ tab \in [JobSlots -> Job]
         /\ tab[j] = [used |-> TRUE, done |-> FALSE, pid |-> 0,
                      status |-> LIVE, remembered |-> FALSE]
         /\ \A k \in JobSlots : k # j => tab[k] = jobtab[k]
         /\ j # bgjob
  <1>1. [FREE EXCEPT !.used = TRUE] = [used |-> TRUE, done |-> FALSE, pid |-> 0,
                                       status |-> LIVE, remembered |-> FALSE]
    <2>2. /\ FREE.done = FALSE /\ FREE.pid = 0 /\ FREE.status = LIVE
          /\ FREE.remembered = FALSE
      BY DEF FREE
    <2> QED BY <2>2, FreeIsJob, JobUsed, Zenon
  <1>2. [FREE EXCEPT !.used = TRUE] \in Job
    <2>1. [used |-> TRUE, done |-> FALSE, pid |-> 0, status |-> LIVE,
           remembered |-> FALSE] \in Job
      BY DEF Job, LIVE
    <2> QED BY <1>1, <2>1, Zenon
  <1>3. j # bgjob
    BY FreeIsJob DEF ShJobsInv, Last
  <1> QED BY <1>1, <1>2, <1>3 DEF ShJobsInv, ShJobsTypes

LEMMA BackgroundStep ==
  ASSUME ShJobsInv, Background PROVE ShJobsInv'
  <1>1. PICK j \in JobSlots : makejob(j)
    BY DEF Background
  <1>2. /\ jobtab' \in [JobSlots -> Job]
        /\ jobtab'[j] = [used |-> TRUE, done |-> FALSE, pid |-> 0,
                         status |-> LIVE, remembered |-> FALSE]
        /\ \A k \in JobSlots : k # j => jobtab'[k] = jobtab[k]
        /\ j # bgjob
    BY Zenon, <1>1, NewJob DEF makejob
  <1>3. /\ ~jobtab[j].used /\ jp' = j /\ jpc' = "bgfork" /\ jp = NOJOB
        /\ UNCHANGED <<bgjob, backgndpid, procs, lastpid, jobHist>>
    BY <1>1 DEF Background, makejob, ShJobsInv, Current
  <1>4. ShJobsTypes'
    BY <1>2, <1>3 DEF ShJobsInv, ShJobsTypes, jobHist
  <1>5. Statuses'
    <2>1. \A k \in JobSlots : jobtab'[k].done => k # j
      BY <1>2
    <2> QED BY <1>2, <1>3, <2>1 DEF ShJobsInv, Statuses, jobHist
  <1>6. Current'
    BY <1>2, <1>3 DEF Current
  <1>7. Last'
    BY <1>2, <1>3 DEF ShJobsInv, Last, jobHist
  <1>8. Kept'
    BY <1>2, <1>3 DEF ShJobsInv, Kept, jobHist
  <1>9. JobsKept'
    BY <1>2, <1>3, FreeIsJob DEF ShJobsInv, JobsKept
  <1> QED BY <1>3, <1>4, <1>5, <1>6, <1>7, <1>8, <1>9
    DEF ShJobsInv, BangStatus, jobHist

LEMMA ForegroundStep ==
  ASSUME ShJobsInv, Foreground PROVE ShJobsInv'
  <1>1. PICK j \in JobSlots :
            /\ ~jobtab[j].used /\ jp' = j
            /\ Spawn([jobtab EXCEPT ![j] = [FREE EXCEPT !.used = TRUE]], j)
    BY Zenon DEF Foreground
  <1> DEFINE tab == [jobtab EXCEPT ![j] = [FREE EXCEPT !.used = TRUE]]
  <1>2. /\ tab \in [JobSlots -> Job]
        /\ tab[j] = [used |-> TRUE, done |-> FALSE, pid |-> 0,
                     status |-> LIVE, remembered |-> FALSE]
        /\ \A k \in JobSlots : k # j => tab[k] = jobtab[k]
        /\ j # bgjob
    BY Zenon, <1>1, NewJob
  <1>3. Spawn(tab, j)
    BY <1>1
  <1> HIDE DEF tab
  <1>4. /\ ShJobsTypes' /\ lastpid' = lastpid + 1
        /\ \A k \in JobSlots : k # j => jobtab'[k] = tab[k]
        /\ jobtab'[j] = [used |-> tab[j].used, done |-> tab[j].done,
                         pid |-> lastpid + 1, status |-> tab[j].status,
                         remembered |-> tab[j].remembered]
        /\ \A p \in DOMAIN procs' : procs'[p] = actual'[p]
        /\ \A p \in 1..lastpid : actual'[p] = actual[p]
    BY Zenon, <1>2, <1>3, SpawnIs DEF ShJobsInv, Statuses
  <1>5. /\ jobtab'[j].used /\ ~jobtab'[j].done /\ ~jobtab'[j].remembered
        /\ \A k \in JobSlots : k # j => jobtab'[k] = jobtab[k]
    BY <1>2, <1>4
  <1>6. /\ jpc' = "fgwait" /\ jp = NOJOB /\ lastpid \in Nat
        /\ UNCHANGED <<bgjob, backgndpid, asked, discarded, wrong>>
    BY DEF Foreground, ShJobsInv, Current, ShJobsTypes
  <1>7. Statuses'
    BY <1>4, <1>5, <1>6 DEF ShJobsInv, Statuses
  <1>8. Current'
    BY <1>1, <1>2, <1>5, <1>6 DEF Current
  <1>9. Last'
    BY <1>2, <1>5, <1>6 DEF ShJobsInv, Last
  <1>10. Kept'
    BY <1>1, <1>5, <1>6 DEF ShJobsInv, Kept
  <1>11. JobsKept'
    BY <1>5, <1>6, FreeIsJob DEF ShJobsInv, JobsKept
  <1> QED BY <1>4, <1>6, <1>7, <1>8, <1>9, <1>10, <1>11 DEF ShJobsInv, BangStatus

\* The job of the last $! gives way to the new one, and is freed if nobody has
\* asked for it.
LEMMA ForkBgStep ==
  ASSUME ShJobsInv, ForkBg PROVE ShJobsInv'
  <1> DEFINE old == IF bgjob # NOJOB /\ jobtab[bgjob].done /\ ~jobtab[bgjob].remembered
                    THEN {bgjob} ELSE {}
             tab == Freed(jobtab, old)
  <1>1. /\ Spawn(tab, jp) /\ bgjob' = jp /\ backgndpid' = lastpid + 1
        /\ jpc' = "eval" /\ jp' = NOJOB /\ UNCHANGED <<asked, discarded, wrong>>
    BY DEF ForkBg
  <1>2. /\ jp \in JobSlots /\ jp # bgjob /\ jobtab[jp].used /\ ~jobtab[jp].remembered
        /\ ~jobtab[jp].done /\ jobtab \in [JobSlots -> Job] /\ lastpid \in Nat
    BY DEF ForkBg, ShJobsInv, Current, ShJobsTypes
  <1>3. /\ tab \in [JobSlots -> Job]
        /\ \A j \in JobSlots : j \in old => tab[j] = FREE
        /\ \A j \in JobSlots : j \notin old => tab[j] = jobtab[j]
    <2> HIDE DEF old
    <2> QED BY <1>2, FreedIs
  <1>4. /\ jp \notin old
        /\ \A j \in old : jobtab[j].done /\ ~jobtab[j].remembered
        /\ bgjob \in JobSlots /\ jobtab[bgjob].done /\ bgjob \notin old
             => jobtab[bgjob].remembered
    BY <1>2, FreeIsJob
  <1> HIDE DEF tab, old
  <1>5. /\ ShJobsTypes' /\ lastpid' = lastpid + 1
        /\ \A k \in JobSlots : k # jp => jobtab'[k] = tab[k]
        /\ jobtab'[jp] = [used |-> tab[jp].used, done |-> tab[jp].done,
                          pid |-> lastpid + 1, status |-> tab[jp].status,
                          remembered |-> tab[jp].remembered]
        /\ \A p \in DOMAIN procs' : procs'[p] = actual'[p]
        /\ \A p \in 1..lastpid : actual'[p] = actual[p]
    BY <1>1, <1>2, <1>3, SpawnIs DEF ShJobsInv, Statuses
  <1>6. /\ jobtab'[jp].used /\ ~jobtab'[jp].done /\ jobtab'[jp].pid = lastpid + 1
        /\ \A k \in JobSlots : k \in old => jobtab'[k] = FREE
        /\ \A k \in JobSlots : k # jp /\ k \notin old => jobtab'[k] = jobtab[k]
    BY <1>2, <1>3, <1>4, <1>5
  <1>7. Statuses'
    BY <1>2, <1>5, <1>6 DEF ShJobsInv, Statuses, FREE
  <1>8. Current'
    BY <1>1 DEF Current
  <1>9. Last'
    BY <1>1, <1>2, <1>6, FreeIsJob DEF Last
  <1>10. Kept'
    BY <1>1, <1>2, <1>4, <1>6 DEF ShJobsInv, Kept
  <1>11. JobsKept'
    BY <1>1, <1>4, <1>6 DEF ShJobsInv, JobsKept, FREE
  <1> QED BY <1>1, <1>5, <1>7, <1>8, <1>9, <1>10, <1>11 DEF ShJobsInv, BangStatus

\* A process that ends is not one whose status a job has.
LEMMA ProcEndsStep ==
  ASSUME ShJobsInv, NEW p \in DOMAIN procs, ProcEnds(p) PROVE ShJobsInv'
  <1>1. PICK st \in {0, 1} : /\ procs' = [procs EXCEPT ![p] = st]
                             /\ actual' = [actual EXCEPT ![p] = st]
    BY Zenon DEF ProcEnds
  <1>2. /\ procs[p] = LIVE /\ actual[p] = LIVE /\ p \in 1..lastpid
        /\ UNCHANGED <<jobList, backgndpid, jpc, jp, lastpid, asked, discarded, wrong>>
    BY DEF ProcEnds, ShJobsInv, ShJobsTypes, Statuses
  <1>3. /\ actual' \in Seq(Int) /\ Len(actual') = lastpid /\ actual'[p] = st
        /\ \A q \in 1..lastpid : q # p => actual'[q] = actual[q]
    BY <1>1, <1>2 DEF ShJobsInv, ShJobsTypes
  <1>4. ShJobsTypes'
    BY <1>1, <1>2, <1>3 DEF ShJobsInv, ShJobsTypes, jobList
  <1>5. Statuses'
    <2>1. \A q \in DOMAIN procs' : procs'[q] = actual'[q]
      BY <1>1, <1>3 DEF ShJobsInv, Statuses, ShJobsTypes
    <2>2. \A j \in JobSlots : jobtab[j].done => jobtab[j].pid # p
      BY <1>2 DEF ShJobsInv, Statuses
    <2> QED BY <1>2, <1>3, <2>1, <2>2 DEF ShJobsInv, Statuses, jobList
  <1>6. Current' /\ Last' /\ Kept' /\ JobsKept'
    BY <1>2 DEF ShJobsInv, Current, Last, Kept, JobsKept, jobList
  <1> QED BY <1>2, <1>4, <1>5, <1>6 DEF ShJobsInv, BangStatus

\* $! names the job bgjob, if it is still there.
LEMMA BangStep ==
  ASSUME ShJobsInv, Bang PROVE ShJobsInv'
  <1>0. /\ jpc = "eval" /\ backgndpid # -1 /\ jp = NOJOB
        /\ asked' = asked \cup {backgndpid}
        /\ UNCHANGED <<bgjob, backgndpid, jpc, jp, procs, lastpid, actual,
                       discarded, wrong>>
    BY DEF Bang, ShJobsInv, Current
  <1>1. CASE bgjob = NOJOB
    <2>1. jobtab' = jobtab /\ backgndpid \in discarded
      BY <1>0, <1>1 DEF Bang, ShJobsInv, Last
    <2>2. Kept'
      BY <1>0, <2>1 DEF ShJobsInv, Kept
    <2>3. ShJobsTypes' /\ Statuses' /\ Current' /\ Last' /\ JobsKept'
      BY <1>0, <2>1
      DEF ShJobsInv, ShJobsTypes, Statuses, Current, Last, JobsKept
    <2> QED BY <1>0, <2>2, <2>3 DEF ShJobsInv, BangStatus
  <1>2. CASE bgjob # NOJOB
    <2> DEFINE old == jobtab[bgjob]
               new == [used |-> old.used, done |-> old.done, pid |-> old.pid,
                       status |-> old.status, remembered |-> TRUE]
    <2>1. bgjob \in JobSlots /\ old \in Job /\ old.used /\ old.pid = backgndpid
      BY <1>2 DEF ShJobsInv, Last, ShJobsTypes
    <2>2. new \in Job
      BY <2>1 DEF Job
    <2>3. jobtab' = [jobtab EXCEPT ![bgjob] = new]
      <3>1. jobtab' = [jobtab EXCEPT ![bgjob] = [old EXCEPT !.remembered = TRUE]]
        BY <1>2 DEF Bang
      <3>2. [old EXCEPT !.remembered = TRUE] = new
        BY <2>1, JobRemembered, Zenon
      <3> QED BY <3>1, <3>2, Zenon
    <2>4. /\ new.used = old.used /\ new.done = old.done /\ new.pid = old.pid
          /\ new.status = old.status /\ new.remembered
      OBVIOUS
    <2> HIDE DEF new
    <2>5. /\ jobtab' \in [JobSlots -> Job]
          /\ \A j \in JobSlots :
               /\ jobtab'[j].used = jobtab[j].used /\ jobtab'[j].done = jobtab[j].done
               /\ jobtab'[j].pid = jobtab[j].pid
               /\ jobtab'[j].status = jobtab[j].status
               /\ jobtab[j].remembered => jobtab'[j].remembered
          /\ jobtab'[bgjob].remembered
      BY Zenon, <2>1, <2>2, <2>3, <2>4 DEF ShJobsInv, ShJobsTypes
    <2>6. ShJobsTypes' /\ Statuses' /\ Last' /\ JobsKept'
      BY <1>0, <2>5 DEF ShJobsInv, ShJobsTypes, Statuses, Last, JobsKept
    <2>7. Current'
      BY <1>0 DEF Current
    <2>8. Kept'
      BY <1>0, <2>1, <2>5 DEF ShJobsInv, Kept
    <2> QED BY <1>0, <2>6, <2>7, <2>8 DEF ShJobsInv, BangStatus
  <1> QED BY <1>1, <1>2

LEMMA WaitAllStep ==
  ASSUME ShJobsInv, WaitAll PROVE ShJobsInv'
  BY DEF WaitAll, ShJobsInv, ShJobsTypes, Statuses, Current, Last, Kept,
         JobsKept, BangStatus, jobList, jobHist

\* getjob_nonotfound() fails for a pid of $! only after another wait.
LEMMA WaitPidStep ==
  ASSUME ShJobsInv, NEW p \in asked, WaitPid(p) PROVE ShJobsInv'
  <1>0. jpc = "eval" /\ jp = NOJOB
        /\ UNCHANGED <<jobList, backgndpid, procs, lastpid, actual, asked, discarded>>
    BY DEF WaitPid, ShJobsInv, Current
  <1> DEFINE S == {j \in JobSlots : jobtab[j].used /\ jobtab[j].pid = p}
  <1>1. ~wrong'
    <2>1. S = {} => p \in discarded
      BY DEF ShJobsInv, Kept
    <2> QED BY Zenon, <2>1 DEF WaitPid, ShJobsInv, BangStatus
  <1>2. (jpc' = "eval" /\ jp' = NOJOB) \/ (jpc' = "waitjob" /\ jp' \in JobSlots)
    BY <1>0 DEF WaitPid
  <1>3. Current'
    BY <1>2 DEF Current
  <1>4. JobsKept'
    BY <1>0, FreeIsJob DEF ShJobsInv, JobsKept, jobList
  <1>5. ShJobsTypes' /\ Statuses' /\ Last' /\ Kept'
    BY <1>0 DEF ShJobsInv, ShJobsTypes, Statuses, Last, Kept, jobList
  <1> QED BY <1>1, <1>3, <1>4, <1>5 DEF ShJobsInv, BangStatus

-----------------------------------------------------------------------------
LEMMA ShJobsInvNext == ShJobsInv /\ [ShJobsNext]_shJobsVars => ShJobsInv'
  <1> SUFFICES ASSUME ShJobsInv, [ShJobsNext]_shJobsVars PROVE ShJobsInv'
    OBVIOUS
  <1>1. CASE UNCHANGED shJobsVars
    BY <1>1 DEF shJobsVars, jobList, jobHist, ShJobsInv, ShJobsTypes, Statuses,
       Current, Last, Kept, JobsKept, BangStatus
  <1>2. CASE ShJobsNext
    BY <1>2, ForkBgStep, ForegroundDoneStep, WaitAllTurnStep, WaitPidDoneStep,
       DoWaitStep, BackgroundStep, ForegroundStep, BangStep, WaitAllStep,
       ProcEndsStep, WaitPidStep
    DEF ShJobsNext, ShJobsStep
  <1> QED BY <1>1, <1>2

LEMMA ShJobsInvariant == ShJobsSpec => []ShJobsInv
  BY ShJobsInvInit, ShJobsInvNext, PTL DEF ShJobsSpec

\* A wait for a pid that $! gave out returns the status of that process, for
\* any number of jobs, whenever they end and whenever they are waited for.
THEOREM BangAlwaysExact == ShJobsSpec => []BangStatus
  <1>1. ShJobsInv => BangStatus
    BY DEF ShJobsInv
  <1> QED BY <1>1, ShJobsInvariant, PTL

\* A job that is done stays in the table only if somebody can ask for it.
THEOREM JobsOnlyKeptForUse == ShJobsSpec => []JobsKept
  <1>1. ShJobsInv => JobsKept
    BY DEF ShJobsInv
  <1> QED BY <1>1, ShJobsInvariant, PTL
=============================================================================
