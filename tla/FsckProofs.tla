----------------------------- MODULE FsckProofs -----------------------------
(***************************************************************************)
(* Proofs about fsck -p: for any fstab, any number of disks and any -l, no *)
(* disk is checked by two processes at a time, no more checks run than -l  *)
(* allows, none is forgotten, and the exit status says what happened.      *)
(***************************************************************************)
EXTENDS Fsck, FiniteSetTheorems, TLAPS

IsKid(k) == k = [pid |-> k.pid, disk |-> k.disk, part |-> k.part, st |-> k.st]

FsckTypes ==
    /\ fstab \in Fstabs
    /\ disklist \in Seq(Disks)
    /\ dpid \in [Disks -> Int]
    /\ ndisks \in Int /\ fscks_running \in Nat /\ maximum_running \in Nat
    /\ forks \in Nat

\* finddisk() adds no disk twice.
Distinct == \A i, j \in DOMAIN disklist : disklist[i] = disklist[j] => i = j

\* A child is the one its disk->pid names, and no two have the same pid.
Kids ==
    /\ \A k \in kids : /\ IsKid(k) /\ k.disk \in Disks
                       /\ k.pid \in 1..forks /\ dpid[k.disk] = k.pid
    /\ \A k, l \in kids : k.pid = l.pid => k = l

\* fscks_running is the number of children.
Counts ==
    /\ IsFiniteSet(kids) /\ Cardinality(kids) = fscks_running
    /\ fpc # "scan" => fscks_running <= maximum_running

\* Nothing runs during the scan; the first loop takes the disks in order; and
\* startdiskcheck() is called later only for a disk that has no check.
Places ==
    /\ fpc = "scan" => /\ ndisks = Len(disklist) /\ kids = {}
                       /\ \A d \in Disks : dpid[d] = 0
    /\ fpc = "first" =>
        /\ maximum_running <= Len(disklist)
        /\ nextdisk = IF fscks_running = Len(disklist) THEN 0
                                                       ELSE fscks_running + 1
        /\ \A i \in DOMAIN disklist : i > fscks_running => dpid[disklist[i]] <= 0
    /\ fpc = "again" => /\ target \in Disks /\ dpid[target] <= 0
                        /\ fscks_running < maximum_running

FsckInv == FsckTypes /\ Distinct /\ Kids /\ Counts /\ Places

LEMMA FsckInvInit == FsckInit => FsckInv
  BY FsckAssumption, FS_EmptySet
  DEF FsckAssumption, FsckInit, FsckInv, FsckTypes, Distinct, Kids, Counts, Places

-----------------------------------------------------------------------------
(* startdiskcheck()                                                        *)

LEMMA ForkStep ==
  ASSUME FsckInv, NEW d \in Disks, dpid[d] <= 0, Fork(d),
         fscks_running < maximum_running, fpc # "scan", fpc' # "scan",
         maximum_running' = maximum_running
  PROVE  /\ Kids' /\ Counts' /\ fscks_running' = fscks_running + 1
         /\ dpid' \in [Disks -> Int] /\ forks' \in Nat
         /\ \A e \in Disks : e # d => dpid'[e] = dpid[e]
  <1> DEFINE k0 == [pid |-> forks + 1, disk |-> d, part |-> Head(queue[d]),
                    st |-> RUNS]
  <1>1. /\ kids' = kids \cup {k0} /\ forks' = forks + 1
        /\ dpid' = [dpid EXCEPT ![d] = forks + 1]
        /\ fscks_running' = fscks_running + 1
    BY Zenon DEF Fork
  <1>2. k0.pid = forks + 1 /\ k0.disk = d /\ IsKid(k0)
    BY Zenon DEF IsKid
  <1> HIDE DEF k0
  <1>3. /\ forks \in Nat /\ dpid \in [Disks -> Int] /\ fscks_running \in Nat
        /\ maximum_running \in Nat
    BY Zenon DEF FsckInv, FsckTypes
  <1>4. /\ dpid' \in [Disks -> Int] /\ forks' \in Nat /\ dpid'[d] = forks + 1
        /\ \A e \in Disks : e # d => dpid'[e] = dpid[e]
    BY <1>1, <1>3
  <1>5. \A k \in kids : /\ IsKid(k) /\ k.disk \in Disks /\ k.pid \in 1..forks
                        /\ dpid[k.disk] = k.pid
    BY Zenon DEF FsckInv, Kids
  <1>6. \A k \in kids : k.disk # d /\ k.pid # forks + 1 /\ k # k0
    BY <1>2, <1>3, <1>5
  <1>7. Kids'
    <2>1. ASSUME NEW k \in kids'
          PROVE  /\ IsKid(k) /\ k.disk \in Disks
                 /\ k.pid \in 1..forks' /\ dpid'[k.disk] = k.pid
      <3>1. CASE k = k0
        BY <1>1, <1>2, <1>3, <1>4, <3>1
      <3>2. CASE k \in kids
        BY <1>1, <1>3, <1>4, <1>5, <1>6, <3>2
      <3> QED BY Zenon, <1>1, <3>1, <3>2
    <2>2. \A k, l \in kids' : k.pid = l.pid => k = l
      BY Zenon, <1>1, <1>2, <1>6 DEF FsckInv, Kids
    <2> QED BY Zenon, <2>1, <2>2 DEF Kids
  <1>8. Counts'
    <2>1. IsFiniteSet(kids) /\ Cardinality(kids) = fscks_running /\ k0 \notin kids
      BY Zenon, <1>6 DEF FsckInv, Counts
    <2>2. IsFiniteSet(kids') /\ Cardinality(kids') = Cardinality(kids) + 1
      BY Zenon, <1>1, <2>1, FS_AddElement
    <2> QED BY <1>1, <1>3, <2>1, <2>2 DEF Counts
  <1> QED BY Zenon, <1>1, <1>4, <1>7, <1>8

\* fork() fails: the disk has no check, as before.
LEMMA ForkFailedStep ==
  ASSUME FsckInv, NEW d \in Disks, dpid[d] <= 0, ForkFailed(d),
         UNCHANGED maximum_running, fpc # "scan"
  PROVE  /\ Kids' /\ Counts' /\ UNCHANGED <<fscks_running, forks>>
         /\ dpid' \in [Disks -> Int] /\ dpid'[d] <= 0
         /\ \A e \in Disks : e # d => dpid'[e] = dpid[e]
         /\ fpc' \in {"report", "done"} \/ UNCHANGED <<fpc, target>>
  <1>1. /\ dpid' = [dpid EXCEPT ![d] = -1]
        /\ UNCHANGED <<kids, forks, fscks_running>>
        /\ fpc' \in {"report", "done"} \/ UNCHANGED <<fpc, target>>
    BY Zenon DEF ForkFailed, Return, Exit
  <1>2. /\ dpid' \in [Disks -> Int] /\ dpid'[d] = -1
        /\ \A e \in Disks : e # d => dpid'[e] = dpid[e]
    BY <1>1 DEF FsckInv, FsckTypes
  <1>3. \A k \in kids : k.disk # d
    BY DEF FsckInv, Kids, FsckTypes
  <1>4. Kids'
    BY Zenon, <1>1, <1>2, <1>3 DEF FsckInv, Kids
  <1>5. Counts'
    BY Zenon, <1>1 DEF FsckInv, Counts
  <1> QED BY <1>1, <1>2, <1>4, <1>5

-----------------------------------------------------------------------------
(* The scan.                                                               *)

LEMMA ScanAddStep ==
  ASSUME FsckInv, ScanAdd PROVE FsckInv'
  <1> DEFINE d == Cur.disk
             known == \E i \in DOMAIN disklist : disklist[i] = d
  <1>1. d \in Disks
    BY DEF ScanAdd, Scanning, Cur, Disks, FsckInv, FsckTypes
  <1>2. /\ disklist' = (IF known THEN disklist ELSE Append(disklist, d))
        /\ ndisks' = (IF known THEN ndisks ELSE ndisks + 1)
        /\ fpc = "scan" /\ fpc' = "scan"
        /\ UNCHANGED <<fsckInput, fsckRun, maximum_running>>
    BY Zenon DEF ScanAdd, Scanning
  <1> HIDE DEF d
  <1>3. /\ disklist' \in Seq(Disks) /\ ndisks' \in Int /\ Distinct'
        /\ ndisks = Len(disklist) => ndisks' = Len(disklist')
    <2>1. CASE known
      BY Zenon, <1>2, <2>1 DEF FsckInv, FsckTypes, Distinct
    <2>2. CASE ~known
      BY <1>1, <1>2, <2>2 DEF FsckInv, FsckTypes, Distinct
    <2> QED BY Zenon, <2>1, <2>2
  <1>4. FsckTypes'
    BY Zenon, <1>2, <1>3 DEF FsckInv, FsckTypes, fsckInput, fsckRun
  <1> QED BY Zenon, <1>2, <1>3, <1>4 DEF FsckInv, Kids, Counts, Places, fsckRun

LEMMA ScanEndStep ==
  ASSUME FsckInv, ScanEnd PROVE FsckInv'
  <1>1. /\ UNCHANGED <<fsckInput, fsckLists, fsckRun, ndisks>>
        /\ maximum_running' \in Nat /\ fpc = "scan"
        /\ \/ fpc' = "done"
           \/ /\ fpc' = "first" /\ maximum_running' <= Len(disklist)
              /\ nextdisk' = IF disklist = <<>> THEN 0 ELSE 1
    BY DEF ScanEnd, Exit, FsckInv, FsckTypes, Places
  <1>2. /\ kids = {} /\ fscks_running = 0 /\ \A e \in Disks : dpid[e] = 0
    BY Zenon, <1>1, FS_EmptySet DEF FsckInv, Counts, Places
  <1>3. FsckTypes' /\ Distinct' /\ Kids'
    BY Zenon, <1>1 DEF FsckInv, FsckTypes, Distinct, Kids, fsckInput, fsckLists, fsckRun
  <1>4. Counts'
    BY <1>1, <1>2 DEF FsckInv, Counts, fsckRun
  <1>5. Places'
    BY <1>1, <1>2 DEF FsckInv, FsckTypes, Places, fsckLists, fsckRun
  <1> QED BY Zenon, <1>3, <1>4, <1>5 DEF FsckInv

\* Steps that leave the lists and the children alone and start nothing.
LEMMA QuietStep ==
  ASSUME FsckInv, UNCHANGED <<fstab, disklist, dpid, fscks_running, kids, forks,
                              ndisks, maximum_running, nextdisk>>,
         \/ fpc' = fpc /\ (fpc = "again" => target' = target)
         \/ fpc' \in {"report", "done"}
         \/ fpc = "first" /\ fpc' = "wait"
  PROVE  FsckInv'
  <1>1. FsckTypes' /\ Distinct' /\ Kids'
    BY Zenon DEF FsckInv, FsckTypes, Distinct, Kids
  <1>2. Counts'
    <2>1. fpc = "scan" => fscks_running = 0
      BY Zenon, FS_EmptySet DEF FsckInv, Counts, Places
    <2> QED BY <2>1 DEF FsckInv, Counts, FsckTypes
  <1>3. Places'
    BY Zenon DEF FsckInv, Places
  <1> QED BY Zenon, <1>1, <1>2, <1>3 DEF FsckInv

LEMMA OtherSteps ==
  ASSUME FsckInv,
         \/ ScanSkip \/ ScanCheck \/ ScanBadName \/ ScanAgain \/ FirstDone
         \/ NoChildren \/ Report \/ Interrupt \/ Quit
  PROVE  FsckInv'
  <1> USE DEF fsckInput, fsckLists, fsckRun, fsckScan
  <1>1. CASE ScanSkip
    BY Zenon, <1>1, QuietStep DEF ScanSkip
  <1>2. CASE ScanCheck
    BY Zenon, <1>2, QuietStep DEF ScanCheck, Exit
  <1>3. CASE ScanBadName
    BY Zenon, <1>3, QuietStep DEF ScanBadName
  <1>4. CASE ScanAgain
    BY Zenon, <1>4, QuietStep DEF ScanAgain
  <1>5. CASE FirstDone
    BY Zenon, <1>5, QuietStep DEF FirstDone
  <1>6. CASE NoChildren
    BY Zenon, <1>6, QuietStep DEF NoChildren, Return, Exit
  <1>7. CASE Report
    BY Zenon, <1>7, QuietStep DEF Report, Exit
  <1>8. CASE Interrupt
    BY Zenon, <1>8, QuietStep DEF Interrupt
  <1>9. CASE Quit
    BY Zenon, <1>9, QuietStep DEF Quit
  <1> QED BY Zenon, <1>1, <1>2, <1>3, <1>4, <1>5, <1>6, <1>7, <1>8, <1>9

-----------------------------------------------------------------------------
(* do_diskchecks().                                                        *)

\* In the first loop the next disk is there and has no check.
LEMMA FirstDisk ==
  ASSUME FsckInv, fpc = "first", fscks_running < maximum_running
  PROVE  /\ nextdisk = fscks_running + 1 /\ nextdisk \in DOMAIN disklist
         /\ disklist[nextdisk] \in Disks /\ dpid[disklist[nextdisk]] <= 0
  BY DEF FsckInv, FsckTypes, Places

LEMMA StartFirstStep ==
  ASSUME FsckInv, StartFirst PROVE FsckInv'
  <1> DEFINE d == disklist[nextdisk]
  <1>1. /\ fpc = "first" /\ fpc' = "first" /\ fscks_running < maximum_running
        /\ Fork(d) /\ nextdisk' = After(nextdisk)
        /\ UNCHANGED <<fstab, disklist, ndisks, maximum_running>>
    BY Zenon DEF StartFirst, fsckInput, fsckLists
  <1>2. /\ nextdisk = fscks_running + 1 /\ nextdisk \in DOMAIN disklist
        /\ d \in Disks /\ dpid[d] <= 0
    BY Zenon, <1>1, FirstDisk
  <1> HIDE DEF d
  <1>3. /\ Kids' /\ Counts' /\ fscks_running' = fscks_running + 1
        /\ dpid' \in [Disks -> Int] /\ forks' \in Nat
        /\ \A e \in Disks : e # d => dpid'[e] = dpid[e]
    BY Zenon, <1>1, <1>2, ForkStep
  <1>4. FsckTypes' /\ Distinct'
    BY <1>1, <1>3 DEF FsckInv, FsckTypes, Distinct
  <1>5. \A i \in DOMAIN disklist : i > fscks_running' => dpid'[disklist[i]] <= 0
    <2> SUFFICES ASSUME NEW i \in DOMAIN disklist, i > fscks_running + 1
                 PROVE  dpid'[disklist[i]] <= 0
      BY Zenon, <1>3
    <2>1. i > fscks_running /\ i # nextdisk
      BY <1>2 DEF FsckInv, FsckTypes
    <2>2. disklist[i] \in Disks /\ disklist[i] # d
      BY <1>2, <2>1 DEF FsckInv, FsckTypes, Distinct, d
    <2>3. dpid[disklist[i]] <= 0
      BY Zenon, <1>1, <2>1 DEF FsckInv, Places
    <2> QED BY Zenon, <1>3, <2>2, <2>3
  <1>6. /\ maximum_running' <= Len(disklist')
        /\ nextdisk' = IF fscks_running' = Len(disklist') THEN 0 ELSE fscks_running' + 1
    BY Zenon, <1>1, <1>2, <1>3 DEF FsckInv, FsckTypes, Places, After
  <1>7. Places'
    BY Zenon, <1>1, <1>5, <1>6 DEF Places
  <1> QED BY Zenon, <1>3, <1>4, <1>7 DEF FsckInv

LEMMA StartFirstFailsStep ==
  ASSUME FsckInv, StartFirstFails PROVE FsckInv'
  <1> DEFINE d == disklist[nextdisk]
  <1>1. /\ fpc = "first" /\ fscks_running < maximum_running /\ ForkFailed(d)
        /\ UNCHANGED <<fstab, disklist, ndisks, maximum_running, nextdisk>>
    BY Zenon DEF StartFirstFails, fsckInput, fsckLists
  <1>2. d \in Disks /\ dpid[d] <= 0
    BY Zenon, <1>1, FirstDisk
  <1> HIDE DEF d
  <1>3. /\ Kids' /\ Counts' /\ UNCHANGED <<fscks_running, forks>>
        /\ dpid' \in [Disks -> Int] /\ dpid'[d] <= 0
        /\ \A e \in Disks : e # d => dpid'[e] = dpid[e]
        /\ fpc' \in {"report", "done"} \/ UNCHANGED <<fpc, target>>
    BY Zenon, <1>1, <1>2, ForkFailedStep
  <1>4. FsckTypes' /\ Distinct'
    BY Zenon, <1>1, <1>3 DEF FsckInv, FsckTypes, Distinct
  <1>5. \A i \in DOMAIN disklist : i > fscks_running => dpid'[disklist[i]] <= 0
    <2>1. \A i \in DOMAIN disklist : disklist[i] \in Disks
      BY DEF FsckInv, FsckTypes
    <2> QED BY Zenon, <1>1, <1>3, <2>1 DEF FsckInv, Places
  <1>6. Places'
    BY Zenon, <1>1, <1>3, <1>5 DEF FsckInv, Places
  <1> QED BY Zenon, <1>3, <1>4, <1>6 DEF FsckInv

LEMMA StartAgainStep ==
  ASSUME FsckInv, StartAgain \/ StartAgainFails PROVE FsckInv'
  <1>0. /\ fpc = "again" /\ target \in Disks /\ dpid[target] <= 0
        /\ fscks_running < maximum_running
        /\ UNCHANGED <<fstab, disklist, ndisks, maximum_running>>
    BY Zenon DEF StartAgain, StartAgainFails, fsckInput, fsckLists, FsckInv, Places
  <1>1. CASE StartAgain
    <2>1. Fork(target) /\ fpc' = "wait"
      BY Zenon, <1>1 DEF StartAgain
    <2>2. /\ Kids' /\ Counts' /\ fscks_running' = fscks_running + 1
          /\ dpid' \in [Disks -> Int] /\ forks' \in Nat
      BY Zenon, <1>0, <2>1, ForkStep
    <2> QED BY <1>0, <2>1, <2>2 DEF FsckInv, FsckTypes, Distinct, Places
  <1>2. CASE StartAgainFails
    <2>1. ForkFailed(target)
      BY Zenon, <1>2 DEF StartAgainFails
    <2>2. /\ Kids' /\ Counts' /\ UNCHANGED <<fscks_running, forks>>
          /\ dpid' \in [Disks -> Int] /\ dpid'[target] <= 0
          /\ fpc' \in {"report", "done"} \/ UNCHANGED <<fpc, target>>
      BY Zenon, <1>0, <2>1, ForkFailedStep
    <2>3. FsckTypes' /\ Distinct'
      BY Zenon, <1>0, <2>2 DEF FsckInv, FsckTypes, Distinct
    <2>4. Places'
      BY Zenon, <1>0, <2>2 DEF Places
    <2> QED BY Zenon, <2>2, <2>3, <2>4 DEF FsckInv
  <1> QED BY Zenon, <1>1, <1>2

\* A child ends: it keeps its disk and pid.
LEMMA ChildEndsStep ==
  ASSUME FsckInv, NEW k \in kids, ChildEnds(k) PROVE FsckInv'
  <1> PICK st \in Statuses : kids' = (kids \ {k}) \cup {[k EXCEPT !.st = st]}
    BY Zenon DEF ChildEnds
  <1> DEFINE new == [k EXCEPT !.st = st]
  <1>0. kids' = (kids \ {k}) \cup {new}
    BY Zenon
  <1>1. new.pid = k.pid /\ new.disk = k.disk /\ IsKid(new)
    BY DEF FsckInv, Kids, IsKid
  <1> HIDE DEF new
  <1>2. UNCHANGED <<fstab, disklist, dpid, fscks_running, forks, ndisks,
                    maximum_running, nextdisk, fpc, target>>
    BY Zenon DEF ChildEnds, fsckInput, fsckLists
  <1>3. \A l \in kids \ {k} : l.pid # k.pid /\ l # new
    BY Zenon, <1>1 DEF FsckInv, Kids
  <1>4. Kids'
    <2>1. ASSUME NEW l \in kids'
          PROVE  /\ IsKid(l) /\ l.disk \in Disks
                 /\ l.pid \in 1..forks' /\ dpid'[l.disk] = l.pid
      <3>1. CASE l = new
        BY Zenon, <1>1, <1>2, <3>1 DEF FsckInv, Kids
      <3>2. CASE l \in kids
        BY Zenon, <1>2, <3>2 DEF FsckInv, Kids
      <3> QED BY Zenon, <1>0, <3>1, <3>2
    <2>2. \A l, m \in kids' : l.pid = m.pid => l = m
      BY Zenon, <1>0, <1>1, <1>3 DEF FsckInv, Kids
    <2> QED BY Zenon, <2>1, <2>2 DEF Kids
  <1>5. Counts'
    <2>1. IsFiniteSet(kids) /\ Cardinality(kids) = fscks_running /\ fscks_running \in Nat
      BY Zenon DEF FsckInv, Counts, FsckTypes
    <2>2. /\ IsFiniteSet(kids \ {k})
          /\ Cardinality(kids \ {k}) = Cardinality(kids) - 1
      BY Zenon, <2>1, FS_RemoveElement
    <2>3. new \notin kids \ {k}
      BY Zenon, <1>3
    <2> DEFINE rest == kids \ {k}
    <2>4. IsFiniteSet(rest) /\ new \notin rest /\ kids' = rest \cup {new}
      BY Zenon, <1>0, <2>2, <2>3
    <2> HIDE DEF rest
    <2>5. /\ IsFiniteSet(rest \cup {new})
          /\ Cardinality(rest \cup {new}) = Cardinality(rest) + 1
      BY <2>4, FS_AddElement, Zenon
    <2>6. /\ IsFiniteSet(kids')
          /\ Cardinality(kids') = Cardinality(kids \ {k}) + 1
      BY <2>4, <2>5, Zenon DEF rest
    <2> QED BY <1>2, <2>1, <2>2, <2>6 DEF FsckInv, Counts
  <1>6. FsckTypes' /\ Distinct'
    BY Zenon, <1>2 DEF FsckInv, FsckTypes, Distinct
  <1>7. Places'
    BY Zenon, <1>0, <1>2 DEF FsckInv, Places
  <1> QED BY Zenon, <1>4, <1>5, <1>6, <1>7 DEF FsckInv

\* wait() returns a child: its disk is free, and one check fewer runs.
LEMMA WaitReturnsStep ==
  ASSUME FsckInv, NEW k \in kids, WaitReturns(k) PROVE FsckInv'
  <1> PICK d \in Disks : /\ dpid[d] = k.pid /\ dpid' = [dpid EXCEPT ![d] = 0]
                         /\ fscks_running' = fscks_running - 1
                         /\ ndisks' = NdisksAfter(d) /\ GoOn(d)
    BY Zenon DEF WaitReturns
  <1>1. /\ fpc = "wait" /\ kids' = kids \ {k}
        /\ UNCHANGED <<fstab, disklist, maximum_running, forks>>
    BY Zenon DEF WaitReturns, fsckInput
  <1>2. /\ dpid' \in [Disks -> Int] /\ dpid'[d] = 0
        /\ \A e \in Disks : e # d => dpid'[e] = dpid[e]
    BY DEF FsckInv, FsckTypes
  <1>3. Kids'
    <2>1. \A l \in kids' : l.disk \in Disks /\ l.disk # d
      BY Zenon, <1>1 DEF FsckInv, Kids
    <2> QED BY Zenon, <1>1, <1>2, <2>1 DEF FsckInv, Kids
  <1>4. Counts' /\ fscks_running' \in Nat /\ fscks_running' < maximum_running
    <2>1. /\ IsFiniteSet(kids) /\ Cardinality(kids) = fscks_running
          /\ fscks_running \in Nat /\ maximum_running \in Nat
          /\ fscks_running <= maximum_running
      BY Zenon, <1>1 DEF FsckInv, Counts, FsckTypes
    <2>2. /\ IsFiniteSet(kids')
          /\ Cardinality(kids') = Cardinality(kids) - 1
      BY Zenon, <1>1, <2>1, FS_RemoveElement
    <2>3. Cardinality(kids') \in Nat
      BY Zenon, <2>2, FS_CardinalityType
    <2> QED BY <1>1, <2>1, <2>2, <2>3 DEF Counts
  <1>5. FsckTypes' /\ Distinct'
    BY <1>1, <1>2, <1>4 DEF FsckInv, FsckTypes, Distinct, NdisksAfter
  <1>6. \/ fpc' \in {"wait", "spin"}
        \/ fpc' = "again" /\ target' \in Disks /\ dpid'[target'] = 0
    BY <1>1, <1>2 DEF GoOn, Found, Idle, FsckInv, FsckTypes
  <1>7. Places'
    BY <1>1, <1>4, <1>6 DEF Places
  <1> QED BY Zenon, <1>3, <1>4, <1>5, <1>7 DEF FsckInv

-----------------------------------------------------------------------------

LEMMA FsckInvNext == FsckInv /\ [FsckNext]_fsckVars => FsckInv'
  <1> SUFFICES ASSUME FsckInv, [FsckNext]_fsckVars PROVE FsckInv'
    BY Zenon
  <1>1. CASE UNCHANGED fsckVars
    BY Zenon, <1>1, QuietStep DEF fsckVars, fsckInput, fsckLists, fsckRun
  <1>2. CASE \E k \in kids : ChildEnds(k) \/ WaitReturns(k)
    BY Zenon, <1>2, ChildEndsStep, WaitReturnsStep
  <1>3. CASE \/ ScanSkip \/ ScanCheck \/ ScanBadName \/ ScanAgain \/ FirstDone
             \/ NoChildren \/ Report \/ Interrupt \/ Quit
    BY Zenon, <1>3, OtherSteps
  <1>4. CASE ScanAdd \/ ScanEnd \/ StartFirst \/ StartFirstFails
    BY Zenon, <1>4, ScanAddStep, ScanEndStep, StartFirstStep, StartFirstFailsStep
  <1>5. CASE StartAgain \/ StartAgainFails
    BY Zenon, <1>5, StartAgainStep
  <1> QED BY Zenon, <1>1, <1>2, <1>3, <1>4, <1>5 DEF FsckNext, FsckStep

LEMMA FsckInvariant == FsckSpec => []FsckInv
  BY FsckInvInit, FsckInvNext, PTL DEF FsckSpec

\* Whatever the fstab, the number of disks and -l: do_diskchecks() never has
\* two checks of one disk running, nor more checks than -l allows.
THEOREM FsckAlwaysBounded == FsckSpec => []FsckBounded
  <1>1. FsckInv => FsckBounded
    BY DEF FsckInv, Kids, Counts, FsckBounded
  <1> QED BY <1>1, FsckInvariant, PTL

-----------------------------------------------------------------------------
(* The exit status.  What must be known of a check that is still to come:  *)
(* no disk with partitions left is forgotten by the search for the next    *)
(* one, and every partition is in its queue or has been checked.           *)

Queued(p) == \E d \in Disks : \E j \in DOMAIN queue[d] : queue[d][j] = p

\* The disks that have partitions left.
Busy == {d \in Disks : queue[d] # <<>>}

MoreTypes ==
    /\ preen \in BOOLEAN /\ requested_passno \in 0..2
    /\ passno \in 1..2 /\ at \in Nat
    /\ checks \in [Names -> Nat]

\* A partition is in one place of one queue, that of its own disk.
Queues ==
    /\ queue \in [Disks -> Seq(Names)]
    /\ \A d, e \in Disks : \A i \in DOMAIN queue[d], j \in DOMAIN queue[e] :
        queue[d][i] = queue[e][j] => d = e /\ i = j
    /\ \A d \in Disks : \A i \in DOMAIN queue[d] :
        \E n \in DOMAIN fstab : fstab[n].name = queue[d][i] /\ fstab[n].disk = d

\* ndisks is the number of disks that have partitions left; all are listed.
Counted ==
    /\ IsFiniteSet(Busy) /\ Cardinality(Busy) = ndisks
    /\ \A d \in Busy : \E i \in DOMAIN disklist : disklist[i] = d
    /\ fpc \in {"scan", "first"} => \A i \in DOMAIN disklist : disklist[i] \in Busy

\* A child checks the first partition of its disk, and disk->pid is positive
\* for no other disk.  It is -1 only while startdiskcheck() has to be tried
\* again, and after it was given up.
Children ==
    /\ \A k \in kids : /\ k.disk \in Busy /\ k.part = Head(queue[k.disk])
                       /\ checks[k.part] >= 1
    /\ \A d \in Disks : dpid[d] > 0 => \E k \in kids : k.disk = d
    /\ \A d \in Disks : dpid[d] < 0 =>
        \/ /\ fpc = "first" /\ fscks_running < maximum_running
           /\ d = disklist[nextdisk]
        \/ fpc = "again" /\ d = target
        \/ fpc \in {"report", "done"}

\* A partition that only the parallel pass names is checked at most once, and
\* not before it is the first of its disk and the disk has a child.
Once ==
    preen => \A p \in Names : OnlyLater(p) =>
        /\ checks[p] <= 1
        /\ fpc = "scan" => checks[p] = 0
        /\ \A d \in Disks : \A i \in DOMAIN queue[d] :
            queue[d][i] = p /\ (i # 1 \/ dpid[d] <= 0) => checks[p] = 0

\* No disk is forgotten.  While nextdisk is NULL each disk goes on by itself:
\* all that have partitions left have a child.  Otherwise as many checks run
\* as -l and the disks that are left allow, or the one that is missing is
\* about to be started.
Work ==
    /\ fpc = "first" =>
        \A i \in DOMAIN disklist : i <= fscks_running => dpid[disklist[i]] > 0
    /\ fpc = "wait" =>
        IF nextdisk = 0 THEN \A d \in Busy : dpid[d] > 0
        ELSE fscks_running >= maximum_running \/ fscks_running >= ndisks
    /\ fpc = "again" =>
        /\ target \in Busy
        /\ IF nextdisk = 0 THEN \A d \in Busy : d # target => dpid[d] > 0
           ELSE fscks_running + 1 >= maximum_running \/ fscks_running + 1 >= ndisks
    /\ fpc \in {"first", "again", "wait"} /\ maximum_running = 0 => ndisks = 0
    /\ fpc # "spin"

\* What the status says of what has happened so far.
Status ==
    /\ running_status = 0 => failed = {}
    /\ running_status = 8 =>
        \/ failed # {}
        \/ fpc \in {"report", "done"} /\ \E d \in Disks : dpid[d] = -1
        \/ \E i \in DOMAIN fstab : ~fstab[i].there
    /\ fpc = "report" => running_status # 0
    /\ fpc = "done" /\ running_status = 0 =>
        kids = {} /\ (preen => \A d \in Disks : queue[d] = <<>>)

\* The scan has dealt with the i-th entry.
Passed(i) ==
    IF preen THEN passno > fstab[i].pass \/ (passno = fstab[i].pass /\ i < at)
             ELSE i < at

Served(i) ==
    /\ fstab[i].there
    /\ checks[fstab[i].name] >= 1 \/ (preen /\ Queued(fstab[i].name))

\* As long as nothing went wrong, each entry the scan has dealt with was
\* checked or waits for the parallel pass.
Scanned ==
    running_status = 0 =>
        \A i \in DOMAIN fstab :
            Wanted(fstab[i]) /\ (fpc = "scan" => Passed(i)) => Served(i)

ExactInv ==
    /\ FsckInv /\ MoreTypes /\ Queues /\ Counted /\ Children /\ Once /\ Work
    /\ Status /\ Scanned

LEMMA FstabFacts ==
  ASSUME fstab \in Fstabs
  PROVE  /\ Len(fstab) \in Nat /\ DOMAIN fstab = 1..Len(fstab)
         /\ \A i \in DOMAIN fstab :
             /\ fstab[i].name \in Names /\ fstab[i].disk \in Disks
             /\ fstab[i].pass \in 0..2 /\ fstab[i].there \in BOOLEAN
         /\ \A i, j \in DOMAIN fstab :
             fstab[i].name = fstab[j].name => fstab[i].disk = fstab[j].disk
  <1>1. fstab \in Seq({fstab[i] : i \in DOMAIN fstab})
    BY FsckAssumption, Zenon DEF FsckAssumption
  <1>2. \A i \in DOMAIN fstab : Entry(fstab[i])
    BY FsckAssumption, Zenon DEF FsckAssumption
  <1>3. \A i, j \in DOMAIN fstab :
          fstab[i].name = fstab[j].name => fstab[i].disk = fstab[j].disk
    BY FsckAssumption, Zenon DEF FsckAssumption
  <1>4. Len(fstab) \in Nat /\ DOMAIN fstab = 1..Len(fstab)
    BY <1>1
  <1>5. \A i \in DOMAIN fstab : fstab[i].name \in Names /\ fstab[i].disk \in Disks
    BY DEF Names, Disks
  <1> QED BY <1>2, <1>3, <1>4, <1>5, Zenon DEF Entry

LEMMA ExactInvInit == FsckInit => ExactInv
  <1> SUFFICES ASSUME FsckInit PROVE ExactInv
    BY Zenon
  <1>1. FsckInv
    BY Zenon, FsckInvInit
  <1>2. MoreTypes
    BY FsckAssumption DEF FsckAssumption, FsckInit, MoreTypes, FirstPass
  <1>3. \A d \in Disks : queue[d] = <<>> /\ dpid[d] = 0
    BY Zenon DEF FsckInit
  <1>4. Queues
    BY DEF FsckInit, Queues
  <1>5. Counted
    <2>1. Busy = {}
      BY Zenon, <1>3 DEF Busy
    <2> QED BY <2>1, FS_EmptySet DEF FsckInit, Counted
  <1>6. Children /\ Once /\ Work /\ Status
    BY <1>3 DEF FsckInit, Children, Once, Work, Status
  <1>7. Scanned
    <2> SUFFICES ASSUME NEW i \in DOMAIN fstab, Wanted(fstab[i]), Passed(i)
                 PROVE  FALSE
      BY Zenon DEF Scanned, FsckInit
    <2>1. /\ at = 1 /\ passno = FirstPass /\ requested_passno \in 0..2
          /\ i \in Nat /\ i >= 1 /\ fstab[i].pass \in 0..2
      BY <1>2, FstabFacts DEF FsckInit, MoreTypes
    <2> QED BY <2>1 DEF Passed, FirstPass, Wanted
  <1> QED BY Zenon, <1>1, <1>2, <1>4, <1>5, <1>6, <1>7 DEF ExactInv

\* Steps that touch no queue.
LEMMA SameQueues ==
  ASSUME ExactInv, UNCHANGED <<fstab, disklist, queue, ndisks>>,
         fpc' \in {"scan", "first"} => fpc \in {"scan", "first"}
  PROVE  Queues' /\ Counted' /\ Busy' = Busy /\ \A p : Queued(p)' = Queued(p)
  <1>1. Busy' = Busy /\ \A p : Queued(p)' = Queued(p)
    BY Zenon DEF Busy, Queued
  <1>2. Queues'
    BY DEF ExactInv, Queues
  <1>3. Counted'
    BY Zenon, <1>1 DEF ExactInv, Counted
  <1> QED BY Zenon, <1>1, <1>2, <1>3

\* Steps that start no check and wait for none.
LEMMA SameChildren ==
  ASSUME ExactInv, UNCHANGED <<fstab, preen, queue, dpid, kids, checks>>,
         \/ /\ UNCHANGED <<fpc, nextdisk, disklist, fscks_running, maximum_running>>
            /\ fpc = "again" => target' = target
         \/ fpc' \in {"report", "done"}
         \/ fpc = "scan" /\ fpc' = "first"
         \/ fpc = "first" /\ fpc' = "wait" /\ fscks_running = maximum_running
  PROVE  Children' /\ Once'
  <1>1. Busy' = Busy /\ \A p : OnlyLater(p)' = OnlyLater(p)
    BY Zenon DEF Busy, OnlyLater
  <1>2. Once'
    BY Zenon, <1>1 DEF ExactInv, Once
  <1>3. fpc = "scan" => \A d \in Disks : dpid[d] = 0
    BY Zenon DEF ExactInv, FsckInv, Places
  <1>3a. fscks_running \in Nat /\ maximum_running \in Nat /\ dpid \in [Disks -> Int]
    BY Zenon DEF ExactInv, FsckInv, FsckTypes
  <1>4. Children'
    BY <1>1, <1>3, <1>3a DEF ExactInv, Children
  <1> QED BY Zenon, <1>2, <1>4

-----------------------------------------------------------------------------
(* The exit status: build_disklist().                                      *)

\* An entry the scan leaves behind is served.
LEMMA ScanOnStep ==
  ASSUME ExactInv, Scanning, UNCHANGED <<fstab, preen, requested_passno, passno>>,
         at' = at + 1, fpc' = "scan", running_status = 0,
         \A i \in DOMAIN fstab : Served(i) => Served(i)',
         \A i \in DOMAIN fstab :
            i = at /\ Wanted(Cur) /\ (preen => passno = Cur.pass) => Served(i)'
  PROVE  Scanned'
  <1> SUFFICES ASSUME NEW i \in DOMAIN fstab, Wanted(fstab[i])', Passed(i)'
               PROVE  Served(i)'
    BY Zenon DEF Scanned
  <1>1. Wanted(fstab[i])
    BY Zenon DEF Wanted
  <1>2. /\ at \in Nat /\ passno \in 1..2 /\ i \in Nat /\ fstab[i].pass \in 0..2
        /\ fpc = "scan" /\ preen \in BOOLEAN
    BY FstabFacts DEF ExactInv, MoreTypes, FsckInv, FsckTypes, Scanning
  <1>3. Passed(i) \/ (i = at /\ (preen => passno = fstab[i].pass))
    BY <1>2 DEF Passed
  <1>4. CASE Passed(i)
    BY Zenon, <1>1, <1>2, <1>4 DEF ExactInv, Scanned
  <1>5. CASE i = at /\ (preen => passno = fstab[i].pass)
    BY Zenon, <1>1, <1>5 DEF Cur
  <1> QED BY Zenon, <1>3, <1>4, <1>5

LEMMA ScanSkipExact ==
  ASSUME ExactInv, ScanSkip, FsckInv' PROVE ExactInv'
  <1>1. /\ UNCHANGED <<fstab, preen, requested_passno, fpc, passno, disklist, queue,
                       dpid, fscks_running, kids, forks, checks, ndisks,
                       maximum_running, nextdisk, target, running_status, failed>>
        /\ Scanning /\ at' = at + 1 /\ fpc = "scan"
        /\ IF CheckedNow THEN Unasked ELSE ~CheckedLater
    BY Zenon DEF ScanSkip, fsckInput, fsckLists, fsckRun, fsckBad, Scanning
  <1>2. MoreTypes'
    BY <1>1 DEF ExactInv, MoreTypes
  <1>3. Queues' /\ Counted'
    BY Zenon, <1>1, SameQueues
  <1>4. Children' /\ Once'
    BY Zenon, <1>1, SameChildren
  <1>5. Work' /\ Status'
    BY Zenon, <1>1 DEF ExactInv, Work, Status
  <1>6. ~(Wanted(Cur) /\ (preen => passno = Cur.pass))
    <2>1. /\ passno \in 1..2 /\ Cur.pass \in 0..2 /\ preen \in BOOLEAN
      BY Zenon, <1>1, FstabFacts DEF ExactInv, MoreTypes, FsckInv, FsckTypes, Scanning, Cur
    <2> QED BY <1>1, <2>1 DEF Wanted, CheckedNow, CheckedLater, Unasked
  <1>7. \A i \in DOMAIN fstab : Served(i) => Served(i)'
    BY Zenon, <1>1 DEF Served, Queued
  <1>8. Scanned'
    <2>1. CASE running_status = 0
      BY Zenon, <1>1, <1>6, <1>7, <2>1, ScanOnStep
    <2>2. CASE running_status # 0
      BY Zenon, <1>1, <2>2 DEF Scanned
    <2> QED BY Zenon, <2>1, <2>2
  <1> QED BY Zenon, <1>2, <1>3, <1>4, <1>5, <1>8 DEF ExactInv

LEMMA ScanBadNameExact ==
  ASSUME ExactInv, ScanBadName, FsckInv' PROVE ExactInv'
  <1>1. /\ UNCHANGED <<fstab, preen, requested_passno, fpc, passno, disklist, queue,
                       dpid, fscks_running, kids, forks, checks, ndisks,
                       maximum_running, nextdisk, target, failed>>
        /\ at' = at + 1 /\ fpc = "scan" /\ running_status' = 8
        /\ at \in DOMAIN fstab /\ ~fstab[at].there
    BY Zenon DEF ScanBadName, fsckInput, fsckLists, fsckRun, fsckBad, Scanning, Cur
  <1>2. MoreTypes'
    BY <1>1 DEF ExactInv, MoreTypes
  <1>3. Queues' /\ Counted'
    BY Zenon, <1>1, SameQueues
  <1>4. Children' /\ Once'
    BY Zenon, <1>1, SameChildren
  <1>5. Work' /\ Status' /\ Scanned'
    BY <1>1 DEF ExactInv, Work, Status, Scanned
  <1> QED BY Zenon, <1>2, <1>3, <1>4, <1>5 DEF ExactInv

LEMMA ScanAgainExact ==
  ASSUME ExactInv, ScanAgain, FsckInv' PROVE ExactInv'
  <1>1. /\ UNCHANGED <<fstab, preen, requested_passno, fpc, disklist, queue,
                       dpid, fscks_running, kids, forks, checks, ndisks,
                       maximum_running, nextdisk, target, running_status, failed>>
        /\ passno' = passno + 1 /\ at' = 1 /\ fpc = "scan" /\ preen
        /\ at = Len(fstab) + 1 /\ passno < LastPass
    BY Zenon DEF ScanAgain, fsckInput, fsckLists, fsckRun, fsckBad
  <1>2. passno = 1 /\ passno' = 2 /\ MoreTypes'
    BY <1>1 DEF ExactInv, MoreTypes, LastPass
  <1>3. Queues' /\ Counted'
    BY Zenon, <1>1, SameQueues
  <1>4. Children' /\ Once'
    BY Zenon, <1>1, SameChildren
  <1>5. Work' /\ Status'
    BY Zenon, <1>1 DEF ExactInv, Work, Status
  <1>6. Scanned'
    <2> SUFFICES ASSUME NEW i \in DOMAIN fstab, running_status = 0,
                        Wanted(fstab[i])', Passed(i)'
                 PROVE  Served(i)'
      BY Zenon, <1>1 DEF Scanned
    <2>1. i \in 1..Len(fstab) /\ fstab[i].pass \in 0..2 /\ Wanted(fstab[i])
      BY Zenon, <1>1, FstabFacts DEF ExactInv, FsckInv, FsckTypes, Wanted
    <2>2. Passed(i)
      BY <1>1, <1>2, <2>1 DEF Passed, Wanted
    <2>3. Served(i)
      BY Zenon, <1>1, <2>1, <2>2 DEF ExactInv, Scanned
    <2> QED BY Zenon, <1>1, <2>3 DEF Served, Queued
  <1> QED BY Zenon, <1>2, <1>3, <1>4, <1>5, <1>6 DEF ExactInv

LEMMA ScanEndExact ==
  ASSUME ExactInv, ScanEnd, FsckInv' PROVE ExactInv'
  <1>1. /\ UNCHANGED <<fstab, preen, requested_passno, passno, at, disklist, queue,
                       dpid, fscks_running, kids, forks, checks, ndisks, target,
                       failed>>
        /\ fpc = "scan" /\ at = Len(fstab) + 1 /\ (~preen \/ passno = LastPass)
    BY Zenon DEF ScanEnd, fsckInput, fsckScan, fsckLists, fsckRun, fsckBad
  <1>2. \/ /\ fpc' = "done"
           /\ running_status' = IF returntosingle THEN 2 ELSE running_status
           /\ running_status = 0 => ~preen
        \/ /\ fpc' = "first" /\ UNCHANGED running_status
           /\ maximum_running' = IF maximum_running = 0 \/ maximum_running > ndisks
                                 THEN ndisks ELSE maximum_running
    BY Zenon DEF ScanEnd, Exit
  <1>3. kids = {} /\ fscks_running = 0
    BY Zenon, <1>1, FS_EmptySet DEF ExactInv, FsckInv, Counts, Places
  <1>4. MoreTypes'
    BY Zenon, <1>1 DEF ExactInv, MoreTypes
  <1>5. Queues' /\ Counted'
    BY Zenon, <1>1, <1>2, SameQueues
  <1>6. Children' /\ Once'
    BY Zenon, <1>1, <1>2, SameChildren
  <1>7. Work'
    BY SMTT(30), <1>1, <1>2, <1>3 DEF ExactInv, FsckInv, FsckTypes, Work
  <1>8. Status'
    BY <1>1, <1>2, <1>3 DEF ExactInv, Status
  <1>9. Scanned'
    <2> SUFFICES ASSUME NEW i \in DOMAIN fstab, running_status = 0, Wanted(fstab[i])'
                 PROVE  Served(i)'
      BY <1>1, <1>2 DEF Scanned
    <2>1. /\ i \in 1..Len(fstab) /\ Len(fstab) \in Nat /\ fstab[i].pass \in 0..2
          /\ passno \in 1..2 /\ requested_passno \in 0..2
      BY Zenon, FstabFacts DEF ExactInv, FsckInv, FsckTypes, MoreTypes
    <2>2. Wanted(fstab[i])
      BY Zenon, <1>1 DEF Wanted
    <2>3. Passed(i)
      BY <1>1, <2>1, <2>2 DEF Passed, Wanted, LastPass
    <2>4. Served(i)
      BY Zenon, <1>1, <2>2, <2>3 DEF ExactInv, Scanned
    <2> QED BY Zenon, <1>1, <2>4 DEF Served, Queued
  <1> QED BY Zenon, <1>4, <1>5, <1>6, <1>7, <1>8, <1>9 DEF ExactInv

\* checkfilesys() from the scan: with -p only for the first pass.
LEMMA ScanCheckExact ==
  ASSUME ExactInv, ScanCheck, FsckInv' PROVE ExactInv'
  <1> PICK st \in Statuses :
        /\ ~Cur.there => st = 8
        /\ IF st = 0 THEN at' = at + 1 /\ UNCHANGED <<fpc, running_status>>
                     ELSE Exit(st) /\ UNCHANGED at
        /\ failed' = IF st = 0 THEN failed ELSE failed \cup {Cur.name}
    BY Zenon DEF ScanCheck
  <1>1. /\ UNCHANGED <<fstab, preen, requested_passno, passno, disklist, queue,
                       dpid, fscks_running, kids, forks, ndisks, maximum_running,
                       nextdisk, target>>
        /\ Scanning /\ fpc = "scan" /\ at \in DOMAIN fstab /\ CheckedNow /\ ~Unasked
        /\ checks' = [checks EXCEPT ![Cur.name] = @ + (IF Cur.there THEN 1 ELSE 0)]
    BY Zenon DEF ScanCheck, fsckInput, fsckLists, Scanning
  <1>2. /\ Cur.name \in Names /\ Cur.pass \in 0..2 /\ Cur.there \in BOOLEAN
        /\ checks \in [Names -> Nat] /\ at \in Nat /\ preen \in BOOLEAN
    BY Zenon, <1>1, FstabFacts DEF ExactInv, FsckInv, FsckTypes, MoreTypes, Cur
  <1>3. /\ checks' \in [Names -> Nat]
        /\ \A p \in Names : p # Cur.name => checks'[p] = checks[p]
        /\ \A p \in Names : checks'[p] >= checks[p]
        /\ Cur.there => checks'[Cur.name] >= 1
    BY <1>1, <1>2
  <1>4. st = 0 \/ st = 8
    BY Zenon DEF Statuses
  <1>5. \/ st = 0 /\ fpc' = "scan" /\ at' = at + 1 /\ UNCHANGED <<running_status, failed>>
        \/ /\ st = 8 /\ fpc' = "done" /\ at' = at /\ running_status' \in {2, 8}
           /\ failed' # {}
    BY Zenon, <1>1, <1>4 DEF Exit
  <1>6. MoreTypes'
    BY <1>1, <1>2, <1>3, <1>5 DEF ExactInv, MoreTypes
  <1>7. Queues' /\ Counted'
    BY Zenon, <1>1, <1>5, SameQueues
  <1>8. kids = {} /\ \A d \in Disks : dpid[d] = 0
    BY Zenon, <1>1 DEF ExactInv, FsckInv, Places
  <1>9. Children'
    BY <1>1, <1>8 DEF Children
  <1>10. Once'
    <2> SUFFICES ASSUME preen, NEW p \in Names, OnlyLater(p)' PROVE checks'[p] = 0
      BY <1>1 DEF Once
    <2>1. OnlyLater(p)
      BY Zenon, <1>1 DEF OnlyLater
    <2>2. p # Cur.name
      BY Zenon, <1>1, <2>1 DEF OnlyLater, CheckedNow, Cur
    <2>3. checks[p] = 0
      BY Zenon, <1>1, <2>1 DEF ExactInv, Once
    <2> QED BY Zenon, <1>3, <2>2, <2>3
  <1>11. Work' /\ Status'
    BY Zenon, <1>1, <1>5 DEF ExactInv, Work, Status
  <1>12. \A i \in DOMAIN fstab : Served(i) => Served(i)'
    <2> SUFFICES ASSUME NEW i \in DOMAIN fstab, Served(i) PROVE Served(i)'
      BY Zenon
    <2>1. fstab[i].name \in Names
      BY Zenon, FstabFacts DEF ExactInv, FsckInv, FsckTypes
    <2>2. Queued(fstab[i].name) => Queued(fstab[i].name)'
      BY Zenon, <1>1 DEF Queued
    <2> QED BY <1>1, <1>2, <1>3, <2>1, <2>2 DEF Served
  <1>13. Scanned'
    <2>1. CASE st = 0 /\ running_status = 0
      <3>1. \A i \in DOMAIN fstab : i = at => Served(i)'
        BY <1>1, <1>3, <2>1 DEF Served, Cur
      <3> QED BY Zenon, <1>1, <1>5, <1>12, <2>1, <3>1, ScanOnStep
    <2>2. CASE ~(st = 0 /\ running_status = 0)
      BY Zenon, <1>5, <2>2 DEF Scanned
    <2> QED BY Zenon, <2>1, <2>2
  <1> QED BY Zenon, <1>6, <1>7, <1>9, <1>10, <1>11, <1>13 DEF ExactInv

\* addpart(): the partition joins the queue of its disk, once.
LEMMA AddPart ==
  ASSUME ExactInv, ScanAdd
  PROVE  /\ Queues' /\ Cur.disk \in Disks /\ Busy' = Busy \cup {Cur.disk}
         /\ \A p : Queued(p) \/ p = Cur.name => Queued(p)'
  <1> DEFINE d == Cur.disk
             name == Cur.name
             twice == \E i \in DOMAIN queue[d] : queue[d][i] = name
  <1>1. /\ at \in DOMAIN fstab /\ UNCHANGED fstab
        /\ queue' = IF twice THEN queue ELSE [queue EXCEPT ![d] = Append(@, name)]
    BY Zenon DEF ScanAdd, Scanning, fsckInput
  <1>2. d \in Disks /\ name \in Names /\ d = fstab[at].disk /\ name = fstab[at].name
    BY Zenon, <1>1, FstabFacts DEF ExactInv, FsckInv, FsckTypes, Cur
  <1> HIDE DEF d, name
  <1>3. /\ queue \in [Disks -> Seq(Names)]
        /\ \A b, c \in Disks : \A i \in DOMAIN queue[b], j \in DOMAIN queue[c] :
             queue[b][i] = queue[c][j] => b = c /\ i = j
        /\ \A b \in Disks : \A i \in DOMAIN queue[b] :
             \E n \in DOMAIN fstab : fstab[n].name = queue[b][i] /\ fstab[n].disk = b
    BY Zenon DEF ExactInv, Queues
  <1>4. CASE twice
    <2>1. queue' = queue /\ d \in Busy
      BY SMTT(30), <1>1, <1>2, <1>3, <1>4 DEF Busy
    <2>2. Queues' /\ Busy' = Busy
      BY <1>1, <2>1 DEF ExactInv, Queues, Busy
    <2>3. \A p : Queued(p) \/ p = name => Queued(p)'
      BY Zenon, <1>2, <1>4, <2>1 DEF Queued
    <2> QED BY Zenon, <1>2, <2>1, <2>2, <2>3 DEF d, name
  <1>5. CASE ~twice
    <2>1. /\ queue' = [queue EXCEPT ![d] = Append(queue[d], name)]
          /\ queue'[d] = Append(queue[d], name)
          /\ \A b \in Disks : b # d => queue'[b] = queue[b]
      BY ZenonT(30), <1>1, <1>2, <1>3, <1>5
    <2>2. /\ queue[d] \in Seq(Names) /\ queue'[d] \in Seq(Names) /\ queue'[d] # <<>>
          /\ DOMAIN queue[d] = 1..Len(queue[d])
          /\ DOMAIN queue'[d] = 1..(Len(queue[d]) + 1) /\ Len(queue[d]) \in Nat
          /\ queue'[d][Len(queue[d]) + 1] = name
          /\ \A i \in DOMAIN queue[d] : queue'[d][i] = queue[d][i]
      BY SMTT(30), <1>2, <1>3, <2>1
    <2>3. \A b \in Disks : \A i \in DOMAIN queue[b] : queue[b][i] # name
      <3> SUFFICES ASSUME NEW b \in Disks, NEW i \in DOMAIN queue[b],
                          queue[b][i] = name
                   PROVE  FALSE
        BY Zenon
      <3>1. b = d
        <4>1. PICK n \in DOMAIN fstab : fstab[n].name = name /\ fstab[n].disk = b
          BY <1>3
        <4>2. fstab \in Fstabs
          BY Zenon DEF ExactInv, FsckInv, FsckTypes
        <4> QED BY <1>1, <1>2, <4>1, <4>2, FstabFacts, Zenon
      <3> QED BY Zenon, <1>5, <3>1
    <2>4. \A b \in Disks : \A i \in DOMAIN queue'[b] :
            \/ i \in DOMAIN queue[b] /\ queue'[b][i] = queue[b][i]
            \/ b = d /\ i = Len(queue[d]) + 1 /\ queue'[b][i] = name
      BY <2>1, <2>2
    <2>5. queue' \in [Disks -> Seq(Names)]
      BY Zenon, <1>2, <1>3, <2>1, <2>2
    <2>6. \A b, c \in Disks : \A i \in DOMAIN queue'[b], j \in DOMAIN queue'[c] :
            queue'[b][i] = queue'[c][j] => b = c /\ i = j
      BY SMTT(30), <1>3, <2>3, <2>4
    <2>7. \A b \in Disks : \A i \in DOMAIN queue'[b] :
            \E n \in DOMAIN fstab : fstab[n].name = queue'[b][i] /\ fstab[n].disk = b
      BY SMTT(30), <1>1, <1>2, <1>3, <2>4
    <2>8. Queues'
      BY <1>1, <2>5, <2>6, <2>7 DEF Queues
    <2>9. Busy' = Busy \cup {d}
      BY Zenon, <1>2, <2>1, <2>2 DEF Busy
    <2>10. \A p : Queued(p) \/ p = name => Queued(p)'
      <3> SUFFICES ASSUME NEW p, Queued(p) \/ p = name PROVE Queued(p)'
        BY Zenon
      <3>1. CASE p = name
        BY <1>2, <2>2, <3>1 DEF Queued
      <3>2. CASE Queued(p)
        <4> PICK b \in Disks : \E i \in DOMAIN queue[b] : queue[b][i] = p
          BY Zenon, <3>2 DEF Queued
        <4> PICK j \in DOMAIN queue[b] : queue[b][j] = p
          BY Zenon
        <4>1. j \in DOMAIN queue'[b] /\ queue'[b][j] = p
          BY <2>1, <2>2
        <4> QED BY Zenon, <4>1 DEF Queued
      <3> QED BY Zenon, <3>1, <3>2
    <2> QED BY Zenon, <1>2, <2>8, <2>9, <2>10 DEF d, name
  <1> QED BY Zenon, <1>4, <1>5

LEMMA ScanAddExact ==
  ASSUME ExactInv, ScanAdd, FsckInv' PROVE ExactInv'
  <1> DEFINE d == Cur.disk
             known == \E i \in DOMAIN disklist : disklist[i] = d
  <1>1. /\ UNCHANGED <<fstab, preen, requested_passno, fpc, passno, dpid,
                       fscks_running, kids, forks, checks, maximum_running,
                       nextdisk, target, running_status, failed>>
        /\ Scanning /\ fpc = "scan" /\ at \in DOMAIN fstab /\ at' = at + 1
        /\ CheckedLater /\ Cur.there
        /\ disklist' = IF known THEN disklist ELSE Append(disklist, d)
        /\ ndisks' = IF known THEN ndisks ELSE ndisks + 1
    BY Zenon DEF ScanAdd, Scanning, fsckInput, fsckRun, fsckBad
  <1>2. /\ Queues' /\ d \in Disks /\ Busy' = Busy \cup {d}
        /\ \A p : Queued(p) \/ p = Cur.name => Queued(p)'
    BY Zenon, AddPart
  <1> HIDE DEF d
  <1>3. MoreTypes'
    BY <1>1 DEF ExactInv, MoreTypes
  <1>4. Counted'
    <2>1. /\ IsFiniteSet(Busy) /\ Cardinality(Busy) = ndisks /\ disklist \in Seq(Disks)
          /\ \A e \in Busy : \E i \in DOMAIN disklist : disklist[i] = e
          /\ \A i \in DOMAIN disklist : disklist[i] \in Busy
      BY Zenon, <1>1 DEF ExactInv, Counted, FsckInv, FsckTypes
    <2>2. CASE known
      <3>1. Busy' = Busy
        BY Zenon, <1>2, <2>1, <2>2
      <3> QED BY Zenon, <1>1, <2>1, <2>2, <3>1 DEF Counted
    <2>3. CASE ~known
      <3>1. d \notin Busy
        BY Zenon, <2>1, <2>3
      <3>2. IsFiniteSet(Busy') /\ Cardinality(Busy') = ndisks'
        BY Zenon, <1>1, <1>2, <2>1, <2>3, <3>1, FS_AddElement
      <3>3. /\ disklist' = Append(disklist, d) /\ Len(disklist) \in Nat
            /\ DOMAIN disklist = 1..Len(disklist)
            /\ DOMAIN disklist' = 1..(Len(disklist) + 1)
            /\ disklist'[Len(disklist) + 1] = d
            /\ \A i \in DOMAIN disklist : disklist'[i] = disklist[i]
        BY <1>1, <1>2, <2>1, <2>3
      <3>4. \A e \in Busy' : \E i \in DOMAIN disklist' : disklist'[i] = e
        BY <1>2, <2>1, <3>3
      <3>5. \A i \in DOMAIN disklist' : disklist'[i] \in Busy'
        BY <1>2, <2>1, <3>3
      <3> QED BY Zenon, <3>2, <3>4, <3>5 DEF Counted
    <2> QED BY Zenon, <2>2, <2>3
  <1>5. kids = {} /\ \A e \in Disks : dpid[e] = 0
    BY Zenon, <1>1 DEF ExactInv, FsckInv, Places
  <1>6. Children'
    BY <1>1, <1>5 DEF Children
  <1>7. Once'
    <2>1. \A p : OnlyLater(p)' = OnlyLater(p)
      BY Zenon, <1>1 DEF OnlyLater
    <2> QED BY Zenon, <1>1, <2>1 DEF ExactInv, Once
  <1>8. Work' /\ Status'
    BY Zenon, <1>1 DEF ExactInv, Work, Status
  <1>9. \A i \in DOMAIN fstab : Served(i) => Served(i)'
    BY Zenon, <1>1, <1>2 DEF Served
  <1>10. \A i \in DOMAIN fstab : i = at => Served(i)'
    <2>1. preen
      BY <1>1, FstabFacts
      DEF ExactInv, FsckInv, FsckTypes, MoreTypes, CheckedLater, CheckedNow, Cur
    <2> QED BY Zenon, <1>1, <1>2, <2>1 DEF Served, Cur
  <1>11. Scanned'
    <2>1. CASE running_status = 0
      BY Zenon, <1>1, <1>9, <1>10, <2>1, ScanOnStep
    <2>2. CASE running_status # 0
      BY Zenon, <1>1, <2>2 DEF Scanned
    <2> QED BY Zenon, <2>1, <2>2
  <1> QED BY Zenon, <1>2, <1>3, <1>4, <1>6, <1>7, <1>8, <1>11 DEF ExactInv

-----------------------------------------------------------------------------
(* The exit status: do_diskchecks() and its end.                           *)

\* Once the scan is over, what has been served stays so.
LEMMA StillScanned ==
  ASSUME ExactInv, UNCHANGED <<fstab, preen, requested_passno>>,
         running_status' = 0 => running_status = 0 /\ fpc # "scan",
         \A i \in DOMAIN fstab : Served(i) => Served(i)'
  PROVE  Scanned'
  <1> SUFFICES ASSUME NEW i \in DOMAIN fstab, running_status' = 0, Wanted(fstab[i])'
               PROVE  Served(i)'
    BY Zenon DEF Scanned
  <1>1. Wanted(fstab[i])
    BY Zenon DEF Wanted
  <1> QED BY Zenon, <1>1 DEF ExactInv, Scanned

LEMMA SameServed ==
  ASSUME UNCHANGED <<fstab, preen, queue, checks>>
  PROVE  \A i \in DOMAIN fstab : Served(i) => Served(i)'
  BY Zenon DEF Served, Queued

LEMMA FirstDoneExact ==
  ASSUME ExactInv, FirstDone, FsckInv' PROVE ExactInv'
  <1>1. /\ UNCHANGED <<fstab, preen, requested_passno, passno, at, disklist, queue,
                       dpid, fscks_running, kids, forks, checks, ndisks,
                       maximum_running, nextdisk, target, running_status, failed>>
        /\ fpc = "first" /\ fpc' = "wait" /\ fscks_running = maximum_running
    BY Zenon DEF FirstDone, fsckInput, fsckScan, fsckLists, fsckRun, fsckBad
  <1>2. MoreTypes' /\ Status'
    BY Zenon, <1>1 DEF ExactInv, MoreTypes, Status
  <1>3. Queues' /\ Counted' /\ Busy' = Busy
    BY Zenon, <1>1, SameQueues
  <1>4. Children' /\ Once'
    BY Zenon, <1>1, SameChildren
  <1>5. Work'
    <2>1. /\ fscks_running \in Nat /\ disklist \in Seq(Disks)
          /\ nextdisk = IF fscks_running = Len(disklist) THEN 0 ELSE fscks_running + 1
          /\ \A i \in DOMAIN disklist : i <= fscks_running => dpid[disklist[i]] > 0
          /\ \A d \in Busy : \E i \in DOMAIN disklist : disklist[i] = d
          /\ maximum_running = 0 => ndisks = 0
      BY Zenon, <1>1 DEF ExactInv, Work, Counted, FsckInv, FsckTypes, Places
    <2>2. nextdisk = 0 => \A d \in Busy : dpid[d] > 0
      <3>1. nextdisk = 0 => \A i \in DOMAIN disklist : i <= fscks_running
        BY <2>1
      <3> QED BY Zenon, <2>1, <3>1
    <2>3. fscks_running >= maximum_running
      BY <1>1, <2>1
    <2> QED BY Zenon, <1>1, <1>3, <2>1, <2>2, <2>3 DEF Work
  <1>6. Scanned'
    BY Zenon, <1>1, SameServed, StillScanned
  <1> QED BY Zenon, <1>2, <1>3, <1>4, <1>5, <1>6 DEF ExactInv

\* When wait() finds no child, no disk has a partition left.
LEMMA NoneForgotten ==
  ASSUME ExactInv, fpc = "wait", kids = {}
  PROVE  \A d \in Disks : queue[d] = <<>>
  <1>1. fscks_running = 0 /\ maximum_running \in Nat /\ ndisks \in Int
    BY Zenon, FS_EmptySet DEF ExactInv, FsckInv, Counts, FsckTypes
  <1>2. IsFiniteSet(Busy) /\ Cardinality(Busy) = ndisks /\ Cardinality(Busy) \in Nat
    BY Zenon, FS_CardinalityType DEF ExactInv, Counted
  <1>3. CASE nextdisk = 0
    <2>1. \A d \in Busy : dpid[d] > 0
      BY Zenon, <1>3 DEF ExactInv, Work
    <2> QED BY Zenon, <2>1 DEF ExactInv, Children, Busy
  <1>4. CASE nextdisk # 0
    <2>1. ndisks = 0
      BY <1>1, <1>2, <1>4 DEF ExactInv, Work
    <2>2. Busy = {}
      BY Zenon, <1>2, <2>1, FS_EmptySet
    <2> QED BY Zenon, <2>2 DEF Busy
  <1> QED BY Zenon, <1>3, <1>4

\* The search and the loops are over: the status that is left holds.
LEMMA OverExact ==
  ASSUME ExactInv, FsckInv',
         UNCHANGED <<fstab, preen, requested_passno, passno, at, disklist, queue,
                     dpid, kids, checks, ndisks, failed>>,
         fpc' \in {"report", "done"}, Status',
         running_status' = 0 => running_status = 0 /\ fpc # "scan"
  PROVE  ExactInv'
  <1>1. MoreTypes'
    BY Zenon DEF ExactInv, MoreTypes
  <1>2. Queues' /\ Counted'
    BY Zenon, SameQueues
  <1>3. Children' /\ Once'
    BY Zenon, SameChildren
  <1>4. Work'
    BY Zenon DEF Work
  <1>5. Scanned'
    BY Zenon, SameServed, StillScanned
  <1> QED BY Zenon, <1>1, <1>2, <1>3, <1>4, <1>5 DEF ExactInv

LEMMA NoChildrenExact ==
  ASSUME ExactInv, NoChildren, FsckInv' PROVE ExactInv'
  <1>1. /\ UNCHANGED <<fstab, preen, requested_passno, passno, at, disklist, queue,
                       dpid, kids, checks, ndisks, failed>>
        /\ fpc = "wait" /\ kids = {}
        /\ \/ fpc' = "report" /\ running_status' = running_status /\ running_status # 0
           \/ fpc' = "done" /\ running_status' \in {running_status, 2}
    BY Zenon DEF NoChildren, Return, Exit, fsckInput, fsckScan, fsckLists, fsckRun, fsckBad
  <1>2. \A d \in Disks : queue[d] = <<>>
    BY Zenon, <1>1, NoneForgotten
  <1>3. Status'
    BY <1>1, <1>2 DEF ExactInv, Status
  <1> QED BY <1>1, <1>3, OverExact

LEMMA ReportExact ==
  ASSUME ExactInv, Report \/ Interrupt, FsckInv' PROVE ExactInv'
  <1>1. /\ UNCHANGED <<fstab, preen, requested_passno, passno, at, disklist, queue,
                       dpid, kids, checks, ndisks, failed>>
        /\ \/ /\ fpc = "report" /\ fpc' = "report" /\ running_status' = running_status
           \/ /\ fpc = "report" /\ fpc' = "done"
              /\ running_status' \in {running_status, 2}
           \/ fpc' = "done" /\ running_status' = 12
    BY ZenonT(30) DEF Report, Interrupt, Exit, fsckInput, fsckScan, fsckLists, fsckRun, fsckBad
  <1>2. Status' /\ running_status' # 0
    BY <1>1 DEF ExactInv, Status
  <1> QED BY Zenon, <1>1, <1>2, OverExact

\* catchquit(), or no step at all.
LEMMA QuitExact ==
  ASSUME ExactInv, FsckInv',
         UNCHANGED <<fstab, preen, requested_passno, passno, at, disklist, queue,
                     dpid, fscks_running, kids, checks, ndisks, maximum_running,
                     nextdisk, target, running_status, failed, fpc>>
  PROVE  ExactInv'
  <1>1. MoreTypes' /\ Status'
    BY Zenon DEF ExactInv, MoreTypes, Status
  <1>2. Queues' /\ Counted' /\ Busy' = Busy
    BY Zenon, SameQueues
  <1>3. Children' /\ Once'
    BY Zenon, SameChildren
  <1>4. Work'
    BY Zenon, <1>2 DEF ExactInv, Work
  <1>5. Scanned'
    BY Zenon DEF ExactInv, Scanned, Served, Queued, Wanted, Passed
  <1> QED BY Zenon, <1>1, <1>2, <1>3, <1>4, <1>5 DEF ExactInv

\* A child ends: it keeps its disk and partition.
LEMMA ChildEndsExact ==
  ASSUME ExactInv, NEW k \in kids, ChildEnds(k), FsckInv' PROVE ExactInv'
  <1> PICK st \in Statuses : kids' = (kids \ {k}) \cup {[k EXCEPT !.st = st]}
    BY Zenon DEF ChildEnds
  <1> DEFINE new == [k EXCEPT !.st = st]
  <1>0. kids' = (kids \ {k}) \cup {new}
    BY Zenon
  <1>1. new.disk = k.disk /\ new.part = k.part
    BY DEF ExactInv, FsckInv, Kids, IsKid
  <1> HIDE DEF new
  <1>2. UNCHANGED <<fstab, preen, requested_passno, passno, at, disklist, queue,
                    dpid, fscks_running, checks, ndisks, maximum_running,
                    nextdisk, target, running_status, failed, fpc>>
    BY Zenon DEF ChildEnds, fsckInput, fsckScan, fsckLists, fsckBad
  <1>3. MoreTypes'
    BY Zenon, <1>2 DEF ExactInv, MoreTypes
  <1>4. Queues' /\ Counted' /\ Busy' = Busy
    BY Zenon, <1>2, SameQueues
  <1>5. Children'
    <2>1. \A l \in kids' : /\ l.disk \in Busy /\ l.part = Head(queue[l.disk])
                           /\ checks[l.part] >= 1
      BY <1>0, <1>1 DEF ExactInv, Children
    <2>2. \A d \in Disks : dpid[d] > 0 => \E l \in kids' : l.disk = d
      BY Zenon, <1>0, <1>1 DEF ExactInv, Children
    <2> QED BY Zenon, <1>2, <1>4, <2>1, <2>2 DEF ExactInv, Children
  <1>6. Once' /\ Work'
    BY Zenon, <1>2, <1>4 DEF ExactInv, Once, OnlyLater, Work
  <1>7. Status'
    BY Zenon, <1>2 DEF ExactInv, Status
  <1>8. Scanned'
    BY Zenon, <1>2 DEF ExactInv, Scanned, Served, Queued, Wanted, Passed
  <1> QED BY Zenon, <1>3, <1>4, <1>5, <1>6, <1>7, <1>8 DEF ExactInv

\* startdiskcheck() for a disk that has partitions left and no child.
LEMMA ForkExact ==
  ASSUME ExactInv, NEW d \in Busy, dpid[d] <= 0, Fork(d), fpc \in {"first", "again"},
         d = (IF fpc = "first" THEN disklist[nextdisk] ELSE target),
         UNCHANGED <<fstab, preen, queue>>, fpc' # "scan"
  PROVE  /\ Children' /\ Once' /\ checks' \in [Names -> Nat] /\ dpid'[d] > 0
         /\ \A e \in Disks : e # d => dpid'[e] = dpid[e]
         /\ \A i \in DOMAIN fstab : Served(i) => Served(i)'
  <1> DEFINE p0 == Head(queue[d])
             k0 == [pid |-> forks + 1, disk |-> d, part |-> p0, st |-> RUNS]
  <1>1. /\ kids' = kids \cup {k0} /\ checks' = [checks EXCEPT ![p0] = @ + 1]
        /\ dpid' = [dpid EXCEPT ![d] = forks + 1]
    BY Zenon DEF Fork
  <1>2. k0.disk = d /\ k0.part = p0
    BY ZenonT(30)
  <1> HIDE DEF k0
  <1>3. /\ d \in Disks /\ queue[d] \in Seq(Names) /\ queue[d] # <<>>
        /\ dpid \in [Disks -> Int] /\ forks \in Nat /\ checks \in [Names -> Nat]
        /\ Busy' = Busy
    BY Zenon DEF Busy, ExactInv, FsckInv, FsckTypes, Queues, MoreTypes
  <1>4. p0 \in Names /\ p0 = queue[d][1] /\ 1 \in DOMAIN queue[d]
    BY <1>3
  <1> HIDE DEF p0
  <1>5. /\ dpid'[d] = forks + 1 /\ dpid'[d] > 0
        /\ \A e \in Disks : e # d => dpid'[e] = dpid[e]
    BY SMTT(30), <1>1, <1>3
  <1>6. /\ checks' \in [Names -> Nat] /\ checks'[p0] = checks[p0] + 1
        /\ \A p \in Names : p # p0 => checks'[p] = checks[p]
        /\ \A p \in Names : checks'[p] >= checks[p]
    BY SMTT(30), <1>1, <1>3, <1>4
  <1>7. Children'
    <2>1. \A k \in kids' : /\ k.disk \in Busy' /\ k.part = Head(queue'[k.disk])
                           /\ checks'[k.part] >= 1
      <3> SUFFICES ASSUME NEW k \in kids'
                   PROVE  /\ k.disk \in Busy /\ k.part = Head(queue[k.disk])
                          /\ checks'[k.part] >= 1
        BY Zenon, <1>3
      <3>1. CASE k = k0
        BY SMTT(30), <1>2, <1>3, <1>4, <1>6, <3>1 DEF p0
      <3>2. CASE k \in kids
        <4>1. /\ k.disk \in Busy /\ k.part = Head(queue[k.disk])
              /\ checks[k.part] >= 1
          BY Zenon, <3>2 DEF ExactInv, Children
        <4>2. k.part \in Names
          BY <4>1 DEF Busy, ExactInv, Queues
        <4> QED BY <1>3, <1>6, <4>1, <4>2
      <3> QED BY Zenon, <1>1, <3>1, <3>2
    <2>2. \A e \in Disks : dpid'[e] > 0 => \E k \in kids' : k.disk = e
      BY Zenon, <1>1, <1>2, <1>5 DEF ExactInv, Children
    <2>3. \A e \in Disks : dpid'[e] >= 0
      <3> SUFFICES ASSUME NEW e \in Disks, e # d PROVE dpid[e] >= 0
        BY <1>3, <1>5
      <3> QED BY <1>3 DEF ExactInv, Children
    <2>4. \A e \in Disks : dpid'[e] \in Int
      BY <1>3, <1>5
    <2> QED BY <2>1, <2>2, <2>3, <2>4 DEF Children
  <1>8. Once'
    <2> SUFFICES ASSUME preen, NEW p \in Names, OnlyLater(p)
                 PROVE  /\ checks'[p] <= 1
                        /\ \A e \in Disks : \A i \in DOMAIN queue[e] :
                             queue[e][i] = p /\ (i # 1 \/ dpid'[e] <= 0)
                             => checks'[p] = 0
      BY Zenon DEF Once, OnlyLater
    <2>1. /\ checks[p] <= 1
          /\ \A e \in Disks : \A i \in DOMAIN queue[e] :
               queue[e][i] = p /\ (i # 1 \/ dpid[e] <= 0) => checks[p] = 0
      BY Zenon DEF ExactInv, Once
    <2>2. CASE p = p0
      <3>1. checks[p] = 0
        BY ZenonT(30), <1>3, <1>4, <2>1, <2>2
      <3>2. \A e \in Disks : \A i \in DOMAIN queue[e] :
              queue[e][i] = p => e = d /\ i = 1
        BY SMTT(30), <1>3, <1>4, <2>2 DEF ExactInv, Queues
      <3> QED BY <1>3, <1>5, <1>6, <2>2, <3>1, <3>2
    <2>3. CASE p # p0
      <3>1. checks'[p] = checks[p]
        BY ZenonT(30), <1>6, <2>3
      <3> QED BY ZenonT(30), <1>3, <1>5, <2>1, <3>1
    <2> QED BY Zenon, <2>2, <2>3
  <1>9. \A i \in DOMAIN fstab : Served(i) => Served(i)'
    <2> SUFFICES ASSUME NEW i \in DOMAIN fstab, Served(i) PROVE Served(i)'
      BY Zenon
    <2>1. fstab[i].name \in Names
      BY Zenon, FstabFacts DEF ExactInv, FsckInv, FsckTypes
    <2>2. Queued(fstab[i].name) => Queued(fstab[i].name)'
      BY Zenon DEF Queued
    <2> QED BY <1>3, <1>6, <2>1, <2>2 DEF Served
  <1> QED BY Zenon, <1>5, <1>6, <1>7, <1>8, <1>9

LEMMA StartFirstExact ==
  ASSUME ExactInv, StartFirst, FsckInv' PROVE ExactInv'
  <1> DEFINE d == disklist[nextdisk]
  <1>1. /\ UNCHANGED <<fstab, preen, requested_passno, passno, at, disklist, queue,
                       ndisks, maximum_running, target, running_status, failed>>
        /\ fpc = "first" /\ fpc' = "first" /\ fscks_running < maximum_running /\ Fork(d)
    BY Zenon DEF StartFirst, fsckInput, fsckScan, fsckLists, fsckBad
  <1>2. /\ nextdisk = fscks_running + 1 /\ nextdisk \in DOMAIN disklist
        /\ d \in Disks /\ dpid[d] <= 0
    BY ZenonT(30), <1>1, FirstDisk DEF ExactInv
  <1>3. d \in Busy
    BY ZenonT(30), <1>1, <1>2 DEF ExactInv, Counted
  <1> HIDE DEF d
  <1>4. /\ Children' /\ Once' /\ checks' \in [Names -> Nat] /\ dpid'[d] > 0
        /\ \A e \in Disks : e # d => dpid'[e] = dpid[e]
        /\ \A i \in DOMAIN fstab : Served(i) => Served(i)'
    BY Zenon, <1>1, <1>2, <1>3, ForkExact DEF d
  <1>5. MoreTypes' /\ Status'
    BY Zenon, <1>1, <1>4 DEF ExactInv, MoreTypes, Status
  <1>6. Queues' /\ Counted'
    BY Zenon, <1>1, SameQueues
  <1>7. Work'
    <2>1. /\ fscks_running' = fscks_running + 1 /\ fscks_running \in Nat
          /\ disklist \in Seq(Disks)
      BY Zenon, <1>1 DEF Fork, ExactInv, FsckInv, FsckTypes
    <2>2. \A i \in DOMAIN disklist : i <= fscks_running + 1 => dpid'[disklist[i]] > 0
      <3> SUFFICES ASSUME NEW i \in DOMAIN disklist, i <= fscks_running + 1
                   PROVE  dpid'[disklist[i]] > 0
        BY Zenon
      <3>1. CASE i = nextdisk
        BY Zenon, <1>4, <3>1 DEF d
      <3>2. CASE i # nextdisk
        <4>1. i <= fscks_running /\ disklist[i] \in Disks
          BY <1>2, <2>1, <3>2
        <4>2. dpid[disklist[i]] > 0
          BY Zenon, <1>1, <4>1 DEF ExactInv, Work
        <4> QED BY Zenon, <1>4, <4>1, <4>2
      <3> QED BY Zenon, <3>1, <3>2
    <2> QED BY Zenon, <1>1, <2>1, <2>2 DEF ExactInv, Work
  <1>8. Scanned'
    BY Zenon, <1>1, <1>4, StillScanned
  <1> QED BY ZenonT(30), <1>4, <1>5, <1>6, <1>7, <1>8 DEF ExactInv

LEMMA StartAgainExact ==
  ASSUME ExactInv, StartAgain, FsckInv' PROVE ExactInv'
  <1>1. /\ UNCHANGED <<fstab, preen, requested_passno, passno, at, disklist, queue,
                       ndisks, maximum_running, nextdisk, running_status, failed>>
        /\ fpc = "again" /\ fpc' = "wait" /\ Fork(target)
    BY Zenon DEF StartAgain, fsckInput, fsckScan, fsckLists, fsckBad
  <1>2. target \in Busy /\ target \in Disks /\ dpid[target] <= 0
    BY Zenon, <1>1 DEF ExactInv, Work, FsckInv, Places
  <1>3. /\ Children' /\ Once' /\ checks' \in [Names -> Nat] /\ dpid'[target] > 0
        /\ \A e \in Disks : e # target => dpid'[e] = dpid[e]
        /\ \A i \in DOMAIN fstab : Served(i) => Served(i)'
    BY ZenonT(30), <1>1, <1>2, ForkExact
  <1>4. MoreTypes' /\ Status'
    BY Zenon, <1>1, <1>3 DEF ExactInv, MoreTypes, Status
  <1>5. Queues' /\ Counted' /\ Busy' = Busy
    BY Zenon, <1>1, SameQueues
  <1>6. Work'
    <2>1. fscks_running' = fscks_running + 1
      BY Zenon, <1>1 DEF Fork
    <2>2. nextdisk = 0 => \A e \in Busy : dpid'[e] > 0
      BY Zenon, <1>1, <1>3 DEF ExactInv, Work, Busy
    <2> QED BY Zenon, <1>1, <1>5, <2>1, <2>2 DEF ExactInv, Work
  <1>7. Scanned'
    BY Zenon, <1>1, <1>3, StillScanned
  <1> QED BY Zenon, <1>3, <1>4, <1>5, <1>6, <1>7 DEF ExactInv

\* fork() fails: startdiskcheck() is called again for the same disk, or fsck
\* gives up with the status 8.
LEMMA StartFailsExact ==
  ASSUME ExactInv, StartFirstFails \/ StartAgainFails, FsckInv' PROVE ExactInv'
  <1> DEFINE d == IF fpc = "first" THEN disklist[nextdisk] ELSE target
  <1>1. /\ UNCHANGED <<fstab, preen, requested_passno, passno, at, disklist, queue,
                       ndisks, maximum_running, nextdisk, failed>>
        /\ \/ fpc = "first" /\ fscks_running < maximum_running
           \/ fpc = "again"
        /\ ForkFailed(d)
    BY Zenon DEF StartFirstFails, StartAgainFails, fsckInput, fsckScan, fsckLists, fsckBad
  <1>2. d \in Disks /\ dpid[d] <= 0
    BY Zenon, <1>1, FirstDisk DEF ExactInv, FsckInv, Places
  <1>3. /\ UNCHANGED <<kids, forks, checks, fscks_running>>
        /\ dpid' = [dpid EXCEPT ![d] = -1]
        /\ \/ UNCHANGED <<fpc, running_status, target>>
           \/ fpc' = "report" /\ running_status' = 8
           \/ fpc' = "done" /\ running_status' \in {2, 8}
    BY Zenon, <1>1 DEF ForkFailed, Return, Exit
  <1>4. dpid'[d] = -1 /\ \A e \in Disks : e # d => dpid'[e] = dpid[e]
    BY Zenon, <1>2, <1>3 DEF ExactInv, FsckInv, FsckTypes
  <1>5. MoreTypes'
    BY Zenon, <1>1, <1>3 DEF ExactInv, MoreTypes
  <1>6. Queues' /\ Counted' /\ Busy' = Busy
    BY Zenon, <1>1, <1>3, SameQueues
  <1>7. Children'
    <2>1. \A e \in Disks : dpid'[e] > 0 => \E k \in kids' : k.disk = e
      BY <1>3, <1>4 DEF ExactInv, Children
    <2>2. \A e \in Disks : dpid'[e] < 0 => e = d \/ dpid[e] < 0
      BY Zenon, <1>4
    <2>3. \A e \in Disks : dpid[e] < 0 => e = d
      BY ZenonT(30), <1>1 DEF ExactInv, Children
    <2>4. \A k \in kids' : /\ k.disk \in Busy' /\ k.part = Head(queue'[k.disk])
                           /\ checks'[k.part] >= 1
      BY Zenon, <1>1, <1>3, <1>6 DEF ExactInv, Children
    <2>5. fpc' \in {"report", "done"} \/ (UNCHANGED fpc /\ UNCHANGED target)
      BY Zenon, <1>3
    <2> QED BY Zenon, <1>1, <1>3, <2>1, <2>2, <2>3, <2>4, <2>5 DEF Children
  <1> HIDE DEF d
  <1>8. Once'
    <2> SUFFICES ASSUME preen, NEW p \in Names, OnlyLater(p)
                 PROVE  /\ checks[p] <= 1
                        /\ \A e \in Disks : \A i \in DOMAIN queue[e] :
                             queue[e][i] = p /\ (i # 1 \/ dpid'[e] <= 0)
                             => checks[p] = 0
      BY Zenon, <1>1, <1>3 DEF Once, OnlyLater
    <2>1. \A e \in Disks : dpid'[e] <= 0 => dpid[e] <= 0
      BY Zenon, <1>2, <1>4
    <2> QED BY Zenon, <2>1 DEF ExactInv, Once
  <1>9. Work'
    <2>1. CASE fpc' \in {"report", "done"}
      BY Zenon, <2>1 DEF Work
    <2>2. CASE fpc = "first" /\ UNCHANGED fpc
      <3>1. \A i \in DOMAIN disklist : disklist[i] \in Disks
        BY DEF ExactInv, FsckInv, FsckTypes
      <3>2. ASSUME NEW i \in DOMAIN disklist, i <= fscks_running
            PROVE  dpid'[disklist[i]] > 0
        <4>1. dpid[disklist[i]] > 0
          BY Zenon, <2>2, <3>2 DEF ExactInv, Work
        <4>2. disklist[i] # d
          BY <1>2, <4>1 DEF ExactInv, FsckInv, FsckTypes
        <4> QED BY Zenon, <1>4, <3>1, <4>1, <4>2
      <3> QED BY Zenon, <1>1, <1>3, <2>2, <3>2 DEF ExactInv, Work
    <2>3. CASE fpc = "again" /\ UNCHANGED fpc /\ UNCHANGED target
      <3>1. \A e \in Busy : e # target => dpid'[e] = dpid[e]
        BY Zenon, <1>4, <2>3 DEF Busy, d
      <3> QED BY ZenonT(30), <1>1, <1>3, <1>6, <2>3, <3>1 DEF ExactInv, Work
    <2> QED BY Zenon, <1>1, <1>3, <2>1, <2>2, <2>3
  <1>10. Status'
    <2>1. CASE UNCHANGED <<fpc, running_status, target>>
      BY ZenonT(30), <1>1, <1>3, <2>1 DEF ExactInv, Status
    <2>2. CASE fpc' \in {"report", "done"} /\ running_status' \in {2, 8}
      BY SMTT(30), <1>1, <1>2, <1>4, <2>2 DEF Status
    <2> QED BY Zenon, <1>3, <2>1, <2>2
  <1>11. Scanned'
    BY SMTT(30), <1>1, <1>3, SameServed, StillScanned
  <1> QED BY Zenon, <1>5, <1>6, <1>7, <1>8, <1>9, <1>10, <1>11 DEF ExactInv

\* A partition has one place in the queues.
LEMMA OnePlace ==
  ASSUME Queues, NEW b \in Disks, NEW c \in Disks,
         NEW m \in DOMAIN queue[b], NEW n \in DOMAIN queue[c],
         queue[b][m] = queue[c][n]
  PROVE  b = c /\ m = n
  BY DEF Queues

\* wait() returns a child: the disk whose pid it is loses the partition that
\* the child checked.
LEMMA SettleEffect ==
  ASSUME ExactInv, NEW k \in kids, fpc = "wait", NEW d \in Disks, dpid[d] = k.pid,
         Settle(d, k.st), dpid' = [dpid EXCEPT ![d] = 0], kids' = kids \ {k},
         UNCHANGED <<fstab, preen, checks>>, fpc' # "scan"
  PROVE  /\ Queues' /\ Children' /\ Once' /\ d \in Busy
         /\ Busy' = IF queue'[d] = <<>> THEN Busy \ {d} ELSE Busy
         /\ dpid'[d] = 0 /\ \A e \in Disks : e # d => dpid'[e] = dpid[e]
         /\ \A i \in DOMAIN fstab : Served(i) => Served(i)'
  <1> DEFINE p0 == Head(queue[d])
  <1>1. /\ queue' = [queue EXCEPT ![d] = Tail(queue[d])]
    BY Zenon DEF Settle
  <1>2. /\ dpid \in [Disks -> Int] /\ queue \in [Disks -> Seq(Names)]
        /\ checks \in [Names -> Nat] /\ fstab \in Fstabs
    BY Zenon DEF ExactInv, FsckInv, FsckTypes, Queues, MoreTypes
  <1>3. k.disk = d
    <2>1. k.pid > 0
      BY DEF ExactInv, FsckInv, FsckTypes, Kids
    <2>2. PICK l \in kids : l.disk = d
      BY Zenon, <2>1 DEF ExactInv, Children
    <2>3. l.pid = k.pid
      BY Zenon, <2>2 DEF ExactInv, FsckInv, Kids
    <2> QED BY Zenon, <2>2, <2>3 DEF ExactInv, FsckInv, Kids
  <1>4. d \in Busy /\ k.part = p0 /\ checks[p0] >= 1 /\ queue[d] # <<>>
    BY Zenon, <1>3 DEF ExactInv, Children, Busy
  <1>5. \A l \in kids' : l \in kids /\ l.disk \in Disks /\ l.disk # d
    BY ZenonT(30), <1>2 DEF ExactInv, FsckInv, Kids
  <1>6. /\ queue' \in [Disks -> Seq(Names)] /\ queue'[d] = Tail(queue[d])
        /\ \A e \in Disks : e # d => queue'[e] = queue[e]
    BY <1>1, <1>2, <1>4
  <1>7. /\ p0 = queue[d][1] /\ Len(queue[d]) \in Nat /\ Len(queue[d]) >= 1
        /\ DOMAIN queue[d] = 1..Len(queue[d])
        /\ DOMAIN queue'[d] = 1..(Len(queue[d]) - 1)
        /\ \A i \in DOMAIN queue'[d] : queue'[d][i] = queue[d][i + 1]
    BY <1>2, <1>4, <1>6
  <1> HIDE DEF p0
  <1>8. ASSUME NEW e \in Disks, NEW i \in DOMAIN queue'[e]
        PROVE  \E j \in DOMAIN queue[e] : /\ queue'[e][i] = queue[e][j]
                                         /\ j = IF e = d THEN i + 1 ELSE i
    <2>1. CASE e = d
      <3>1. i \in DOMAIN queue'[d]
        BY Zenon, <1>8, <2>1
      <3>2. i \in 1..(Len(queue[d]) - 1) /\ queue'[d][i] = queue[d][i + 1]
        BY <1>7, <3>1, ZenonT(30)
      <3>3. i + 1 \in 1..Len(queue[d])
        BY <1>7, <3>2
      <3>4. i + 1 \in DOMAIN queue[d]
        BY <1>7, <3>3, ZenonT(30)
      <3> QED BY Zenon, <2>1, <3>2, <3>4
    <2>2. CASE e # d
      BY Zenon, <1>6, <1>8, <2>2
    <2> QED BY Zenon, <2>1, <2>2
  <1>9. Queues'
    <2>1. \A b, c \in Disks : \A i \in DOMAIN queue'[b], j \in DOMAIN queue'[c] :
            queue'[b][i] = queue'[c][j] => b = c /\ i = j
      <3> SUFFICES ASSUME NEW b \in Disks, NEW c \in Disks, NEW i \in DOMAIN queue'[b],
                          NEW j \in DOMAIN queue'[c], queue'[b][i] = queue'[c][j]
                   PROVE  b = c /\ i = j
        BY Zenon
      <3>1. PICK m \in DOMAIN queue[b] : /\ queue'[b][i] = queue[b][m]
                                         /\ m = IF b = d THEN i + 1 ELSE i
        BY Zenon, <1>8
      <3>5. PICK n \in DOMAIN queue[c] : /\ queue'[c][j] = queue[c][n]
                                          /\ n = IF c = d THEN j + 1 ELSE j
        BY Zenon, <1>8
      <3>6. queue[b][m] = queue[c][n]
        BY ZenonT(30), <3>1, <3>5
      <3>2. b = c /\ m = n
        <4>1. Queues
          BY Zenon DEF ExactInv
        <4> QED BY <3>6, <4>1, OnePlace
      <3>3. CASE b = d
        BY <1>7, <3>1, <3>5, <3>2, <3>3
      <3>4. CASE b # d
        BY Zenon, <3>1, <3>5, <3>2, <3>4
      <3> QED BY Zenon, <3>3, <3>4
    <2>2. \A e \in Disks : \A i \in DOMAIN queue'[e] :
            \E n \in DOMAIN fstab : fstab[n].name = queue'[e][i] /\ fstab[n].disk = e
      BY <1>8 DEF ExactInv, Queues
    <2> QED BY ZenonT(30), <1>6, <2>1, <2>2 DEF Queues
  <1>10. Busy' = IF queue'[d] = <<>> THEN Busy \ {d} ELSE Busy
    BY Zenon, <1>4, <1>6 DEF Busy
  <1>11. dpid'[d] = 0 /\ \A e \in Disks : e # d => dpid'[e] = dpid[e]
    BY Zenon, <1>2
  <1>12. Children'
    <2>1. ASSUME NEW l \in kids'
          PROVE  /\ l.disk \in Busy' /\ l.part = Head(queue'[l.disk])
                 /\ checks'[l.part] >= 1
      <3>1. /\ l.disk \in Busy /\ l.part = Head(queue[l.disk])
            /\ checks[l.part] >= 1
        BY ZenonT(30), <1>5, <2>1 DEF ExactInv, Children
      <3> QED BY Zenon, <1>5, <1>6, <1>10, <2>1, <3>1
    <2>2. \A e \in Disks : dpid'[e] > 0 => \E l \in kids' : l.disk = e
      BY SMTT(30), <1>3, <1>11 DEF ExactInv, Children
    <2>3. \A e \in Disks : dpid'[e] >= 0 /\ dpid'[e] \in Int
      BY <1>2, <1>11 DEF ExactInv, Children
    <2> QED BY <2>1, <2>2, <2>3 DEF Children
  <1>13. Once'
    <2> SUFFICES ASSUME preen, NEW p \in Names, OnlyLater(p)
                 PROVE  /\ checks[p] <= 1
                        /\ \A e \in Disks : \A i \in DOMAIN queue'[e] :
                             queue'[e][i] = p /\ (i # 1 \/ dpid'[e] <= 0)
                             => checks[p] = 0
      BY Zenon DEF Once, OnlyLater
    <2>1. /\ checks[p] <= 1
          /\ \A e \in Disks : \A i \in DOMAIN queue[e] :
               queue[e][i] = p /\ (i # 1 \/ dpid[e] <= 0) => checks[p] = 0
      BY ZenonT(30) DEF ExactInv, Once
    <2>2. ASSUME NEW e \in Disks, NEW i \in DOMAIN queue'[e], queue'[e][i] = p,
                 i # 1 \/ dpid'[e] <= 0
          PROVE  checks[p] = 0
      <3>1. CASE e = d
        <4>1. i + 1 \in DOMAIN queue[d] /\ i + 1 # 1 /\ queue[d][i + 1] = p
          BY SMTT(30), <1>7, <2>2, <3>1
        <4> QED BY Zenon, <2>1, <4>1
      <3>2. CASE e # d
        BY Zenon, <1>6, <1>11, <2>1, <2>2, <3>2
      <3> QED BY ZenonT(30), <3>1, <3>2
    <2> QED BY Zenon, <2>1, <2>2
  <1>14. \A i \in DOMAIN fstab : Served(i) => Served(i)'
    <2> SUFFICES ASSUME NEW i \in DOMAIN fstab, Served(i) PROVE Served(i)'
      BY Zenon
    <2>1. ASSUME Queued(fstab[i].name), fstab[i].name # p0
          PROVE  Queued(fstab[i].name)'
      <3> PICK e \in Disks : \E j \in DOMAIN queue[e] : queue[e][j] = fstab[i].name
        BY Zenon, <2>1 DEF Queued
      <3> PICK j \in DOMAIN queue[e] : queue[e][j] = fstab[i].name
        BY Zenon
      <3>1. CASE e = d
        <4>1. j - 1 \in DOMAIN queue'[d] /\ queue'[d][j - 1] = fstab[i].name
          BY <1>7, <2>1, <3>1
        <4> QED BY Zenon, <4>1 DEF Queued
      <3>2. CASE e # d
        BY Zenon, <1>6, <3>2 DEF Queued
      <3> QED BY Zenon, <3>1, <3>2
    <2>2. CASE fstab[i].name = p0
      BY ZenonT(30), <1>4, <2>2 DEF Served
    <2>3. CASE fstab[i].name # p0
      BY Zenon, <2>1, <2>3 DEF Served
    <2> QED BY Zenon, <2>2, <2>3
  <1> QED BY Zenon, <1>4, <1>9, <1>10, <1>11, <1>12, <1>13, <1>14

\* When every disk that has partitions left has a child, no more disks are
\* left than checks run.
LEMMA AllBusy ==
  ASSUME NEW K, IsFiniteSet(K), NEW B, \A k \in K : k.disk \in B,
         \A d \in B : \E k \in K : k.disk = d
  PROVE  Cardinality(B) <= Cardinality(K)
  <1> DEFINE f == [k \in K |-> k.disk]
  <1>1. f \in [K -> B]
    BY Zenon
  <1>2. \A d \in B : \E k \in K : f[k] = d
    BY Zenon
  <1>3. f \in Surjection(K, B)
    BY Zenon, <1>1, <1>2 DEF Surjection
  <1> QED BY Zenon, <1>3, FS_Surjection

\* The search for(;;) of do_diskchecks() comes to a disk that has partitions
\* left and no child: fewer checks run than there are such disks.
LEMMA SearchFinds ==
  ASSUME FsckInv', Children', Counted', disklist' = disklist, fpc' # "scan",
         fpc' \notin {"first", "again", "report", "done"}, MoreToStart
  PROVE  \E i \in DOMAIN disklist : Idle(i)
  <1> SUFFICES ASSUME \A i \in DOMAIN disklist : ~Idle(i) PROVE FALSE
    BY Zenon
  <1>1. /\ IsFiniteSet(kids') /\ Cardinality(kids') = fscks_running'
        /\ IsFiniteSet(Busy') /\ Cardinality(Busy') = ndisks'
        /\ fscks_running' < ndisks' /\ fscks_running' \in Nat /\ ndisks' \in Int
    BY Zenon DEF FsckInv, FsckTypes, Counts, Counted, MoreToStart
  <1>2. \A d \in Busy' : \E k \in kids' : k.disk = d
    <2> SUFFICES ASSUME NEW d \in Busy' PROVE \E k \in kids' : k.disk = d
      BY Zenon
    <2>1. d \in Disks /\ queue'[d] # <<>> /\ dpid'[d] \in Int
      BY Zenon DEF Busy, FsckInv, FsckTypes
    <2>2. PICK i \in DOMAIN disklist : disklist[i] = d
      BY Zenon DEF Counted
    <2>3. dpid'[d] # 0
      BY Zenon, <2>1, <2>2 DEF Idle
    <2>4. ~(dpid'[d] < 0)
      BY Zenon, <2>1 DEF Children
    <2> QED BY <2>1, <2>3, <2>4 DEF Children
  <1>3. \A k \in kids' : k.disk \in Busy'
    BY Zenon DEF Children
  <1>4. Cardinality(Busy') <= Cardinality(kids')
    BY Zenon, <1>1, <1>2, <1>3, AllBusy
  <1> QED BY <1>1, <1>4

LEMMA WaitReturnsExact ==
  ASSUME ExactInv, NEW k \in kids, WaitReturns(k), FsckInv' PROVE ExactInv'
  <1> PICK d \in Disks : /\ dpid[d] = k.pid /\ Settle(d, k.st)
                         /\ running_status' = StatusAfter(k.st)
                         /\ dpid' = [dpid EXCEPT ![d] = 0]
                         /\ fscks_running' = fscks_running - 1
                         /\ ndisks' = NdisksAfter(d) /\ GoOn(d)
    BY ZenonT(30) DEF WaitReturns
  <1>1. /\ fpc = "wait" /\ kids' = kids \ {k}
        /\ UNCHANGED <<fstab, preen, requested_passno, passno, at, disklist,
                       maximum_running, checks>>
    BY Zenon DEF WaitReturns, fsckInput, fsckScan
  <1>2. fpc' \in {"wait", "again", "spin"}
    BY Zenon, <1>1 DEF GoOn
  <1>3. /\ Queues' /\ Children' /\ Once' /\ d \in Busy
        /\ Busy' = IF queue'[d] = <<>> THEN Busy \ {d} ELSE Busy
        /\ dpid'[d] = 0 /\ \A e \in Disks : e # d => dpid'[e] = dpid[e]
        /\ \A i \in DOMAIN fstab : Served(i) => Served(i)'
    BY ZenonT(30), <1>1, <1>2, SettleEffect
  <1>4. MoreTypes'
    BY Zenon, <1>1 DEF ExactInv, MoreTypes
  <1>5. Counted'
    <2>1. /\ IsFiniteSet(Busy) /\ Cardinality(Busy) = ndisks
          /\ \A e \in Busy : \E i \in DOMAIN disklist : disklist[i] = e
      BY Zenon DEF ExactInv, Counted
    <2>2. IsFiniteSet(Busy \ {d}) /\ Cardinality(Busy \ {d}) = Cardinality(Busy) - 1
      BY ZenonT(30), <1>3, <2>1, FS_RemoveElement
    <2>3. IsFiniteSet(Busy') /\ Cardinality(Busy') = ndisks'
      BY ZenonT(30), <1>3, <2>1, <2>2 DEF NdisksAfter
    <2>4. \A e \in Busy' : \E i \in DOMAIN disklist' : disklist'[i] = e
      BY ZenonT(30), <1>1, <1>3, <2>1
    <2> QED BY Zenon, <1>2, <2>3, <2>4 DEF Counted
  <1>6. /\ fscks_running \in Nat /\ maximum_running \in Nat /\ maximum_running > 0
        /\ ndisks \in Int /\ ndisks' \in Int /\ ndisks' <= ndisks
    <2>1. /\ fscks_running \in Nat /\ fscks_running - 1 \in Nat /\ maximum_running \in Nat
          /\ fscks_running <= maximum_running /\ ndisks \in Int /\ ndisks' \in Int
      BY Zenon, <1>1 DEF ExactInv, FsckInv, FsckTypes, Counts
    <2> QED BY <2>1 DEF NdisksAfter
  <1>7. Work'
    <2>1. CASE nextdisk = 0
      <3>1. \A e \in Busy' : e # d => dpid'[e] > 0
        BY ZenonT(30), <1>1, <1>3, <2>1 DEF ExactInv, Work, Busy
      <3>2. CASE queue'[d] # <<>>
        <4>1. fpc' = "again" /\ target' = d /\ nextdisk' = 0 /\ d \in Busy'
          BY ZenonT(30), <1>3, <2>1, <3>2 DEF GoOn
        <4> QED BY <1>1, <1>6, <3>1, <4>1 DEF Work
      <3>3. CASE queue'[d] = <<>>
        <4>1. fpc' = "wait" /\ nextdisk' = 0 /\ d \notin Busy'
          BY ZenonT(30), <1>1, <1>3, <2>1, <3>3 DEF GoOn
        <4> QED BY <1>1, <1>6, <3>1, <4>1 DEF Work
      <3> QED BY ZenonT(30), <3>2, <3>3
    <2>2. CASE nextdisk # 0
      <3>1. fscks_running >= maximum_running \/ fscks_running >= ndisks
        BY ZenonT(30), <1>1, <2>2 DEF ExactInv, Work
      <3>2. CASE ~MoreToStart
        <4>1. fpc' = "wait" /\ nextdisk' = nextdisk
          BY Zenon, <1>1, <2>2, <3>2 DEF GoOn
        <4>2. fscks_running' >= maximum_running' \/ fscks_running' >= ndisks'
          BY SMTT(30), <1>1, <1>6, <3>2 DEF MoreToStart
        <4> QED BY <1>1, <1>6, <2>2, <4>1, <4>2 DEF Work
      <3>3. CASE MoreToStart
        <4>1. \E i \in DOMAIN disklist : Idle(i)
          <5>1. SUFFICES ASSUME ~ \E i \in DOMAIN disklist : Idle(i) PROVE FALSE
            BY Zenon
          <5>2. fpc' = "spin"
            BY ZenonT(30), <2>2, <3>3, <5>1 DEF GoOn
          <5> QED BY Zenon, <1>1, <1>3, <1>5, <3>3, <5>1, <5>2, SearchFinds
        <4>2. PICK i \in DOMAIN disklist :
                Found(i) /\ nextdisk' = i /\ fpc' = "again" /\ target' = disklist[i]
          BY Zenon, <2>2, <3>3, <4>1 DEF GoOn
        <4>3. target' \in Busy' /\ nextdisk' # 0
          BY <4>2 DEF Found, Idle, Busy, ExactInv, FsckInv, FsckTypes
        <4>4. \/ fscks_running' + 1 >= maximum_running'
              \/ fscks_running' + 1 >= ndisks'
          BY <1>1, <1>6, <3>1
        <4> QED BY <1>1, <1>6, <4>2, <4>3, <4>4 DEF Work
      <3> QED BY Zenon, <3>2, <3>3
    <2> QED BY Zenon, <2>1, <2>2
  <1>8. Status'
    <2>1. CASE k.st = 0
      <3>1. UNCHANGED <<running_status, failed>>
        BY Zenon, <2>1 DEF StatusAfter, Settle
      <3> QED BY Zenon, <1>1, <1>2, <3>1 DEF ExactInv, Status
    <2>2. CASE k.st # 0
      <3>1. running_status' = 8 /\ failed' # {}
        BY Zenon, <2>2 DEF StatusAfter, Settle
      <3> QED BY <1>2, <3>1 DEF Status
    <2> QED BY Zenon, <2>1, <2>2
  <1>9. Scanned'
    <2>1. running_status' = 0 => running_status = 0
      BY DEF StatusAfter
    <2> QED BY Zenon, <1>1, <1>3, <2>1, StillScanned
  <1> QED BY ZenonT(30), <1>3, <1>4, <1>5, <1>7, <1>8, <1>9 DEF ExactInv

-----------------------------------------------------------------------------

LEMMA ExactInvNext == ExactInv /\ [FsckNext]_fsckVars => ExactInv'
  <1> SUFFICES ASSUME ExactInv, [FsckNext]_fsckVars PROVE ExactInv'
    BY Zenon
  <1>0. FsckInv'
    BY Zenon, FsckInvNext DEF ExactInv
  <1>1. CASE UNCHANGED fsckVars \/ Quit
    BY Zenon, <1>0, <1>1, QuitExact
    DEF fsckVars, Quit, fsckInput, fsckScan, fsckLists, fsckRun, fsckBad
  <1>2. CASE \E k \in kids : ChildEnds(k) \/ WaitReturns(k)
    BY Zenon, <1>0, <1>2, ChildEndsExact, WaitReturnsExact
  <1>3. CASE ScanSkip \/ ScanCheck \/ ScanBadName
    BY Zenon, <1>0, <1>3, ScanSkipExact, ScanCheckExact, ScanBadNameExact
  <1>4. CASE ScanAdd \/ ScanAgain \/ ScanEnd
    BY Zenon, <1>0, <1>4, ScanAddExact, ScanAgainExact, ScanEndExact
  <1>5. CASE StartFirst \/ StartAgain \/ StartFirstFails \/ StartAgainFails
    BY Zenon, <1>0, <1>5, StartFirstExact, StartAgainExact, StartFailsExact
  <1>6. CASE FirstDone \/ NoChildren \/ Report \/ Interrupt
    BY Zenon, <1>0, <1>6, FirstDoneExact, NoChildrenExact, ReportExact
  <1> QED BY Zenon, <1>1, <1>2, <1>3, <1>4, <1>5, <1>6 DEF FsckNext, FsckStep

LEMMA ExactInvariant == FsckSpec => []ExactInv
  BY ExactInvInit, ExactInvNext, PTL DEF FsckSpec

\* Whatever the fstab, -l and -R, the order in which the checks end and the
\* forks that fail: fsck exits with 0 only if it checked each partition it was
\* asked to check, in the parallel pass once, and no check failed; and with 8
\* only if a check failed, fork() did or a device was not there.
THEOREM FsckAlwaysExact == FsckSpec => []FsckExact
  <1>1. ExactInv => FsckExact
    <2> SUFFICES ASSUME ExactInv, fpc = "done"
                 PROVE  /\ running_status = 0 =>
                            /\ failed = {} /\ kids = {}
                            /\ \A i \in DOMAIN fstab : Wanted(fstab[i]) =>
                                 /\ fstab[i].there /\ checks[fstab[i].name] >= 1
                                 /\ preen /\ OnlyLater(fstab[i].name)
                                    => checks[fstab[i].name] = 1
                        /\ running_status = 8 =>
                            \/ failed # {}
                            \/ \E d \in Disks : dpid[d] = -1
                            \/ \E i \in DOMAIN fstab : ~fstab[i].there
      BY Zenon DEF FsckExact
    <2>1. running_status = 8 =>
            \/ failed # {}
            \/ \E d \in Disks : dpid[d] = -1
            \/ \E i \in DOMAIN fstab : ~fstab[i].there
      BY Zenon DEF ExactInv, Status
    <2>2. ASSUME running_status = 0
          PROVE  failed = {} /\ kids = {} /\ (preen => \A p : ~Queued(p))
      BY <2>2 DEF ExactInv, Status, Queued
    <2>3. ASSUME running_status = 0, NEW i \in DOMAIN fstab, Wanted(fstab[i])
          PROVE  /\ fstab[i].there /\ checks[fstab[i].name] >= 1
                 /\ preen /\ OnlyLater(fstab[i].name) => checks[fstab[i].name] = 1
      <3>1. Served(i)
        BY Zenon, <2>3 DEF ExactInv, Scanned
      <3>2. fstab[i].there /\ checks[fstab[i].name] >= 1
        BY Zenon, <2>2, <2>3, <3>1 DEF Served
      <3>3. fstab[i].name \in Names /\ checks \in [Names -> Nat]
        BY Zenon, FstabFacts DEF ExactInv, FsckInv, FsckTypes, MoreTypes
      <3>4. preen /\ OnlyLater(fstab[i].name) => checks[fstab[i].name] <= 1
        BY Zenon, <3>3 DEF ExactInv, Once
      <3> QED BY <3>2, <3>3, <3>4
    <2> QED BY Zenon, <2>1, <2>2, <2>3
  <1> QED BY <1>1, ExactInvariant, PTL

\* The search for(;;) of do_diskchecks() for the next disk, which has no other
\* way out, always comes to one.
THEOREM FsckNeverSpins == FsckSpec => [](fpc # "spin")
  <1>1. ExactInv => fpc # "spin"
    BY Zenon DEF ExactInv, Work
  <1> QED BY <1>1, ExactInvariant, PTL
=============================================================================
