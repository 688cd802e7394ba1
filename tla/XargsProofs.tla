---------------------------- MODULE XargsProofs -----------------------------
(***************************************************************************)
(* Proofs about xargs: for any -P, any number of commands and any children *)
(* it inherits, the table of pids is exact, and xargs leaves no command    *)
(* behind; without -P its exit status is that of the manual.               *)
(***************************************************************************)
EXTENDS Xargs, FiniteSetTheorems, FunctionTheorems, WellFoundedInduction,
        TLAPS

\* What an exit or a failed command has made certain by the end of the loop of
\* waitchildren(): it waits for all.
WaitsForAll ==
    /\ xpc = "read" => exit_code = NONE
    /\ xpc = "wait" /\ (cause_exit # 0 \/ exit_code # NONE) => waitall

XargsTypes ==
    /\ maxprocs \in Nat \ {0}
    /\ xpc \in {"read", "wait", "exit"}
    /\ childpids \in [Slots -> Nat]
    /\ xpid \in Nat
    /\ DOMAIN xkids \subseteq Strangers \cup 1..xpid

XargsInv == XargsTypes /\ XargsSlots /\ WaitsForAll /\ XargsNoOrphans

-----------------------------------------------------------------------------
(* findslot() finds a slot whenever there is one.                          *)

LEMMA SmallestNat ==
  ASSUME NEW T \in SUBSET Nat, T # {}
  PROVE  \E x \in T : \A y \in T : x <= y
  <1> DEFINE R == OpToRel(<, Nat)
  <1>1. PICK x \in T : \A y \in T : <<y, x>> \notin R
    <2>1. IsWellFoundedOn(R, Nat)
      BY NatLessThanWellFounded, Zenon
    <2> HIDE DEF R
    <2> QED BY <2>1, WFMin, Zenon
  <1>2. \A y \in T : ~(y < x)
    BY Zenon, <1>1 DEF OpToRel
  <1> QED BY <1>2

LEMMA SlotFound ==
  ASSUME NEW pid, XargsTypes, NEW s \in Slots, childpids[s] = pid
  PROVE  \E t \in Slots : t \in findslot(pid)
  <1> DEFINE T == {t \in Slots : childpids[t] = pid}
  <1>1. T \in SUBSET Nat /\ T # {}
    BY SMTT(30) DEF Slots, XargsTypes
  <1>2. PICK t \in T : \A y \in T : t <= y
    BY <1>1, SmallestNat, Zenon
  <1> QED BY <1>2 DEF findslot

\* Inherited children have no positive pid, and no child has pid 0.
LEMMA StrangerPids ==
  \A p \in Strangers : p \in Int /\ p < 0 /\ ~(p > 0)
  <1>1. \A p \in Strangers : p \in Int /\ p < 0
    BY XargsAssumption, Zenon DEF XargsAssumption
  <1> QED BY <1>1

LEMMA OwnPids ==
  ASSUME XargsTypes
  PROVE  /\ Own \subseteq 1..xpid /\ IsFiniteSet(Own)
         /\ Cardinality(Own) \in Nat
         /\ NOPID \notin DOMAIN xkids /\ xpid + 1 \notin DOMAIN xkids
  <1>1. /\ Own \subseteq 1..xpid
        /\ NOPID \notin DOMAIN xkids /\ xpid + 1 \notin DOMAIN xkids
    <2>1. \A p \in DOMAIN xkids : p \in 1..xpid \/ (p \in Int /\ p < 0 /\ ~(p > 0))
      BY StrangerPids DEF XargsTypes
    <2>2. xpid \in Nat
      BY DEF XargsTypes
    <2>3. Own \subseteq 1..xpid
      BY <2>1 DEF Own
    <2>4. 0 \notin DOMAIN xkids
      BY <2>1
    <2>5. xpid + 1 \notin DOMAIN xkids
      BY <2>1, <2>2
    <2> QED BY <2>3, <2>4, <2>5 DEF NOPID
  <1>2. IsFiniteSet(1..xpid)
    BY FS_Interval DEF XargsTypes
  <1>3. IsFiniteSet(Own)
    BY Zenon, <1>1, <1>2, FS_Subset
  <1>4. Cardinality(Own) \in Nat
    BY <1>3, FS_CardinalityType
  <1> QED BY <1>1, <1>3, <1>4

\* With fewer commands under way than slots, one slot is free.
LEMMA FreeSlot ==
  ASSUME XargsTypes, XargsSlots, curprocs < maxprocs
  PROVE  findslot(NOPID) # {}
  <1> SUFFICES ASSUME findslot(NOPID) = {} PROVE FALSE
    OBVIOUS
  <1>1. \A s \in Slots : childpids[s] # NOPID
    BY SlotFound
  <1>2. childpids \in [Slots -> Own]
    BY <1>1 DEF XargsTypes, XargsSlots
  <1>3. \A s, t \in Slots : childpids[s] = childpids[t] => s = t
    BY <1>1 DEF XargsSlots
  <1>4. childpids \in Injection(Slots, Own)
    BY <1>2, <1>3, Fun_IsInj
  <1>5. Cardinality(Slots) <= Cardinality(Own)
    BY <1>4, OwnPids, FS_Injection
  <1>6. Cardinality(Slots) = maxprocs
    BY FS_Interval DEF Slots, XargsTypes
  <1> QED BY <1>5, <1>6, OwnPids DEF XargsSlots, XargsTypes

LEMMA XargsInvInit == XargsInit => XargsInv
  <1> SUFFICES ASSUME XargsInit PROVE XargsInv
    OBVIOUS
  <1>1. XargsTypes
    BY XargsAssumption DEF XargsAssumption, XargsInit, XargsTypes, Slots, NOPID
  <1>2. Own = {}
    <2>1. DOMAIN xkids = Strangers
      BY DEF XargsInit
    <2> QED BY <2>1, StrangerPids DEF Own
  <1>3. Cardinality(Own) = 0
    BY <1>2, FS_EmptySet
  <1>4. XargsSlots
    BY <1>1, <1>2, <1>3 DEF XargsInit, XargsSlots, XargsTypes, NOPID
  <1> QED BY <1>1, <1>2, <1>4
    DEF XargsInit, XargsInv, WaitsForAll, XargsNoOrphans, NONE

-----------------------------------------------------------------------------
(* The steps.                                                              *)

\* Steps that begin and reap no command.
LEMMA TableStays ==
  ASSUME XargsTypes, XargsSlots, DOMAIN xkids' = DOMAIN xkids,
         UNCHANGED <<maxprocs, childpids, curprocs, xpid>>,
         xpc' \in {"read", "wait", "exit"},
         xpc' = "read" => curprocs < maxprocs
  PROVE  XargsTypes' /\ XargsSlots' /\ Own' = Own
  <1>1. Own' = Own /\ Slots' = Slots
    BY DEF Own, Slots
  <1> QED BY <1>1 DEF XargsTypes, XargsSlots

LEMMA RunStep ==
  ASSUME XargsInv, Run PROVE XargsInv'
  <1> USE DEF XargsInv
  <1>1. curprocs < maxprocs
    BY DEF Run, XargsSlots
  <1>2. findslot(NOPID) # {}
    BY <1>1, FreeSlot
  <1>3. PICK s \in findslot(NOPID) : childpids' = [childpids EXCEPT ![s] = xpid + 1]
    BY Zenon, <1>2 DEF Run
  <1>4. s \in Slots /\ childpids[s] = NOPID
    BY DEF findslot
  <1>5. /\ xpc' = "wait" /\ waitall' = FALSE /\ cause_exit' = 0
        /\ curprocs' = curprocs + 1 /\ exit_code' = exit_code
        /\ maxprocs' = maxprocs /\ xpid' = xpid + 1
        /\ DOMAIN xkids' = DOMAIN xkids \cup {xpid + 1}
    BY <1>2 DEF Run, EnterWait
  <1>6. Own' = Own \cup {xpid + 1} /\ xpid + 1 \notin Own /\ Slots' = Slots
    BY <1>5, OwnPids DEF Own, Slots, XargsTypes
  <1>7. Cardinality(Own') = Cardinality(Own) + 1
    BY SMTT(30), <1>6, OwnPids, FS_AddElement
  <1>8. XargsTypes'
    BY <1>3, <1>4, <1>5, <1>6 DEF XargsTypes
  <1>9. {childpids'[t] : t \in Slots} \ {NOPID} = Own'
    BY <1>3, <1>4, <1>6 DEF XargsSlots, XargsTypes, NOPID
  <1>10. \A t, u \in Slots : childpids'[t] = childpids'[u] /\ t # u
                               => childpids'[t] = NOPID
    <2>1. \A t \in Slots : childpids[t] # xpid + 1
      BY <1>6 DEF XargsSlots, XargsTypes, NOPID
    <2> QED BY <1>3, <1>4, <2>1 DEF XargsSlots, XargsTypes
  <1>11. XargsSlots'
    BY <1>1, <1>5, <1>6, <1>7, <1>9, <1>10, OwnPids DEF XargsSlots, XargsTypes
  <1>12. WaitsForAll' /\ XargsNoOrphans'
    BY <1>5 DEF WaitsForAll, XargsNoOrphans, Run
  <1> QED BY <1>8, <1>11, <1>12

LEMMA EnterWaitStep ==
  ASSUME XargsInv, RunFails \/ InputEnds \/ EofString \/ InputError
  PROVE  XargsInv'
  <1>1. XargsTypes' /\ XargsSlots' /\ Own' = Own
    BY TableStays DEF XargsInv, RunFails, InputEnds, EofString, InputError,
                      xexit, EnterWait
  <1>2. xpc' = "wait" /\ waitall' = TRUE
    BY DEF RunFails, InputEnds, EofString, InputError, xexit, EnterWait
  <1> QED BY <1>1, <1>2 DEF XargsInv, WaitsForAll, XargsNoOrphans

LEMMA ChildEndsStep ==
  ASSUME XargsInv, NEW p \in DOMAIN xkids, XChildEnds(p) PROVE XargsInv'
  <1>1. DOMAIN xkids' = DOMAIN xkids
    BY DEF XChildEnds
  <1>2. XargsTypes' /\ XargsSlots' /\ Own' = Own
    BY <1>1, TableStays DEF XargsInv, XChildEnds, XargsTypes, XargsSlots
  <1> QED BY <1>2 DEF XargsInv, XChildEnds, WaitsForAll, XargsNoOrphans

\* waitchildren() goes back to reading with a slot free, and exits with none
\* in use.
LEMMA WaitDoneStep ==
  ASSUME XargsInv, WaitDone PROVE XargsInv'
  <1> USE DEF XargsInv
  <1>1. curprocs < maxprocs \/ curprocs = 0
    BY OwnPids DEF WaitDone, Nothing, pids_empty, pids_full, XargsSlots, XargsTypes
  <1>2. curprocs < maxprocs
    BY <1>1 DEF XargsTypes
  <1>3. XargsTypes' /\ XargsSlots' /\ Own' = Own
    BY <1>2, TableStays DEF WaitDone
  <1>4. ASSUME xpc' = "exit" PROVE Own = {}
    <2>1. waitall
      BY <1>4 DEF WaitDone, WaitsForAll
    <2>2. Cardinality(Own) = 0
      BY <2>1 DEF WaitDone, Nothing, pids_empty, XargsSlots
    <2> QED BY <2>2, OwnPids, FS_EmptySet
  <1> QED BY <1>3, <1>4
    DEF WaitDone, WaitsForAll, XargsNoOrphans, NONE, LATER

\* A command waited for gives up its slot, another child none.
LEMMA ReapStep ==
  ASSUME XargsInv, NEW p \in DOMAIN xkids, Reap(p) PROVE XargsInv'
  <1> USE DEF XargsInv
  <1>0. /\ DOMAIN xkids' = DOMAIN xkids \ {p}
        /\ maxprocs' = maxprocs /\ xpid' = xpid /\ Slots' = Slots
        /\ xpc = "wait" /\ xpc' = "wait" /\ exit_code' = exit_code
    BY DEF Reap, Forget, Slots
  <1>1. p # NOPID
    BY OwnPids
  <1>2. Own' = Own \ {p}
    BY <1>0 DEF Own
  <1>3. WaitsForAll' /\ XargsNoOrphans'
    <2>1. \/ (cause_exit' # 0 => waitall') /\ (waitall => waitall')
          \/ UNCHANGED <<waitall, cause_exit>>
      BY DEF Reap, Judge
    <2> QED BY <1>0, <2>1 DEF WaitsForAll, XargsNoOrphans
  <1>4. CASE findslot(p) = {}
    <2>1. p \notin Own
      <3>1. \A s \in Slots : childpids[s] # p
        BY <1>4, SlotFound
      <3> QED BY <3>1 DEF XargsSlots
    <2>2. Own' = Own
      BY <1>2, <2>1
    <2>3. UNCHANGED <<childpids, curprocs>>
      BY <1>4 DEF Reap, pids_remove
    <2> QED BY <1>0, <1>3, <2>2, <2>3 DEF XargsTypes, XargsSlots
  <1>5. CASE findslot(p) # {}
    <2>1. PICK s \in findslot(p) : childpids' = [childpids EXCEPT ![s] = NOPID]
      BY <1>5 DEF Reap, pids_remove
    <2>2. s \in Slots /\ childpids[s] = p /\ curprocs' = curprocs - 1
      BY <1>5, <2>1 DEF Reap, pids_remove, findslot
    <2>3. p \in Own
      BY <1>1, <2>2 DEF XargsSlots
    <2>4. Cardinality(Own') = Cardinality(Own) - 1
      BY Zenon, <1>2, <2>3, OwnPids, FS_RemoveElement
    <2>5. XargsTypes'
      BY Zenon, <1>0, <2>1 DEF XargsTypes, NOPID
    <2>6. {childpids'[t] : t \in Slots} \ {NOPID} = Own'
      BY <1>1, <1>2, <2>1, <2>2 DEF XargsSlots, XargsTypes
    <2>7. \A t, u \in Slots : childpids'[t] = childpids'[u] /\ t # u
                                => childpids'[t] = NOPID
      BY <2>1, <2>2 DEF XargsSlots, XargsTypes
    <2>8. XargsSlots'
      BY <1>0, <2>2, <2>4, <2>6, <2>7, OwnPids DEF XargsSlots, XargsTypes
    <2> QED BY <1>3, <2>5, <2>8
  <1> QED BY <1>4, <1>5

-----------------------------------------------------------------------------
LEMMA XargsInvNext == XargsInv /\ [XargsNext]_xargsVars => XargsInv'
  <1> SUFFICES ASSUME XargsInv, [XargsNext]_xargsVars PROVE XargsInv'
    OBVIOUS
  <1>1. CASE UNCHANGED xargsVars
    BY <1>1 DEF xargsVars, XargsInv, XargsTypes, XargsSlots, WaitsForAll,
       XargsNoOrphans, Own, Slots
  <1>2. CASE XargsNext
    BY <1>2, RunStep, EnterWaitStep, ChildEndsStep, WaitDoneStep, ReapStep
    DEF XargsNext
  <1> QED BY <1>1, <1>2

LEMMA XargsInvariant == XargsSpec => []XargsInv
  BY XargsInvInit, XargsInvNext, PTL DEF XargsSpec

\* For any -P and any inherited children the table of pids is exact: run()
\* finds a free slot and at most maxprocs commands are under way.
THEOREM XargsTableExact == XargsSpec => []XargsSlots
  <1>1. XargsInv => XargsSlots
    BY DEF XargsInv
  <1> QED BY <1>1, XargsInvariant, PTL

\* However xargs comes to its end, it has waited for every command it began.
THEOREM XargsLeavesNone == XargsSpec => []XargsNoOrphans
  <1>1. XargsInv => XargsNoOrphans
    BY DEF XargsInv
  <1> QED BY <1>1, XargsInvariant, PTL

-----------------------------------------------------------------------------
(* After a command that dies or exits with 255 no other is begun.          *)

Ending == {255, SIGNALED}
Stopped == \E n \in 1..xpid : ended[n] \in Ending /\ n \notin Own

\* The status the kernel keeps for a command is how it ended; once it has been
\* seen, the loop of waitchildren() is bound to end in an exit.
StopInv ==
    /\ DOMAIN ended = 1..xpid /\ ended = [n \in 1..xpid |-> ended[n]]
    /\ \A n \in Own : ended[n] \in Ending => xkids[n] = ended[n]
    /\ Stopped => \/ xpc = "exit"
                  \/ xpc = "wait" /\ (cause_exit # 0 \/ exit_code # NONE)

LEMMA StopInvInit == XargsInit => StopInv
  <1> SUFFICES ASSUME XargsInit PROVE StopInv
    OBVIOUS
  <1>1. 1..xpid = {}
    BY DEF XargsInit
  <1>2. ended = [n \in 1..xpid |-> ended[n]]
    BY <1>1 DEF XargsInit
  <1>3. Own = {}
    <2>1. DOMAIN xkids = Strangers
      BY DEF XargsInit
    <2> QED BY <2>1, StrangerPids DEF Own
  <1> QED BY <1>1, <1>2, <1>3 DEF StopInv, Stopped

\* Steps that neither begin, end nor reap a command.
LEMMA StopStays ==
  ASSUME StopInv, UNCHANGED <<xpid, ended, xkids>>,
         Stopped => \/ xpc' = "exit"
                    \/ xpc' = "wait" /\ (cause_exit' # 0 \/ exit_code' # NONE)
  PROVE  StopInv'
  BY DEF StopInv, Stopped, Own

LEMMA StopRunStep ==
  ASSUME XargsInv, StopInv, Run PROVE StopInv'
  <1>1. PICK err \in {0, ENOENT, EACCES} :
            /\ xkids' = [p \in DOMAIN xkids \cup {xpid + 1} |->
                            IF p = xpid + 1 THEN (IF err = 0 THEN RUNNING ELSE FAILING)
                                            ELSE xkids[p]]
            /\ ended' = [n \in 1..(xpid + 1) |->
                            IF n = xpid + 1 THEN (IF err = 0 THEN RUNNING ELSE -err)
                                            ELSE ended[n]]
    BY DEF Run
  <1>2. xpid' = xpid + 1 /\ xpid \in Nat /\ ~Stopped
    BY DEF Run, XargsInv, XargsTypes, StopInv
  <1>3. /\ DOMAIN ended' = 1..xpid' /\ ended' = [n \in 1..xpid' |-> ended'[n]]
    BY <1>1, <1>2
  <1>4. ended'[xpid + 1] \notin Ending
    BY <1>1, <1>2 DEF Ending, SIGNALED, RUNNING, ENOENT, EACCES
  <1>5. \A n \in 1..xpid : ended'[n] = ended[n]
    BY <1>1, <1>2
  <1>6. Own' = Own \cup {xpid + 1} /\ Own \subseteq 1..xpid
    BY <1>1, <1>2, OwnPids DEF Own, XargsInv
  <1>7. \A n \in Own : xkids'[n] = xkids[n]
    BY <1>1, <1>6, <1>2 DEF Own
  <1>8. \A n \in Own' : ended'[n] \in Ending => xkids'[n] = ended'[n]
    BY <1>4, <1>5, <1>6, <1>7 DEF StopInv
  <1>9. ~Stopped'
    BY <1>2, <1>4, <1>5, <1>6 DEF Stopped
  <1> QED BY <1>3, <1>8, <1>9 DEF StopInv

LEMMA StopChildEndsStep ==
  ASSUME XargsInv, StopInv, NEW p \in DOMAIN xkids, XChildEnds(p)
  PROVE  StopInv'
  <1>1. PICK st : /\ xkids' = [xkids EXCEPT ![p] = st]
                  /\ ended' = IF p > 0 /\ xkids[p] = RUNNING
                              THEN [ended EXCEPT ![p] = st] ELSE ended
    BY Zenon DEF XChildEnds
  <1>2. Own' = Own /\ xpid' = xpid /\ Own \subseteq 1..xpid
    BY <1>1, OwnPids DEF XChildEnds, Own, XargsInv
  <1>3. DOMAIN ended' = 1..xpid' /\ ended' = [n \in 1..xpid' |-> ended'[n]]
    BY Zenon, <1>1, <1>2 DEF StopInv
  <1>4. \A n \in 1..xpid : n # p => ended'[n] = ended[n]
    BY <1>1 DEF StopInv
  <1>5. \A n \in Own : n # p => xkids'[n] = xkids[n]
    BY <1>1 DEF Own
  <1>6. p \in Own /\ ended'[p] \in Ending => xkids'[p] = ended'[p]
    <2>1. ASSUME p \in Own, xkids[p] = RUNNING PROVE xkids'[p] = ended'[p]
      BY <1>1, <1>2, <2>1 DEF StopInv, Own
    <2>2. ASSUME p \in Own, xkids[p] # RUNNING PROVE ended'[p] \notin Ending
      BY <1>1, <2>2 DEF StopInv, XChildEnds, Alive, Ending, SIGNALED, FAILING,
                        RUNNING
    <2> QED BY <2>1, <2>2
  <1>7. \A n \in Own' : ended'[n] \in Ending => xkids'[n] = ended'[n]
    BY <1>2, <1>4, <1>5, <1>6 DEF StopInv
  <1>8. \A n \in 1..xpid : n \notin Own => ended'[n] = ended[n]
    <2>1. p \notin Own => ended' = ended
      BY <1>1 DEF Own
    <2> QED BY <1>4, <2>1
  <1>9. Stopped' => Stopped
    BY <1>2, <1>8 DEF Stopped
  <1> QED BY <1>3, <1>7, <1>9 DEF StopInv, XChildEnds

LEMMA StopReapStep ==
  ASSUME XargsInv, StopInv, NEW p \in DOMAIN xkids, Reap(p)
  PROVE  StopInv'
  <1>1. /\ xkids' = [q \in DOMAIN xkids \ {p} |-> xkids[q]]
        /\ UNCHANGED <<xpid, ended, xpc, exit_code>> /\ xpc = "wait"
    BY DEF Reap, Forget
  <1>2. Own' = Own \ {p}
    BY <1>1 DEF Own
  <1>3. \A n \in Own' : xkids'[n] = xkids[n]
    BY <1>1, <1>2 DEF Own
  <1>4. \A n \in Own' : ended'[n] \in Ending => xkids'[n] = ended'[n]
    BY Zenon, <1>1, <1>2, <1>3 DEF StopInv
  <1>5. cause_exit # 0 => cause_exit' # 0
    BY DEF Reap, Judge, NotRun
  <1>6. ASSUME p \in Own, ended[p] \in Ending PROVE cause_exit' # 0
    <2>1. xkids[p] \in Ending
      BY <1>6 DEF StopInv
    <2>2. findslot(p) # {}
      <3>1. \E s \in Slots : childpids[s] = p
        BY <1>6 DEF XargsInv, XargsSlots
      <3> QED BY <3>1, SlotFound DEF XargsInv
    <2> QED BY <2>1, <2>2 DEF Reap, Judge, NotRun, EndsXargs, Ending
  <1>7. Stopped' => cause_exit' # 0 \/ exit_code' # NONE
    BY <1>1, <1>2, <1>5, <1>6 DEF Stopped, StopInv
  <1> QED BY Zenon, <1>1, <1>4, <1>7 DEF StopInv

LEMMA StopInvNext == XargsInv /\ StopInv /\ [XargsNext]_xargsVars => StopInv'
  <1> SUFFICES ASSUME XargsInv, StopInv, [XargsNext]_xargsVars PROVE StopInv'
    OBVIOUS
  <1>1. CASE UNCHANGED xargsVars
    BY SMTT(30), <1>1, StopStays DEF xargsVars, StopInv
  <1>2. CASE RunFails \/ InputEnds \/ EofString \/ InputError
    <2>1. ~Stopped
      BY Zenon, <1>2 DEF StopInv, RunFails, InputEnds, EofString, InputError
    <2> QED BY Zenon, <1>2, <2>1, StopStays
      DEF RunFails, InputEnds, EofString, InputError
  <1>3. CASE WaitDone
    <2>1. Stopped => xpc' = "exit"
      BY <1>3 DEF StopInv, WaitDone
    <2> QED BY <1>3, <2>1, StopStays DEF WaitDone
  <1> QED BY <1>1, <1>2, <1>3, StopRunStep, StopChildEndsStep, StopReapStep
    DEF XargsNext

\* For any -P and any number of commands, no command is begun once
\* waitchildren() has seen one die of a signal or exit with 255.
THEOREM XargsAlwaysStops == XargsSpec => XargsStops
  <1>1. StopInv /\ [XargsNext]_xargsVars =>
          [(\E n \in 1..xpid : ended[n] \in {255, SIGNALED} /\ n \notin Own)
             => xpid' = xpid]_xargsVars
    <2> SUFFICES ASSUME StopInv, XargsNext, Stopped PROVE xpid' = xpid
      BY DEF Stopped, Ending
    <2>1. xpc # "read"
      BY DEF StopInv
    <2> QED BY Zenon, <2>1
      DEF XargsNext, Run, RunFails, InputEnds, EofString, InputError, WaitDone,
          XChildEnds, Reap
  <1> QED BY <1>1, XargsInvariant, StopInvInit, StopInvNext, PTL
    DEF XargsSpec, XargsStops

-----------------------------------------------------------------------------
(* The exit status without -P.                                             *)

\* The command under way, if any, is the last one begun, and nothing has been
\* made of it: waitchildren() is in its first turn.  childerr says whether it
\* could be executed.
Pending(n) ==
    /\ n = xpid /\ xpc = "wait" /\ exit_code = NONE /\ cause_exit = 0
    /\ childerr = 0 => /\ ended[n] = xkids[n]
                       /\ xkids[n] \in EndStatuses \cup {RUNNING}
    /\ childerr # 0 => ended[n] = -childerr /\ xkids[n] # RUNNING

\* The commands waited for are those rval speaks of.
Judged(n) == ended[n] \in EndStatuses /\ (rval = 0 => ended[n] = 0)

\* A cause to exit is that of the command that could not be executed.
Causes ==
    /\ cause_exit = 127 <=> \E n \in 1..xpid : ended[n] = -ENOENT
    /\ cause_exit = 126 <=> \E n \in 1..xpid : ended[n] = -EACCES

\* An exit under way: with 0 only when the input has ended and rval is 0.
Exits ==
    /\ exit_code \in {NONE, LATER, 0, 1}
    /\ exit_code \in {LATER, 0} => todo = 0
    /\ exit_code = 0 => rval = 0

OneByOne ==
    /\ xpc # "exit" => Exits
    /\ \A n \in Own : Pending(n)
    /\ xpc # "exit" /\ cause_exit = 0 => \A n \in 1..xpid \ Own : Judged(n)
    /\ xpc = "wait" /\ cause_exit # 0 => Causes

SerialInv ==
    /\ childerr \in {0, ENOENT, EACCES} /\ rval \in {0, 1}
    /\ xpc = "read" => cause_exit = 0
    /\ maxprocs = 1 => OneByOne
    /\ XargsSerial

(* With one slot, xargs reads on or exits only when no command is under    *)
(* way.                                                                    *)
LEMMA SerialIdle ==
  ASSUME XargsInv, maxprocs = 1, xpc = "read" \/ Nothing
  PROVE  Own = {}
  <1>1. curprocs = Cardinality(Own) /\ curprocs \in Nat /\ IsFiniteSet(Own)
    BY OwnPids DEF XargsInv, XargsSlots
  <1>2. curprocs = 0
    BY <1>1 DEF Nothing, pids_empty, pids_full, XargsInv, XargsSlots
  <1> QED BY Zenon, <1>1, <1>2, FS_EmptySet

LEMMA SerialInvInit == XargsInit => SerialInv
  <1> SUFFICES ASSUME XargsInit PROVE SerialInv
    OBVIOUS
  <1>1. 1..xpid = {} /\ Own = {}
    <2>1. DOMAIN xkids = Strangers /\ xpid = 0
      BY DEF XargsInit
    <2> QED BY <2>1, StrangerPids DEF Own
  <1>2. /\ xpc = "read" /\ exit_code = NONE /\ cause_exit = 0
        /\ childerr = 0 /\ rval = 0
    BY DEF XargsInit
  <1> QED BY <1>1, <1>2 DEF SerialInv, OneByOne, Exits, XargsSerial, NONE, LATER

(* run(): the commands before this one have all been judged.               *)
LEMMA SerialRunStep ==
  ASSUME XargsInv, StopInv, SerialInv, Run
  PROVE  SerialInv'
  <1>0. maxprocs' = maxprocs /\ xpc = "read" /\ exit_code = NONE /\ xpid \in Nat
    BY DEF Run, XargsInv, WaitsForAll, XargsTypes
  <1>1. PICK err \in {0, ENOENT, EACCES} :
            /\ childerr' = err
            /\ xkids' = [p \in DOMAIN xkids \cup {xpid + 1} |->
                            IF p = xpid + 1 THEN (IF err = 0 THEN RUNNING ELSE FAILING)
                                            ELSE xkids[p]]
            /\ ended' = [n \in 1..(xpid + 1) |->
                            IF n = xpid + 1 THEN (IF err = 0 THEN RUNNING ELSE -err)
                                            ELSE ended[n]]
    BY DEF Run
  <1>2. xpid' = xpid + 1 /\ rval' = rval /\ xpc' = "wait" /\ cause_exit' = 0
        /\ exit_code' = NONE
    <2>1. findslot(NOPID) # {}
      <3>1. curprocs < maxprocs
        BY <1>0 DEF XargsInv, XargsSlots
      <3> QED BY <3>1, FreeSlot DEF XargsInv
    <2> QED BY <1>0, <2>1 DEF Run, EnterWait
  <1>3. \A n \in 1..xpid : ended'[n] = ended[n]
    BY <1>0, <1>1
  <1>4. ASSUME maxprocs = 1 PROVE OneByOne'
    <2>1. Own' = {xpid + 1}
      <3>1. Own = {}
        BY <1>0, <1>4, SerialIdle
      <3>2. DOMAIN xkids' = DOMAIN xkids \cup {xpid + 1}
        BY <1>1
      <3> QED BY <1>0, <3>1, <3>2 DEF Own
    <2>2. Own = {} /\ 1..xpid' \ Own' = 1..xpid
      BY <1>0, <1>2, <1>4, <2>1, SerialIdle
    <2>3. \A n \in 1..xpid : Judged(n)'
      BY <1>0, <1>2, <1>3, <1>4, <2>2 DEF SerialInv, OneByOne, Judged
    <2>4. ASSUME NEW n, n = xpid + 1 PROVE Pending(n)'
      <3>1. n \in 1..(xpid + 1) /\ n \in DOMAIN xkids \cup {xpid + 1}
        BY <1>0, <2>4
      <3>2. /\ ended'[n] = IF err = 0 THEN RUNNING ELSE -err
            /\ xkids'[n] = IF err = 0 THEN RUNNING ELSE FAILING
        BY <1>1, <2>4, <3>1
      <3> QED BY <1>1, <1>2, <2>4, <3>2 DEF Pending, RUNNING, FAILING
    <2>5. Exits'
      BY <1>2 DEF Exits, NONE, LATER
    <2> QED BY <1>2, <2>1, <2>2, <2>3, <2>4, <2>5 DEF OneByOne
  <1> QED BY SMTT(30), <1>0, <1>1, <1>2, <1>4 DEF SerialInv, XargsSerial

(* A way into waitchildren() with no command under way.                    *)
LEMMA SerialEnterStep ==
  ASSUME XargsInv, SerialInv, RunFails \/ InputEnds \/ EofString \/ InputError
  PROVE  SerialInv'
  <1>1. /\ xpc = "read" /\ xpc' = "wait" /\ cause_exit' = 0
        /\ UNCHANGED <<maxprocs, rval, xkids, xpid, ended, todo>>
    BY DEF RunFails, InputEnds, EofString, InputError, xexit, EnterWait
  <1>2. /\ (exit_code' \in {rval, LATER} /\ todo = 0) \/ exit_code' = 1
        /\ childerr' \in {0, ENOENT, EACCES}
    BY DEF RunFails, InputEnds, EofString, InputError, xexit, EnterWait, SerialInv
  <1>3. ASSUME maxprocs = 1 PROVE OneByOne'
    <2>1. Own = {} /\ Own' = {}
      BY <1>1, <1>3, SerialIdle DEF Own
    <2>2. \A n \in 1..xpid : Judged(n)
      BY <1>1, <1>3, <2>1 DEF SerialInv, OneByOne
    <2>3. \A n \in 1..xpid : Judged(n)'
      BY <1>1, <2>2 DEF Judged
    <2>4. Exits'
      BY <1>1, <1>2 DEF SerialInv, Exits, NONE, LATER
    <2> QED BY <1>1, <2>1, <2>3, <2>4 DEF OneByOne
  <1> QED BY <1>1, <1>2, <1>3 DEF SerialInv, XargsSerial

(* The end of a command leaves the judgement to waitchildren().            *)
LEMMA SerialChildEndsStep ==
  ASSUME XargsInv, StopInv, SerialInv, NEW p \in DOMAIN xkids, XChildEnds(p)
  PROVE  SerialInv'
  <1>1. PICK st \in EndStatuses :
              /\ xkids' = [xkids EXCEPT ![p] = st]
              /\ ended' = IF p > 0 /\ xkids[p] = RUNNING
                          THEN [ended EXCEPT ![p] = st] ELSE ended
    BY Zenon DEF XChildEnds, EndStatuses
  <1>2. /\ UNCHANGED <<maxprocs, todo, xpc, childerr, rval, cause_exit, exit_code, xpid>>
        /\ Own' = Own /\ Own \subseteq 1..xpid
    BY <1>1, OwnPids DEF XChildEnds, Own, XargsInv
  <1>3. \A n \in 1..xpid : n # p => ended'[n] = ended[n]
    BY <1>1 DEF StopInv
  <1>4. \A n \in 1..xpid : n \notin Own => ended'[n] = ended[n]
    <2>1. p \notin Own => ended' = ended
      BY <1>1 DEF Own
    <2> QED BY <1>3, <2>1
  <1>5. ASSUME maxprocs = 1 PROVE OneByOne'
    <2>1. ASSUME NEW n \in Own PROVE Pending(n)'
      <3>1. Pending(n) /\ n \in 1..xpid /\ n \in DOMAIN xkids /\ n > 0
        BY <1>2, <1>5 DEF SerialInv, OneByOne, Own
      <3>2. CASE n # p
        <4>1. ended'[n] = ended[n] /\ xkids'[n] = xkids[n]
          BY <1>1, <1>3, <3>1, <3>2
        <4> QED BY <1>2, <3>1, <4>1 DEF Pending
      <3>3. CASE n = p
        <4>1. xkids'[n] = st /\ Alive(xkids[n])
          BY SMTT(30), <1>1, <3>1, <3>3 DEF XChildEnds
        <4>2. CASE childerr = 0
          <5>1. xkids[n] = RUNNING
            BY <3>1, <4>1, <4>2 DEF Pending, Alive, EndStatuses, SIGNALED, RUNNING, FAILING
          <5>2. ended'[n] = st
            BY <1>1, <3>1, <3>3, <5>1 DEF StopInv
          <5> QED BY <1>2, <3>1, <4>1, <4>2, <5>2 DEF Pending
        <4>3. CASE childerr # 0
          <5>1. ended' = ended
            BY <1>1, <3>1, <3>3, <4>3 DEF Pending
          <5> QED BY <1>2, <3>1, <4>1, <4>3, <5>1
                  DEF Pending, EndStatuses, SIGNALED, RUNNING
        <4> QED BY <4>2, <4>3
      <3> QED BY <3>2, <3>3
    <2>2. \A n \in 1..xpid \ Own : Judged(n) => Judged(n)'
      BY <1>2, <1>4 DEF Judged
    <2>3. ASSUME xpc = "wait", cause_exit # 0 PROVE Causes'
      <3>1. Own = {}
        BY <1>5, <2>3 DEF SerialInv, OneByOne, Pending
      <3>2. \A n \in 1..xpid : ended'[n] = ended[n]
        BY <1>4, <3>1
      <3>3. Causes
        BY <1>5, <2>3 DEF SerialInv, OneByOne
      <3> QED BY <1>2, <3>2, <3>3 DEF Causes
    <2> QED BY <1>2, <1>5, <2>1, <2>2, <2>3 DEF SerialInv, OneByOne, Exits
  <1>6. XargsSerial'
    <2>1. xpc = "exit" => \A n \in 1..xpid : ended'[n] = ended[n]
      BY <1>4 DEF XargsInv, XargsNoOrphans
    <2> QED BY <1>2, <2>1 DEF SerialInv, XargsSerial
  <1> QED BY <1>2, <1>5, <1>6 DEF SerialInv

(* waitpid() returns a child: the command under way is judged.             *)
LEMMA SerialReapStep ==
  ASSUME XargsInv, StopInv, SerialInv, NEW p \in DOMAIN xkids, Reap(p)
  PROVE  SerialInv'
  <1>1. /\ xkids' = [q \in DOMAIN xkids \ {p} |-> xkids[q]]
        /\ UNCHANGED <<maxprocs, todo, xpc, childerr, exit_code, xpid, ended>>
        /\ xpc = "wait" /\ ~Alive(xkids[p])
    BY DEF Reap, Forget
  <1>2. Own' = Own \ {p} /\ Own \subseteq 1..xpid
    BY <1>1, OwnPids DEF Own, XargsInv
  <1>3. p \notin Own => UNCHANGED <<cause_exit, rval>>
    <2>1. p \notin Own => findslot(p) = {}
      <3>1. p # NOPID
        BY StrangerPids DEF XargsInv, XargsTypes, NOPID
      <3>2. \A t \in Slots : childpids[t] = p => p \in Own
        BY <3>1 DEF XargsInv, XargsSlots
      <3> QED BY <3>2 DEF findslot
    <2> QED BY <2>1 DEF Reap
  <1>4. p \in Own => Judge(xkids[p])
    <2>1. p \in Own => \E t \in Slots : childpids[t] = p
      BY DEF XargsInv, XargsSlots
    <2>2. p \in Own => findslot(p) # {}
      BY <2>1, SlotFound DEF XargsInv
    <2> QED BY <2>2 DEF Reap
  <1>5. rval' \in {0, 1}
    BY <1>3, <1>4 DEF SerialInv, Judge, RvalAfter
  <1>6. ASSUME maxprocs = 1, p \notin Own PROVE OneByOne'
    <2>1. Own' = Own /\ \A n \in Own : xkids'[n] = xkids[n]
      BY <1>1, <1>2, <1>6 DEF Own
    <2>2. OneByOne
      BY <1>6 DEF SerialInv
    <2>3. \A n \in Own : Pending(n)'
      BY <1>1, <1>3, <1>6, <2>1, <2>2 DEF OneByOne, Pending
    <2> QED BY <1>1, <1>3, <1>6, <2>1, <2>2, <2>3 DEF OneByOne, Exits, Judged, Causes
  <1>7. ASSUME maxprocs = 1, p \in Own PROVE OneByOne'
    <2>1. Own' = {} /\ Pending(p) /\ Own = {p} /\ p = xpid
      BY ZenonT(30), <1>2, <1>7 DEF SerialInv, OneByOne, Pending
    <2>2. \A n \in 1..xpid : n # p => Judged(n)
      BY SMTT(30), <1>1, <1>7, <2>1 DEF SerialInv, OneByOne, Pending
    <2>3. Exits'
      BY SMTT(30), <1>1, <2>1 DEF Pending, Exits, NONE, LATER
    <2>4. CASE childerr # 0
      <3>1. cause_exit' = NotRun /\ ended[p] = -childerr
        BY <1>4, <1>7, <2>1, <2>4 DEF Judge, Pending
      <3>2. \A n \in 1..xpid : n # p => ended[n] # -ENOENT /\ ended[n] # -EACCES
        BY <2>2 DEF Judged, EndStatuses, SIGNALED, ENOENT, EACCES
      <3>3. Causes'
        <4>1. p \in 1..xpid
          BY Zenon, <1>2, <1>7
        <4>2. CASE childerr = ENOENT
          BY <1>1, <3>1, <3>2, <4>1, <4>2 DEF Causes, NotRun, ENOENT, EACCES
        <4>3. CASE childerr = EACCES
          BY <1>1, <3>1, <3>2, <4>1, <4>3 DEF Causes, NotRun, ENOENT, EACCES
        <4> QED BY <2>4, <4>2, <4>3 DEF SerialInv
      <3> QED BY SMTT(30), <1>1, <2>1, <2>3, <3>1, <3>3 DEF OneByOne, NotRun
    <2>5. CASE childerr = 0
      <3>1. ended[p] = xkids[p] /\ ended[p] \in EndStatuses
        BY <1>1, <2>1, <2>5 DEF Pending, Alive
      <3>2. CASE EndsXargs(xkids[p])
        <4>1. cause_exit' = 1
          BY <1>4, <1>7, <2>5, <3>2 DEF Judge
        <4>2. \A n \in 1..xpid : ended[n] \in EndStatuses
          BY <2>2, <3>1 DEF Judged
        <4>3. Causes'
          BY <1>1, <4>1, <4>2 DEF Causes, EndStatuses, SIGNALED, ENOENT, EACCES
        <4> QED BY <1>1, <2>1, <2>3, <4>1, <4>3 DEF OneByOne
      <3>3. CASE ~EndsXargs(xkids[p])
        <4>1. rval' = RvalAfter(xkids[p]) /\ cause_exit' = 0
          BY SMTT(30), <1>4, <1>7, <2>1, <2>5, <3>3 DEF Judge, Pending
        <4>2. rval' = 0 => rval = 0 /\ ended[p] = 0
          BY <3>1, <4>1 DEF RvalAfter
        <4>3. \A n \in 1..xpid : Judged(n)'
          BY <1>1, <2>2, <3>1, <4>2 DEF Judged
        <4> QED BY SMTT(30), <1>1, <2>1, <2>3, <4>1, <4>3 DEF OneByOne
      <3> QED BY <3>2, <3>3
    <2> QED BY <2>4, <2>5
  <1> QED BY <1>1, <1>5, <1>6, <1>7 DEF SerialInv, XargsSerial

(* waitchildren() returns, or the exit that was asked for follows.         *)
LEMMA SerialWaitDoneStep ==
  ASSUME XargsInv, SerialInv, WaitDone
  PROVE  SerialInv'
  <1>1. /\ xpc = "wait" /\ Nothing
        /\ UNCHANGED <<maxprocs, todo, childerr, rval, cause_exit, xkids, xpid, ended>>
        /\ IF cause_exit # 0
           THEN xpc' = "exit" /\ exit_code' = cause_exit
           ELSE /\ xpc' = IF exit_code = NONE THEN "read" ELSE "exit"
                /\ exit_code' = IF exit_code = LATER THEN rval ELSE exit_code
    BY DEF WaitDone
  <1>2. xpc' = "read" => cause_exit' = 0
    BY <1>1
  <1>3. CASE maxprocs = 1
    <2>1. OneByOne /\ Own = {} /\ Own' = {}
      BY <1>1, <1>3, SerialIdle DEF SerialInv, Own
    <2>2. CASE cause_exit # 0
      <3>1. Causes /\ Exits
        BY <1>1, <2>1, <2>2 DEF OneByOne
      <3>2. XargsSerial'
        BY <1>1, <2>2, <3>1 DEF Causes, XargsSerial
      <3>3. OneByOne'
        BY <1>1, <2>1, <2>2 DEF OneByOne
      <3> QED BY <1>1, <1>2, <3>2, <3>3 DEF SerialInv
    <2>3. CASE cause_exit = 0
      <3>1. Exits /\ \A n \in 1..xpid : Judged(n)
        BY SMTT(30), <1>1, <2>1, <2>3 DEF OneByOne
      <3>2. CASE exit_code = NONE
        <4>1. xpc' = "read" /\ exit_code' = NONE
          BY <1>1, <2>3, <3>2 DEF NONE, LATER
        <4>2. Exits' /\ \A n \in 1..xpid : Judged(n)'
          BY <1>1, <3>1, <4>1 DEF Exits, Judged, NONE, LATER
        <4>3. OneByOne'
          BY SMTT(30), <1>1, <2>1, <2>3, <4>1, <4>2 DEF OneByOne
        <4> QED BY <1>1, <1>2, <4>1, <4>3 DEF SerialInv, XargsSerial
      <3>3. CASE exit_code # NONE
        <4>1. xpc' = "exit" /\ exit_code' \in {0, 1}
              /\ (exit_code' = 0 => todo = 0 /\ rval = 0)
          BY <1>1, <2>3, <3>1, <3>3 DEF Exits, SerialInv
        <4>2. \A n \in 1..xpid : /\ ended[n] # -ENOENT /\ ended[n] # -EACCES
                                 /\ rval = 0 => ended[n] = 0
          BY <3>1 DEF Judged, EndStatuses, SIGNALED, ENOENT, EACCES
        <4>3. XargsSerial'
          BY <1>1, <4>1, <4>2 DEF XargsSerial
        <4>4. OneByOne'
          BY <2>1, <4>1 DEF OneByOne
        <4> QED BY <1>1, <1>2, <4>3, <4>4 DEF SerialInv
      <3> QED BY <3>2, <3>3
    <2> QED BY <2>2, <2>3
  <1>4. CASE maxprocs # 1
    BY <1>1, <1>2, <1>4 DEF SerialInv, XargsSerial
  <1> QED BY <1>3, <1>4

(* Without -P, xargs exits with 127 or 126 exactly when a command could    *)
(* not be found or executed, and with 0 only if it ran every command and   *)
(* each exited with 0: for any number of commands and inherited children.  *)
THEOREM XargsSerialExact == XargsSpec => []XargsSerial
  <1>1. XargsInv /\ StopInv /\ SerialInv /\ [XargsNext]_xargsVars => SerialInv'
    <2> SUFFICES ASSUME XargsInv, StopInv, SerialInv, [XargsNext]_xargsVars
                 PROVE  SerialInv'
      BY SMTT(30)
    <2>1. CASE UNCHANGED xargsVars
      BY <2>1 DEF xargsVars, SerialInv, OneByOne, Exits, Pending, Judged, Causes,
         XargsSerial, Own
    <2>2. CASE XargsNext
      BY <2>2, SerialRunStep, SerialEnterStep, SerialChildEndsStep, SerialReapStep,
         SerialWaitDoneStep DEF XargsNext
    <2> QED BY <2>1, <2>2
  <1>2. SerialInv => XargsSerial
    BY DEF SerialInv
  <1> QED BY <1>1, <1>2, XargsInvariant, StopInvInit, StopInvNext, SerialInvInit, PTL
    DEF XargsSpec
=============================================================================
