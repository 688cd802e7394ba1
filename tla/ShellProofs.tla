----------------------------- MODULE ShellProofs -----------------------------
(***************************************************************************)
(* Proofs about shlock and about the signals and traps of sh.  The two     *)
(* parts are independent of each other.                                    *)
(***************************************************************************)
EXTENDS Shlock, ShTrap, TLAPS

-----------------------------------------------------------------------------
(* Proofs about shlock: for any number of scripts, runs and deaths the     *)
(* lock file holds a pid from the instant it is there, and as long as      *)
(* nobody has died at most one script has the lock.                        *)

Locations == {"idle", "open", "write", "link", "cklock", "kill", "unlink",
              "clean", "hold", "dead"}

\* From the end of xtmpfile() to the end of mklock().
Written(s) == spc[s] \in {"link", "cklock", "kill", "unlink", "clean"}

Holds(s) == spc[s] = "hold" \/ (spc[s] = "clean" /\ got[s])

ShlockTypes ==
    /\ lockfile \in Scripts \cup {NOFILE}
    /\ tmpfile \in [Scripts -> Scripts \cup {NOFILE, EMPTY}]
    /\ spc \in [Scripts -> Locations]
    /\ seen \in [Scripts -> Scripts \cup {NOFILE}]
    /\ got \in [Scripts -> BOOLEAN]
    /\ deaths \in Nat

\* The temporary file that mklock() links has its pid.
TmpWritten == \A s \in Scripts : Written(s) => tmpfile[s] = s

\* Without a death no lock is ever stale, so that none is removed but by the
\* script that has it.
NoneStale ==
    deaths = 0 =>
        \A s \in Scripts :
            /\ spc[s] \notin {"dead", "unlink"}
            /\ spc[s] = "kill" => seen[s] \in Scripts
            /\ Holds(s) => lockfile = s

\* retcode is set by the link() that succeeds, just before the end.
GotAtTheEnd == \A s \in Scripts : got[s] => spc[s] = "clean"

ShlockInv == ShlockTypes /\ TmpWritten /\ GotAtTheEnd /\ NoneStale

LEMMA PidsArePositive == NOFILE \notin Scripts /\ EMPTY \notin Scripts
  BY ShlockAssumption DEF ShlockAssumption, NOFILE, EMPTY

LEMMA ShlockInvInit == ShlockInit => ShlockInv
  BY SMTT(30), PidsArePositive
  DEF ShlockInit, ShlockInv, ShlockTypes, TmpWritten, GotAtTheEnd,
      NoneStale, Written, Holds, Locations, NOFILE, EMPTY

LEMMA ShlockInvNext == ShlockInv /\ [ShlockNext]_shlockVars => ShlockInv'
  <1> SUFFICES ASSUME ShlockInv, [ShlockNext]_shlockVars PROVE ShlockInv'
    OBVIOUS
  <1> USE PidsArePositive DEF ShlockInv, ShlockTypes, Locations, GotAtTheEnd
  <1>1. CASE UNCHANGED shlockVars
    BY <1>1 DEF shlockVars, TmpWritten, NoneStale, Written, Holds
  <1>2. ASSUME NEW s \in Scripts, Begin(s) PROVE ShlockInv'
    BY <1>2 DEF Begin, Goto, TmpWritten, NoneStale, Written, Holds
  <1>3. ASSUME NEW s \in Scripts, OpenTmp(s) PROVE ShlockInv'
    BY <1>3 DEF OpenTmp, Goto, TmpWritten, NoneStale, Written, Holds
  <1>4. ASSUME NEW s \in Scripts, WriteTmp(s) PROVE ShlockInv'
    BY <1>4 DEF WriteTmp, Goto, TmpWritten, NoneStale, Written, Holds
  <1>5. ASSUME NEW s \in Scripts, WriteFails(s) PROVE ShlockInv'
    BY <1>5 DEF WriteFails, Goto, TmpWritten, NoneStale, Written, Holds
  <1>6. ASSUME NEW s \in Scripts, Link(s) PROVE ShlockInv'
    <2>1. tmpfile[s] = s
      BY <1>6 DEF Link, TmpWritten, Written
    <2>2. CASE lockfile = NOFILE
      <3>1. ShlockTypes'
        BY Zenon, <1>6, <2>1, <2>2 DEF Link, Goto
      <3>2. TmpWritten' /\ GotAtTheEnd' /\ NoneStale'
        BY <1>6, <2>1, <2>2 DEF Link, Goto, TmpWritten, Written, NoneStale, Holds
      <3> QED BY <3>1, <3>2
    <2>3. CASE lockfile # NOFILE
      BY <1>6, <2>3 DEF Link, Goto, TmpWritten, Written, NoneStale, Holds
    <2> QED BY <2>2, <2>3
  <1>7. ASSUME NEW s \in Scripts, ReadLock(s) PROVE ShlockInv'
    <2>1. ShlockTypes' /\ TmpWritten' /\ GotAtTheEnd'
      BY <1>7 DEF ReadLock, Goto, TmpWritten, Written
    <2>2. NoneStale'
      BY <1>7 DEF ReadLock, Goto, NoneStale, Holds
    <2> QED BY <2>1, <2>2
  <1>8. ASSUME NEW s \in Scripts, CheckPid(s) PROVE ShlockInv'
    <2>1. ShlockTypes' /\ TmpWritten' /\ GotAtTheEnd'
      BY <1>8 DEF CheckPid, Goto, TmpWritten, Written
    <2>2. deaths = 0 => p_exists(seen[s])
      BY <1>8 DEF CheckPid, p_exists, NoneStale
    <2>3. NoneStale'
      BY <1>8, <2>2 DEF CheckPid, Goto, NoneStale, Holds
    <2> QED BY <2>1, <2>3
  <1>9. ASSUME NEW s \in Scripts, Remove(s) PROVE ShlockInv'
    <2>1. ShlockTypes' /\ TmpWritten' /\ GotAtTheEnd'
      BY <1>9 DEF Remove, Goto, TmpWritten, Written
    <2>2. NoneStale'
      BY <1>9 DEF Remove, NoneStale
    <2> QED BY <2>1, <2>2
  <1>10. ASSUME NEW s \in Scripts, Clean(s) PROVE ShlockInv'
    <2>1. ShlockTypes' /\ TmpWritten' /\ GotAtTheEnd'
      BY <1>10 DEF Clean, Goto, TmpWritten, Written
    <2>2. NoneStale'
      BY <1>10 DEF Clean, Goto, NoneStale, Holds
    <2> QED BY <2>1, <2>2
  <1>11. ASSUME NEW s \in Scripts, Release(s) PROVE ShlockInv'
    <2>1. ShlockTypes' /\ TmpWritten' /\ GotAtTheEnd'
      BY <1>11 DEF Release, Goto, TmpWritten, Written
    <2>2. deaths = 0 => \A t \in Scripts \ {s} : ~Holds(t)
      BY <1>11 DEF Release, NoneStale, Holds
    <2>3. NoneStale'
      BY <1>11, <2>2 DEF Release, Goto, NoneStale, Holds
    <2> QED BY <2>1, <2>3
  <1>12. ASSUME NEW s \in Scripts, Die(s) PROVE ShlockInv'
    BY <1>12 DEF Die, Goto, TmpWritten, NoneStale, Written, Holds
  <1>13. ASSUME NEW s \in Scripts, Reborn(s) PROVE ShlockInv'
    BY <1>13 DEF Reborn, Goto, TmpWritten, NoneStale, Written, Holds
  <1>14. ASSUME NEW s \in Scripts, CallFails(s) PROVE ShlockInv'
    BY <1>14 DEF CallFails, Goto, TmpWritten, NoneStale, Written, Holds
  <1> QED
    BY <1>1, <1>2, <1>3, <1>4, <1>5, <1>6, <1>7, <1>8, <1>9, <1>10, <1>11,
       <1>12, <1>13, <1>14
    DEF ShlockNext, ShlockStep

LEMMA ShlockInvariant == ShlockSpec => []ShlockInv
  BY ShlockInvInit, ShlockInvNext, PTL DEF ShlockSpec

\* The lock file never lacks its pid, whoever dies between any two calls of
\* mklock() and xtmpfile(), and however many scripts there are.
THEOREM LockAlwaysComplete == ShlockSpec => []LockComplete
  <1>1. ShlockInv => LockComplete
    BY PidsArePositive
    DEF ShlockInv, ShlockTypes, LockComplete, NOFILE, EMPTY
  <1> QED BY <1>1, ShlockInvariant, PTL

\* As long as no process has died, mklock() gives the lock to one script at a
\* time, for any number of scripts.
THEOREM LockAlwaysExclusive == ShlockSpec => []LockExclusive
  <1>1. ShlockInv => LockExclusive
    BY DEF ShlockInv, NoneStale, LockExclusive, Holds
  <1> QED BY <1>1, ShlockInvariant, PTL

-----------------------------------------------------------------------------
(* Proofs about the traps of sh: for any set of signals, any nesting of    *)
(* trap actions and any number of signals, no noted signal is forgotten,   *)
(* and wait never sleeps on something that has already happened.           *)

Frame == [pc : {"eval", "clear", "scan", "take", "wcheck", "wsuspend",
                "wbreak", "trapset", "check"},
          i : 0..NSIG]

InDotrap == {"clear", "scan", "take"}

ShTrapTypes ==
    /\ frames \in Seq(Frame) /\ Len(frames) > 0
    /\ trap \in [Sigs -> {"none", "ignore", "cmd"}]
    /\ gotsig \in [Sigs -> BOOLEAN]
    /\ sigpend \subseteq Sigs

\* Only the frame on top does anything; those below it evaluate a command,
\* whose end has called dotrap().  The script at the bottom is no dotrap().
Stack ==
    /\ \A n \in 1..(Len(frames) - 1) : frames[n].pc = "eval"
    /\ frames[1].pc \notin InDotrap

\* The kernel has the disposition that follows from the traps, except between
\* the two steps of trapcmd().
ModesSet == Top.pc # "trapset" => \A s \in Sigs : sigmode[s] = ModeFor(s, trap[s])

ShTrapInv ==
    ShTrapTypes /\ Stack /\ ModesSet /\ TrapNotLost /\ WaitNoSleep

LEMMA SignalNumbers == Sigs \subseteq 2..20 /\ CHLD \in Sigs /\ NSIG = 21
  BY ShTrapAssumption DEF ShTrapAssumption, INT, QUIT, TERM, CHLD, NSIG

LEMMA ShTrapInvInit == ShTrapInit => ShTrapInv
  BY SignalNumbers
  DEF ShTrapInit, ShTrapInv, ShTrapTypes, Frame, Stack, InDotrap, ModesSet,
      TrapNotLost, WaitNoSleep, Top, ModeFor

-----------------------------------------------------------------------------
(* What a change of the frame on top leaves alone.                         *)

LEMMA TopChanges ==
  ASSUME NEW fs \in Seq(Frame), Len(fs) > 0, NEW f \in Frame
  PROVE  LET fs2 == [fs EXCEPT ![Len(fs)] = f]
         IN  /\ fs2 \in Seq(Frame) /\ Len(fs2) = Len(fs)
             /\ fs2[Len(fs)] = f
             /\ \A n \in 1..(Len(fs) - 1) : fs2[n] = fs[n]
  OBVIOUS

\* GotoT(l) as a change of the whole frame.
LEMMA GotoChanges ==
  ASSUME NEW l \in {"eval", "clear", "scan", "take", "wcheck", "wsuspend",
                    "wbreak", "trapset", "check"},
         ShTrapTypes, GotoT(l)
  PROVE  /\ frames' \in Seq(Frame) /\ Len(frames') = Len(frames)
         /\ Top' = [pc |-> l, i |-> Top.i]
         /\ \A n \in 1..(Len(frames) - 1) : frames'[n] = frames[n]
  <1>1. Top \in Frame
    BY DEF ShTrapTypes, Top
  <1>2. [pc |-> l, i |-> Top.i] \in Frame
    BY <1>1 DEF Frame
  <1>3. frames' = [frames EXCEPT ![Len(frames)] = [pc |-> l, i |-> Top.i]]
    <2>1. [Top EXCEPT !.pc = l] = [pc |-> l, i |-> Top.i]
      BY <1>1 DEF Frame
    <2>2. frames' = [frames EXCEPT ![Len(frames)] = [Top EXCEPT !.pc = l]]
      BY DEF GotoT, Top
    <2> QED BY Zenon, <2>1, <2>2
  <1> QED BY <1>2, <1>3, TopChanges DEF ShTrapTypes, Top

\* A dotrap() under way has yet to look at s.
Ahead(s) == \E n \in 2..Len(frames) : ~Passed(frames[n], s)

\* A frame that comes to another location, but for the scan, keeps the stack
\* in order, and no signal loses the dotrap() that is to look at it.
LEMMA Goes ==
  ASSUME NEW l \in {"eval", "clear", "take", "wcheck", "wsuspend", "wbreak",
                    "trapset", "check"},
         ShTrapInv, GotoT(l),
         l \in InDotrap => Top.pc \in InDotrap \/ Len(frames) > 1
  PROVE  /\ frames' \in Seq(Frame) /\ Len(frames') = Len(frames)
         /\ Top'.pc = l
         /\ Stack'
         /\ \A s \in Sigs : Ahead(s) => Ahead(s)'
  <1>0. ShTrapTypes /\ Stack
    BY DEF ShTrapInv
  <1>1. /\ frames' \in Seq(Frame) /\ Len(frames') = Len(frames)
        /\ Top' = [pc |-> l, i |-> Top.i]
        /\ \A n \in 1..(Len(frames) - 1) : frames'[n] = frames[n]
    BY <1>0, GotoChanges
  <1>2. Len(frames) \in Nat /\ Len(frames) > 0
    BY <1>0 DEF ShTrapTypes
  <1>3. Top'.pc = l /\ frames'[Len(frames)].pc = l
    BY <1>1 DEF Top
  <1>4. Stack'
    <2>1. l \in InDotrap => Len(frames) > 1
      BY <1>0, <1>2 DEF Stack, Top
    <2>2. \A n \in 1..(Len(frames') - 1) : frames'[n].pc = "eval"
      BY <1>0, <1>1 DEF Stack
    <2>3. CASE Len(frames) = 1
      BY <1>3, <2>1, <2>2, <2>3 DEF Stack
    <2>4. CASE Len(frames) > 1
      BY <1>0, <1>1, <1>2, <2>2, <2>4 DEF Stack
    <2>5. Len(frames) = 1 \/ Len(frames) > 1
      <3>1. \A k \in Nat : k > 0 => k = 1 \/ k > 1
        OBVIOUS
      <3> QED BY <1>2, <3>1
    <2> QED BY <2>3, <2>4, <2>5
  <1>5. ASSUME NEW s \in Sigs, Ahead(s) PROVE Ahead(s)'
    <2>1. PICK n \in 2..Len(frames) : ~Passed(frames[n], s)
      BY <1>5 DEF Ahead
    <2>2. ~Passed(frames'[n], s)
      <3>1. CASE n = Len(frames)
        BY <1>3, <3>1 DEF Passed
      <3>2. CASE n < Len(frames)
        BY <1>1, <1>2, <2>1, <3>2
      <3> QED BY <1>2, <3>1, <3>2
    <2> QED BY <1>1, <2>2 DEF Ahead
  <1> QED BY <1>1, <1>3, <1>4, <1>5

\* A step that notes no signal, clears nothing, and goes to a place other than
\* sigsuspend() and the middle of trapcmd().
LEMMA QuietStep ==
  ASSUME NEW l \in {"eval", "clear", "take", "wcheck", "wbreak", "check"},
         ShTrapInv, GotoT(l),
         l \in InDotrap => Top.pc \in InDotrap \/ Len(frames) > 1,
         Top.pc # "trapset", UNCHANGED <<trapSettings, gotsig, pendingsig>>,
         sigpend' \subseteq Sigs
  PROVE  ShTrapInv'
  <1>1. /\ frames' \in Seq(Frame) /\ Len(frames') = Len(frames)
        /\ Top'.pc = l /\ Stack'
        /\ \A s \in Sigs : Ahead(s) => Ahead(s)'
    BY Goes
  <1>2. ShTrapTypes'
    BY <1>1 DEF ShTrapInv, ShTrapTypes, trapSettings
  <1>3. ModesSet'
    BY DEF ShTrapInv, ModesSet, trapSettings, ModeFor
  <1>4. TrapNotLost'
    BY <1>1 DEF ShTrapInv, TrapNotLost, Ahead
  <1>5. WaitNoSleep'
    BY <1>1 DEF WaitNoSleep
  <1> QED BY <1>1, <1>2, <1>3, <1>4, <1>5 DEF ShTrapInv

-----------------------------------------------------------------------------
(* The steps of the kernel.                                                *)

\* Signals pending and the child change; SIGCHLD is pending if the child has
\* gone while wait sleeps.
LEMMA KernelStep ==
  ASSUME ShTrapInv, UNCHANGED <<frames, trapSettings, trapFlags>>,
         sigpend' \subseteq Sigs,
         Top.pc = "wsuspend" => (child' = "zombie" => CHLD \in sigpend')
  PROVE  ShTrapInv'
  BY DEF ShTrapInv, ShTrapTypes, Stack, ModesSet, TrapNotLost, WaitNoSleep,
         Top, trapSettings, trapFlags

LEMMA SendStep ==
  ASSUME ShTrapInv, NEW s \in Sigs, Send(s) PROVE ShTrapInv'
  <1>1. sigpend' \subseteq Sigs /\ sigpend \subseteq sigpend'
    BY DEF Send, Raise, ShTrapInv, ShTrapTypes
  <1>2. Top.pc = "wsuspend" => (child' = "zombie" => CHLD \in sigpend')
    BY <1>1 DEF Send, ShTrapInv, WaitNoSleep
  <1> QED BY <1>1, <1>2, KernelStep DEF Send

LEMMA ChildExitsStep ==
  ASSUME ShTrapInv, ChildExits PROVE ShTrapInv'
  <1>1. sigpend' \subseteq Sigs
    BY SignalNumbers DEF ChildExits, Raise, ShTrapInv, ShTrapTypes
  <1>2. ASSUME Top.pc = "wsuspend" PROVE CHLD \in sigpend'
    <2>1. sigmode[CHLD] = ModeFor(CHLD, trap[CHLD])
      BY <1>2, SignalNumbers DEF ShTrapInv, ModesSet
    <2>2. ~Dropped(CHLD)
      BY <1>2, <2>1 DEF Dropped, Dummy, ModeFor
    <2> QED BY <2>2 DEF ChildExits, Raise
  <1> QED BY <1>1, <1>2, KernelStep DEF ChildExits

\* onsig() sets pendingsig whenever it sets gotsig[].
LEMMA DeliverStep ==
  ASSUME ShTrapInv, NEW s \in Sigs, Deliver(s) PROVE ShTrapInv'
  <1>1. gotsig' \in [Sigs -> BOOLEAN]
    BY Zenon DEF Deliver, onsig, ShTrapInv, ShTrapTypes, trapFlags, Noted
  <1>2. sigpend' \subseteq Sigs
    BY DEF Deliver, ShTrapInv, ShTrapTypes
  <1>3. \A r \in Sigs : gotsig'[r] => pendingsig' # 0 \/ (gotsig[r] /\ pendingsig' = pendingsig)
    BY SignalNumbers DEF Deliver, onsig, ShTrapInv, ShTrapTypes, trapFlags
  <1>4. CASE Top.pc = "wsuspend"
    <2>0. GotoT("wcheck")
      BY <1>4 DEF Deliver
    <2>1. /\ frames' \in Seq(Frame) /\ Len(frames') = Len(frames)
          /\ Top'.pc = "wcheck" /\ Stack'
          /\ \A r \in Sigs : Ahead(r) => Ahead(r)'
      BY <2>0, Goes DEF InDotrap
    <2>2. ShTrapTypes'
      BY <1>1, <1>2, <2>1 DEF Deliver, ShTrapInv, ShTrapTypes, trapSettings
    <2>3. ModesSet'
      BY <1>4 DEF Deliver, ShTrapInv, ModesSet, trapSettings, ModeFor
    <2>4. TrapNotLost'
      BY <1>3, <2>1 DEF ShTrapInv, TrapNotLost, Ahead
    <2>5. WaitNoSleep'
      BY <2>1 DEF WaitNoSleep
    <2> QED BY <2>1, <2>2, <2>3, <2>4, <2>5 DEF ShTrapInv
  <1>5. CASE Top.pc # "wsuspend"
    <2>1. UNCHANGED frames
      BY <1>5 DEF Deliver
    <2>2. ShTrapTypes' /\ Stack' /\ ModesSet' /\ WaitNoSleep'
      BY <1>1, <1>2, <1>5, <2>1
      DEF Deliver, ShTrapInv, ShTrapTypes, Stack, ModesSet, WaitNoSleep, Top,
          trapSettings
    <2>3. TrapNotLost'
      BY <1>3, <2>1 DEF ShTrapInv, TrapNotLost
    <2> QED BY <2>2, <2>3 DEF ShTrapInv
  <1> QED BY <1>4, <1>5

-----------------------------------------------------------------------------
(* The steps of dotrap().                                                  *)

LEMMA CommandEndsStep ==
  ASSUME ShTrapInv, CommandEnds PROVE ShTrapInv'
  <1> DEFINE fs == [frames EXCEPT ![Len(frames)].pc = "eval"]
             f == [pc |-> "clear", i |-> 0]
  <1>1. CASE frames' = fs
    <2>1. GotoT("eval")
      BY <1>1 DEF GotoT
    <2> QED BY <2>1, QuietStep
      DEF CommandEnds, Pc, InDotrap, trapFlags, trapEnv, ShTrapInv, ShTrapTypes
  <1>2. CASE frames' = Append(fs, f)
    <2>1. /\ fs \in Seq(Frame) /\ Len(fs) = Len(frames)
          /\ fs[Len(frames)].pc = "eval"
          /\ \A n \in 1..(Len(frames) - 1) : fs[n] = frames[n]
      <3>1. Top \in Frame
        BY DEF ShTrapInv, ShTrapTypes, Top
      <3>2. [Top EXCEPT !.pc = "eval"] = [pc |-> "eval", i |-> Top.i]
        BY <3>1 DEF Frame
      <3>3. fs = [frames EXCEPT ![Len(frames)] = [pc |-> "eval", i |-> Top.i]]
        <4>1. fs = [frames EXCEPT ![Len(frames)] = [Top EXCEPT !.pc = "eval"]]
          BY DEF Top
        <4> QED BY Zenon, <3>2, <4>1
      <3>4. [pc |-> "eval", i |-> Top.i] \in Frame
        BY <3>1 DEF Frame
      <3> HIDE DEF fs
      <3> QED BY <3>3, <3>4, TopChanges DEF ShTrapInv, ShTrapTypes
    <2> HIDE DEF fs
    <2>2. f \in Frame
      BY SignalNumbers DEF Frame
    <2>3. /\ frames' \in Seq(Frame) /\ Len(frames') = Len(frames) + 1
          /\ frames'[Len(frames) + 1] = f
          /\ \A n \in 1..Len(frames) : frames'[n] = fs[n]
      BY <1>2, <2>1, <2>2 DEF ShTrapInv, ShTrapTypes
    <2>4. Len(frames) \in Nat /\ Len(frames) > 0
      BY DEF ShTrapInv, ShTrapTypes
    <2>5. ShTrapTypes'
      BY <2>3, <2>4
      DEF CommandEnds, ShTrapInv, ShTrapTypes, trapSettings, trapFlags, trapEnv
    <2>6. Stack'
      <3>1. \A n \in 1..Len(frames) : frames'[n].pc = "eval"
        BY <2>1, <2>3, <2>4 DEF ShTrapInv, Stack
      <3>2. Len(frames') - 1 = Len(frames) /\ 1 \in 1..Len(frames)
        BY <2>3, <2>4
      <3> QED BY <3>1, <3>2 DEF Stack, InDotrap
    <2>7. Top'.pc = "clear"
      BY <2>3 DEF Top
    <2>8. ModesSet'
      BY DEF CommandEnds, Pc, ShTrapInv, ModesSet, trapSettings, ModeFor
    <2>9. TrapNotLost'
      <3>1. \A s \in Sigs : ~Passed(frames'[Len(frames')], s)
        BY <2>3 DEF Passed
      <3>2. Len(frames') \in 2..Len(frames')
        BY <2>3, <2>4
      <3> QED BY <3>1, <3>2 DEF TrapNotLost
    <2>10. WaitNoSleep'
      BY <2>7 DEF WaitNoSleep
    <2> QED BY <2>5, <2>6, <2>8, <2>9, <2>10 DEF ShTrapInv
  <1> QED BY <1>1, <1>2 DEF CommandEnds

LEMMA ClearPendingStep ==
  ASSUME ShTrapInv, ClearPending PROVE ShTrapInv'
  <1> DEFINE f == [pc |-> "scan", i |-> 1]
  <1>1. f \in Frame
    BY SignalNumbers DEF Frame
  <1>2. Len(frames) \in Nat /\ Len(frames) > 1
    BY DEF ShTrapInv, ShTrapTypes, Stack, InDotrap, ClearPending, Pc, Top
  <1>3. /\ frames' \in Seq(Frame) /\ Len(frames') = Len(frames)
        /\ frames'[Len(frames)] = f
        /\ \A n \in 1..(Len(frames) - 1) : frames'[n] = frames[n]
    BY SMTT(30), <1>1, <1>2, TopChanges DEF ClearPending, ShTrapInv, ShTrapTypes
  <1>4. ShTrapTypes'
    BY Zenon, <1>2, <1>3
    DEF ClearPending, ShTrapInv, ShTrapTypes, trapSettings, trapEnv
  <1>5. Stack'
    BY <1>2, <1>3 DEF ShTrapInv, Stack
  <1>6. ModesSet'
    BY DEF ClearPending, Pc, ShTrapInv, ModesSet, trapSettings, ModeFor
  <1>7. TrapNotLost'
    <2>1. ASSUME NEW s \in Sigs PROVE ~Passed(frames'[Len(frames')], s)
      <3>1. s \in Int /\ ~(1 > s)
        BY SignalNumbers
      <3> QED BY <1>3, <3>1 DEF Passed
    <2>2. Len(frames') \in 2..Len(frames')
      BY <1>2, <1>3
    <2> QED BY <2>1, <2>2 DEF TrapNotLost
  <1>8. WaitNoSleep'
    BY <1>3 DEF WaitNoSleep, Top
  <1> QED BY <1>4, <1>5, <1>6, <1>7, <1>8 DEF ShTrapInv

\* The scan passes by a signal only if it is not noted.
LEMMA ScanNextStep ==
  ASSUME ShTrapInv, ScanNext PROVE ShTrapInv'
  <1>1. Top \in Frame /\ Top.pc = "scan" /\ Len(frames) \in Nat
    BY DEF ShTrapInv, ShTrapTypes, Top, ScanNext, Pc
  <1>2. Len(frames) > 1
    BY <1>1 DEF ShTrapInv, ShTrapTypes, Stack, InDotrap, Top
  <1>3. PICK j \in Sigs \cup {NSIG} :
             /\ j > Top.i /\ \A k \in Sigs : k > Top.i => j <= k
             /\ frames' = [frames EXCEPT ![Len(frames)].i = j]
    BY Zenon DEF ScanNext
  <1> DEFINE f == [pc |-> "scan", i |-> j]
  <1>4. f \in Frame
    BY SignalNumbers DEF Frame
  <1>5. frames' = [frames EXCEPT ![Len(frames)] = f]
    <2>1. [Top EXCEPT !.i = j] = f
      BY <1>1 DEF Frame
    <2>2. frames' = [frames EXCEPT ![Len(frames)] = [Top EXCEPT !.i = j]]
      BY <1>3 DEF Top
    <2> QED BY Zenon, <2>1, <2>2
  <1>6. /\ frames' \in Seq(Frame) /\ Len(frames') = Len(frames)
        /\ frames'[Len(frames)] = f
        /\ \A n \in 1..(Len(frames) - 1) : frames'[n] = frames[n]
    BY <1>2, <1>4, <1>5, TopChanges DEF ShTrapInv, ShTrapTypes
  <1>7. ShTrapTypes'
    BY <1>2, <1>6
    DEF ScanNext, ShTrapInv, ShTrapTypes, trapSettings, trapFlags, trapEnv
  <1>8. Stack'
    BY <1>1, <1>2, <1>6 DEF ShTrapInv, Stack
  <1>9. ModesSet'
    BY <1>1 DEF ScanNext, ShTrapInv, ModesSet, trapSettings, ModeFor
  <1>10. ASSUME NEW s \in Sigs, gotsig[s], Ahead(s) PROVE Ahead(s)'
    <2>1. PICK n \in 2..Len(frames) : ~Passed(frames[n], s)
      BY <1>10 DEF Ahead
    <2>2. CASE n = Len(frames)
      <3>0. s \in Int /\ j \in Int /\ Top.i \in Int
        BY SMTT(30), <1>1, SignalNumbers DEF Frame
      <3>1. ~(Top.i > s)
        BY <1>1, <2>1, <2>2 DEF Passed, Top
      <3>2. Top.i # s
        BY <1>10 DEF ScanNext
      <3>3. s > Top.i
        BY <3>0, <3>1, <3>2
      <3>4. j <= s
        BY <1>3, <3>3
      <3>5. ~(j > s)
        BY <3>0, <3>4
      <3>6. ~Passed(f, s)
        BY <3>5 DEF Passed
      <3> QED BY <1>6, <2>2, <3>6 DEF Ahead
    <2>3. CASE n < Len(frames)
      BY <1>1, <1>6, <2>1, <2>3 DEF Ahead
    <2> QED BY <1>1, <2>2, <2>3
  <1>11. TrapNotLost'
    BY <1>10 DEF ScanNext, trapFlags, ShTrapInv, TrapNotLost, Ahead
  <1>12. WaitNoSleep'
    BY <1>6 DEF WaitNoSleep, Top
  <1> QED BY <1>7, <1>8, <1>9, <1>11, <1>12 DEF ShTrapInv

\* Taking up a signal, and the dotrap() that takes it up stays.
LEMMA ScanTakesStep ==
  ASSUME ShTrapInv, ScanTakes PROVE ShTrapInv'
  <1>1. Top.pc = "scan" /\ Top.i \in Sigs /\ GotoT("take")
    BY DEF ScanTakes, Pc
  <1>2. /\ frames' \in Seq(Frame) /\ Len(frames') = Len(frames)
        /\ Top'.pc = "take" /\ Stack'
        /\ \A s \in Sigs : Ahead(s) => Ahead(s)'
    BY <1>1, Goes DEF InDotrap
  <1>3. ShTrapTypes'
    BY <1>1, <1>2 DEF ScanTakes, ShTrapInv, ShTrapTypes, trapSettings, trapEnv
  <1>4. ModesSet'
    BY <1>1 DEF ScanTakes, ShTrapInv, ModesSet, trapSettings, ModeFor
  <1>5. \A s \in Sigs : gotsig'[s] => gotsig[s]
    BY <1>1 DEF ScanTakes, ShTrapInv, ShTrapTypes
  <1>6. TrapNotLost'
    BY <1>2, <1>5 DEF ScanTakes, ShTrapInv, TrapNotLost, Ahead
  <1>7. WaitNoSleep'
    BY <1>2 DEF WaitNoSleep
  <1> QED BY <1>2, <1>3, <1>4, <1>6, <1>7 DEF ShTrapInv

\* The dotrap() that returns has passed every signal: what is noted is left to
\* pendingsig, or to a dotrap() further down.
LEMMA DotrapReturnsStep ==
  ASSUME ShTrapInv, DotrapReturns PROVE ShTrapInv'
  <1>1. Top.pc = "scan" /\ Top.i = NSIG /\ Len(frames) \in Nat
    BY DEF ShTrapInv, ShTrapTypes, DotrapReturns, Pc
  <1>2. Len(frames) > 1
    BY <1>1 DEF ShTrapInv, ShTrapTypes, Stack, InDotrap, Top
  <1>3. /\ frames' \in Seq(Frame) /\ Len(frames') = Len(frames) - 1
        /\ \A n \in 1..(Len(frames) - 1) : frames'[n] = frames[n]
    BY <1>1, <1>2 DEF DotrapReturns, ShTrapInv, ShTrapTypes
  <1>4. Top'.pc = "eval"
    BY <1>1, <1>2, <1>3 DEF Top, ShTrapInv, Stack
  <1>5. ShTrapTypes'
    BY <1>1, <1>2, <1>3
    DEF DotrapReturns, ShTrapInv, ShTrapTypes, trapSettings, trapFlags, trapEnv
  <1>6. Stack'
    BY <1>1, <1>2, <1>3 DEF ShTrapInv, Stack
  <1>7. ModesSet'
    BY <1>1 DEF DotrapReturns, ShTrapInv, ModesSet, trapSettings, ModeFor
  <1>8. ASSUME NEW s \in Sigs, Ahead(s) PROVE Ahead(s)'
    <2>1. PICK n \in 2..Len(frames) : ~Passed(frames[n], s)
      BY <1>8 DEF Ahead
    <2>2. NSIG > s
      BY SignalNumbers
    <2>3. n # Len(frames)
      BY <1>1, <2>1, <2>2 DEF Passed, Top
    <2> QED BY <1>1, <1>3, <2>1, <2>3 DEF Ahead
  <1>9. TrapNotLost'
    BY <1>8 DEF DotrapReturns, trapFlags, ShTrapInv, TrapNotLost, Ahead
  <1>10. WaitNoSleep'
    BY <1>4 DEF WaitNoSleep
  <1> QED BY <1>5, <1>6, <1>7, <1>9, <1>10 DEF ShTrapInv

-----------------------------------------------------------------------------
(* The commands, and the steps that only move the frame on top.            *)

LEMMA OtherSteps ==
  ASSUME ShTrapInv,
         \/ OtherCommand \/ RunAction \/ ActionEnds \/ StartChild \/ WaitCmd
         \/ WaitGotChild \/ WaitInterrupted \/ WaitReturns128
  PROVE  ShTrapInv'
  <1>0. sigpend \subseteq Sigs
    BY DEF ShTrapInv, ShTrapTypes
  <1> USE DEF Pc, InDotrap, trapFlags, trapEnv
  <1>1. CASE OtherCommand
    BY <1>0, <1>1, QuietStep DEF OtherCommand
  <1>2. CASE RunAction
    BY <1>0, <1>2, QuietStep DEF RunAction
  <1>3. CASE ActionEnds
    BY <1>0, <1>3, QuietStep DEF ActionEnds
  <1>4. CASE StartChild
    BY <1>0, <1>4, QuietStep DEF StartChild
  <1>5. CASE WaitCmd
    BY <1>0, <1>5, QuietStep DEF WaitCmd
  <1>6. CASE WaitGotChild
    BY <1>0, <1>6, QuietStep DEF WaitGotChild
  <1>7. CASE WaitInterrupted
    BY <1>0, <1>7, QuietStep DEF WaitInterrupted
  <1>8. CASE WaitReturns128
    BY <1>0, <1>8, QuietStep DEF WaitReturns128
  <1> QED BY <1>1, <1>2, <1>3, <1>4, <1>5, <1>6, <1>7, <1>8

\* wait goes to sleep only when there is nothing to be had.
LEMMA WaitSuspendStep ==
  ASSUME ShTrapInv, WaitSuspend PROVE ShTrapInv'
  <1>1. Top.pc = "wcheck" /\ GotoT("wsuspend")
    BY DEF WaitSuspend, Pc
  <1>2. /\ frames' \in Seq(Frame) /\ Len(frames') = Len(frames)
        /\ Top'.pc = "wsuspend" /\ Stack'
        /\ \A s \in Sigs : Ahead(s) => Ahead(s)'
    BY <1>1, Goes DEF InDotrap
  <1>3. ShTrapTypes'
    BY <1>2 DEF WaitSuspend, ShTrapInv, ShTrapTypes, trapSettings, trapFlags, trapEnv
  <1>4. ModesSet'
    BY <1>1 DEF WaitSuspend, ShTrapInv, ModesSet, trapSettings, ModeFor
  <1>5. TrapNotLost'
    BY <1>2 DEF WaitSuspend, trapFlags, ShTrapInv, TrapNotLost, Ahead
  <1>6. WaitNoSleep'
    BY DEF WaitSuspend, trapFlags, trapEnv, WaitNoSleep
  <1> QED BY <1>2, <1>3, <1>4, <1>5, <1>6 DEF ShTrapInv

LEMMA TrapCmdStep ==
  ASSUME ShTrapInv, NEW s \in Sigs, NEW t \in {"none", "ignore", "cmd"},
         TrapCmd(s, t)
  PROVE  ShTrapInv'
  <1>1. /\ frames' \in Seq(Frame) /\ Len(frames') = Len(frames)
        /\ Top'.pc = "trapset" /\ Stack'
        /\ \A r \in Sigs : Ahead(r) => Ahead(r)'
    BY Goes DEF TrapCmd, InDotrap
  <1>2. ShTrapTypes'
    BY <1>1 DEF TrapCmd, ShTrapInv, ShTrapTypes, trapFlags, trapEnv
  <1>3. ModesSet' /\ WaitNoSleep'
    BY <1>1 DEF ModesSet, WaitNoSleep
  <1>4. TrapNotLost'
    BY <1>1 DEF TrapCmd, trapFlags, ShTrapInv, TrapNotLost, Ahead
  <1> QED BY <1>1, <1>2, <1>3, <1>4 DEF ShTrapInv

LEMMA SetSignalStep ==
  ASSUME ShTrapInv, SetSignal PROVE ShTrapInv'
  <1>1. /\ frames' \in Seq(Frame) /\ Len(frames') = Len(frames)
        /\ Top'.pc = "check" /\ Stack'
        /\ \A r \in Sigs : Ahead(r) => Ahead(r)'
    BY Goes DEF SetSignal, InDotrap
  <1>2. ShTrapTypes'
    BY <1>1 DEF SetSignal, ShTrapInv, ShTrapTypes, trapFlags
  <1>3. ModesSet'
    BY DEF SetSignal, ModesSet, ModeFor
  <1>4. TrapNotLost'
    BY <1>1 DEF SetSignal, trapFlags, ShTrapInv, TrapNotLost, Ahead
  <1>5. WaitNoSleep'
    BY <1>1 DEF WaitNoSleep
  <1> QED BY <1>1, <1>2, <1>3, <1>4, <1>5 DEF ShTrapInv

LEMMA SubshellStep ==
  ASSUME ShTrapInv, Subshell PROVE ShTrapInv'
  <1>1. ShTrapTypes' /\ Stack' /\ TrapNotLost'
    BY SMTT(30) DEF Subshell, trapFlags, ShTrapInv, ShTrapTypes, Stack, TrapNotLost
  <1>2. ModesSet'
    BY DEF Subshell, ModesSet, ModeFor
  <1>3. WaitNoSleep'
    BY DEF Subshell, Pc, WaitNoSleep, Top
  <1> QED BY SMTT(30), <1>1, <1>2, <1>3 DEF ShTrapInv

-----------------------------------------------------------------------------
LEMMA ShTrapInvNext == ShTrapInv /\ [ShTrapNext]_shTrapVars => ShTrapInv'
  <1> SUFFICES ASSUME ShTrapInv, [ShTrapNext]_shTrapVars PROVE ShTrapInv'
    OBVIOUS
  <1>1. CASE UNCHANGED shTrapVars
    BY <1>1 DEF shTrapVars, trapSettings, trapFlags, trapEnv, ShTrapInv,
       ShTrapTypes, Stack, ModesSet, TrapNotLost, WaitNoSleep, Top
  <1>2. CASE ShTrapNext
    BY <1>2, CommandEndsStep, ClearPendingStep, ScanNextStep, ScanTakesStep,
       DotrapReturnsStep, OtherSteps, WaitSuspendStep, SendStep, DeliverStep,
       TrapCmdStep, SetSignalStep, ChildExitsStep, SubshellStep
    DEF ShTrapNext, DotrapStep, WaitStep
  <1> QED BY SMTT(30), <1>1, <1>2

LEMMA ShTrapInvariant == ShTrapSpec => []ShTrapInv
  BY ShTrapInvInit, ShTrapInvNext, PTL DEF ShTrapSpec

\* A signal noted by onsig() is never forgotten, for any signals, at any depth
\* of trap actions, and wherever it comes in.
THEOREM TrapNeverLost == ShTrapSpec => []TrapNotLost
  <1>1. ShTrapInv => TrapNotLost
    BY DEF ShTrapInv
  <1> QED BY <1>1, ShTrapInvariant, PTL

\* The wait builtin never sleeps in sigsuspend() on a signal already noted or a
\* child already gone.
THEOREM WaitNeverSleepsOnPast == ShTrapSpec => []WaitNoSleep
  <1>1. ShTrapInv => WaitNoSleep
    BY DEF ShTrapInv
  <1> QED BY <1>1, ShTrapInvariant, PTL
=============================================================================
