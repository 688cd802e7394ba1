----------------------------- MODULE RadixSort -----------------------------
(***************************************************************************)
(* sort (text_cmds/sort/radixsort.c): the radix sort of the lines by their *)
(* first key, with a stack of sort levels that several threads empty.      *)
(*                                                                         *)
(* A line is its number in the input, its key a sequence of numbers.  The  *)
(* lines of a level are a set, because place_item() keeps them in input    *)
(* order.  What run_sort_level_next() does to shared state for one level   *)
(* is the sequence LevelOps: copies into sorted[], decrements of           *)
(* sort_left and pushes, each of which other threads may interleave with.  *)
(***************************************************************************)
EXTENDS Integers, Sequences, FiniteSets

CONSTANTS
    Inputs,     \* inputs: sequences of keys
    ThreadNums, \* values of nthreads
    TinyBound,  \* TINY_NODE: fewer lines are sorted at once (65 in the code)
    SmallBound, \* SMALL_NODE: fewer lines are not pushed (5 in the code)
    MaxLevel    \* deeper levels are sorted at once (15 in the code)

ASSUME RadixAssumption ==
    /\ ThreadNums \subseteq Nat \ {0}
    /\ TinyBound \in Nat /\ TinyBound > 2
    /\ SmallBound \in 1..TinyBound
    /\ MaxLevel \in Nat

VARIABLES
    keys, nthreads, reverse_sort,
    tpc,            \* thread (0 is main) -> top, create, join, return;
                    \* off, pop, wait, run, exit
    ops,            \* thread -> what is left of run_sort_level_next()
    g_ls,           \* the stack of levels
    sort_left,
    mtsem,          \* the semaphore that counts threads
    sorted          \* position -> line, 0 when not written

radixVars == <<keys, nthreads, reverse_sort, tpc, ops, g_ls, sort_left, mtsem,
               sorted>>

Main == 0
Workers == 1..nthreads
Lines == DOMAIN keys
N == Len(keys)

-----------------------------------------------------------------------------
(* Order, and the work of one level.                                       *)

\* Comparison of two keys from an offset on, and of two lines: -r turns the
\* order of keys, and lines with equal keys stay in input order.
KeyLess(a, b, off) ==
    \E n \in off..Len(b) - 1 :
        /\ Len(a) >= n
        /\ \A k \in off + 1..n : a[k] = b[k]
        /\ Len(a) = n \/ a[n + 1] < b[n + 1]
Precedes(i, j, off) ==
    LET less(p, q) == IF reverse_sort THEN KeyLess(keys[q], keys[p], off)
                                      ELSE KeyLess(keys[p], keys[q], off)
    IN less(i, j) \/ (~less(j, i) /\ i < j)

\* mergesort() with list_coll_offset(), which is stable.
Ordered(I, off) ==
    [n \in 1..Cardinality(I) |->
        CHOOSE i \in I : Cardinality({j \in I : j # i /\ Precedes(j, i, off)}) = n - 1]

\* Lines whose key ends at this level, in input order.
InOrder(I) == [n \in 1..Cardinality(I) |->
                 CHOOSE i \in I : Cardinality({j \in I : j < i}) = n - 1]

Copy(seq, start) == [op |-> "copy", seq |-> seq, start |-> start]
Dec(n) == [op |-> "dec", n |-> n]
Push(sl) == [op |-> "push", sl |-> sl]

\* place_item() for every line: leaves and sublevels.
Leaves(sl) == {i \in sl.tosort : Len(keys[i]) <= sl.level}
Indices(sl) == {keys[i][sl.level + 1] : i \in sl.tosort \ Leaves(sl)}
Sub(sl, c) == {i \in sl.tosort \ Leaves(sl) : keys[i][sl.level + 1] = c}
\* Mutant: -r is forgotten.
EarlierUp(d, c) == d < c

Earlier(d, c) == IF reverse_sort THEN d > c ELSE d < c
SubStart(sl, c) ==
    sl.start + (IF reverse_sort THEN 0 ELSE Cardinality(Leaves(sl)))
             + Cardinality({i \in sl.tosort \ Leaves(sl) :
                               Earlier(keys[i][sl.level + 1], c)})
SubLevel(sl, c) == [tosort |-> Sub(sl, c), level |-> sl.level + 1,
                    start |-> SubStart(sl, c)]
SubsInOrder(sl) ==
    [n \in 1..Cardinality(Indices(sl)) |->
        CHOOSE c \in Indices(sl) :
            Cardinality({d \in Indices(sl) : Earlier(d, c)}) = n - 1]

\* A level of one or two lines, or TINY, or deep: sorted in one piece.
AtOnce(sl) ==
    IF sl.tosort = {} THEN <<>>
    ELSE <<Copy(Ordered(sl.tosort, sl.level), sl.start),
           Dec(Cardinality(sl.tosort))>>

LeafOps(sl) ==
    LET n == Cardinality(Leaves(sl))
        start == IF reverse_sort THEN sl.start + Cardinality(sl.tosort) - n
                                 ELSE sl.start
    IN <<Copy(InOrder(Leaves(sl)), start), Dec(n)>>

\* The sublevels in the order they are visited; top is TRUE in
\* run_top_sort_level(), which pushes the small ones too.
SubOps(sl, top) ==
    LET each(n) == LET s == SubLevel(sl, SubsInOrder(sl)[n]) IN
                   IF ~top /\ Cardinality(s.tosort) < SmallBound
                   THEN AtOnce(s) ELSE <<Push(s)>>
        upto[n \in 0..Cardinality(Indices(sl))] ==
            IF n = 0 THEN <<>> ELSE upto[n - 1] \o each(n)
    IN upto[Cardinality(Indices(sl))]

Split(sl, top) == IF reverse_sort THEN SubOps(sl, top) \o LeafOps(sl)
                                  ELSE LeafOps(sl) \o SubOps(sl, top)

LevelOps(sl) ==
    IF Cardinality(sl.tosort) < TinyBound \/ sl.level > MaxLevel
    THEN AtOnce(sl) ELSE Split(sl, FALSE)

-----------------------------------------------------------------------------
(* run_sort() up to the call of run_top_sort_level(), in main.             *)

RadixInit ==
    /\ keys \in Inputs /\ nthreads \in ThreadNums /\ reverse_sort \in BOOLEAN
    /\ tpc = [t \in 0..nthreads |-> IF t = Main THEN "top" ELSE "off"]
    /\ ops = [t \in 0..nthreads |->
                IF t = Main
                THEN Split([tosort |-> Lines, level |-> 0, start |-> 0], TRUE)
                ELSE <<>>]
    /\ g_ls = <<>> /\ sort_left = N /\ mtsem = 0
    /\ sorted = [p \in 1..N |-> 0]

radixInput == <<keys, nthreads, reverse_sort>>

Working(t) == tpc[t] \in {"top", "run"} /\ ops[t] # <<>>
Advance(t) == ops' = [ops EXCEPT ![t] = Tail(@)]

\* memcpy() into sorted[], or the assignments of the cases 1 and 2.
CopyOut(t) ==
    /\ Working(t) /\ Head(ops[t]).op = "copy"
    /\ LET o == Head(ops[t]) IN
       sorted' = [p \in 1..N |-> IF p - o.start \in 1..Len(o.seq)
                                 THEN o.seq[p - o.start] ELSE sorted[p]]
    /\ Advance(t)
    /\ UNCHANGED <<radixInput, tpc, g_ls, sort_left, mtsem>>

Waiting == {t \in Workers : tpc[t] = "wait"}

\* Mutant: pthread_cond_signal() for pthread_cond_broadcast().
WokenOne ==
    IF sort_left' = 0 /\ Waiting # {} THEN {CHOOSE t \in Waiting : TRUE} ELSE {}

\* pthread_cond_broadcast() when nothing is left.
Woken == IF sort_left' = 0 THEN Waiting ELSE {}

\* sort_left_dec(), under g_ls_mutex.
sort_left_dec(t) ==
    /\ Working(t) /\ Head(ops[t]).op = "dec"
    /\ sort_left' = sort_left - Head(ops[t]).n
    /\ tpc' = [u \in DOMAIN tpc |->
                 IF u \in Woken THEN "pop" ELSE tpc[u]]
    /\ Advance(t)
    /\ UNCHANGED <<radixInput, g_ls, mtsem, sorted>>

\* push_ls(), under g_ls_mutex: the signal wakes one thread that waits.
push_ls(t) ==
    /\ Working(t) /\ Head(ops[t]).op = "push"
    /\ g_ls' = <<Head(ops[t]).sl>> \o g_ls
    /\ \/ Waiting = {} /\ UNCHANGED tpc
       \/ \E u \in Waiting : tpc' = [tpc EXCEPT ![u] = "pop"]
    /\ Advance(t)
    /\ UNCHANGED <<radixInput, sort_left, mtsem, sorted>>

\* run_top_sort_level() is done with the first level: with one thread main
\* goes on by itself (as thread 1), otherwise it creates the threads.
TopDone ==
    /\ tpc[Main] = "top" /\ ops[Main] = <<>>
    /\ tpc' = IF nthreads < 2 THEN [tpc EXCEPT ![Main] = "join", ![1] = "pop"]
                              ELSE [tpc EXCEPT ![Main] = "create"]
    /\ UNCHANGED <<radixInput, ops, g_ls, sort_left, mtsem, sorted>>

Create(t) ==
    /\ tpc[Main] = "create" /\ tpc[t] = "off"
    /\ \A u \in 1..t - 1 : tpc[u] # "off"
    /\ tpc' = [tpc EXCEPT ![t] = "pop", ![Main] = IF t = nthreads THEN "join" ELSE @]
    /\ UNCHANGED <<radixInput, ops, g_ls, sort_left, mtsem, sorted>>

\* pop_ls_mt(), one turn of its loop under g_ls_mutex; pop_ls_st() is the
\* same without the wait.
PopLevel(t) ==
    /\ tpc[t] = "pop" /\ g_ls # <<>>
    /\ ops' = [ops EXCEPT ![t] = LevelOps(Head(g_ls))]
    /\ g_ls' = Tail(g_ls)
    /\ tpc' = [tpc EXCEPT ![t] = "run"]
    /\ UNCHANGED <<radixInput, sort_left, mtsem, sorted>>

PopNone(t) ==
    /\ tpc[t] = "pop" /\ g_ls = <<>>
    /\ tpc' = [tpc EXCEPT ![t] = IF sort_left > 0 /\ nthreads > 1
                                 THEN "wait" ELSE "exit"]
    /\ mtsem' = IF tpc'[t] = "exit" THEN mtsem + 1 ELSE mtsem
    /\ UNCHANGED <<radixInput, ops, g_ls, sort_left, sorted>>

\* pthread_cond_wait() may return without a signal.
Spurious(t) ==
    /\ tpc[t] = "wait"
    /\ tpc' = [tpc EXCEPT ![t] = "pop"]
    /\ UNCHANGED <<radixInput, ops, g_ls, sort_left, mtsem, sorted>>

\* run_sort_level_next() returns.
LevelDone(t) ==
    /\ tpc[t] = "run" /\ ops[t] = <<>>
    /\ tpc' = [tpc EXCEPT ![t] = "pop"]
    /\ UNCHANGED <<radixInput, ops, g_ls, sort_left, mtsem, sorted>>

\* main has waited for the semaphore nthreads times.
Join ==
    /\ tpc[Main] = "join" /\ mtsem = nthreads
    /\ tpc' = [tpc EXCEPT ![Main] = "return"]
    /\ UNCHANGED <<radixInput, ops, g_ls, sort_left, mtsem, sorted>>

ThreadStep(t) ==
    CopyOut(t) \/ sort_left_dec(t) \/ push_ls(t) \/ PopLevel(t) \/ PopNone(t)
        \/ LevelDone(t)
MainStep == TopDone \/ (\E t \in Workers : Create(t)) \/ Join
RadixNext ==
    MainStep \/ (\E t \in DOMAIN tpc : ThreadStep(t)) \/ (\E t \in Workers : Spurious(t))

RadixSpec == RadixInit /\ [][RadixNext]_radixVars

\* Every thread is scheduled; no wake-up without a signal is counted on.
\* MaxThreads: the ids that a thread may have.
MaxThreads == CHOOSE n \in ThreadNums : \A m \in ThreadNums : m <= n
RadixFair ==
    /\ WF_radixVars(MainStep)
    /\ \A t \in 0..MaxThreads : WF_radixVars(t \in DOMAIN tpc /\ ThreadStep(t))

-----------------------------------------------------------------------------
(* Properties.                                                             *)

Level(sl) ==
    /\ sl.tosort \subseteq Lines /\ sl.level \in Nat
    /\ sl.start \in 0..N /\ sl.start + Cardinality(sl.tosort) <= N

\* Types; every pushed level lies within sorted[].
RadixTypeOK ==
    /\ keys \in Inputs /\ nthreads \in ThreadNums /\ reverse_sort \in BOOLEAN
    /\ tpc \in [0..nthreads -> {"top", "create", "join", "return", "off",
                                "pop", "wait", "run", "exit"}]
    /\ \A n \in DOMAIN g_ls : Level(g_ls[n])
    /\ sort_left \in 0..N /\ mtsem \in 0..nthreads
    /\ sorted \in [1..N -> 0..N]

\* When rxsort() returns the lines are in order, each of them once, those
\* with equal keys in input order, forwards and in reverse.
SortedInOrder == tpc[Main] = "return" => sorted = Ordered(Lines, 0)

\* rxsort() returns: no thread waits for a signal that was sent before it
\* began to wait, and the last decrement wakes all of them.
RadixEnds == <>(tpc[Main] = "return")
=============================================================================
