--------------------------- MODULE ProcessProofs ---------------------------
(***************************************************************************)
(* Proofs about the scheduler, for every number of processes, every        *)
(* SCHEDULER_EVRY and every Misuse of the callers.                         *)
(***************************************************************************)
EXTENDS Process, FiniteSetTheorems, TLAPS

-----------------------------------------------------------------------------
(* Sequences without duplicates                                            *)

\* Taking an entry out of a list by moving the last one into its place
\* (i_remove_from_shdlr_queue) removes that entry and no other.
LEMMA WithoutRemoves ==
    ASSUME NEW S, NEW q \in Seq(S), IsInjective(q), NEW p
    PROVE  /\ Without(q, p) \in Seq(S)
           /\ IsInjective(Without(q, p))
           /\ Range(Without(q, p)) = Range(q) \ {p}
<1>1. CASE p \notin Range(q)
  BY <1>1 DEF Without, Range
<1>2. CASE p \in Range(q)
  <2> DEFINE n == Len(q)
             i == CHOOSE j \in 1 .. n : q[j] = p
             r == [j \in 1 .. n - 1 |-> IF j = i THEN q[n] ELSE q[j]]
  <2>1. n \in Nat /\ q \in [1 .. n -> S] /\ DOMAIN q = 1 .. n
    OBVIOUS
  <2>2. i \in 1 .. n /\ q[i] = p
    BY <1>2, <2>1 DEF Range
  <2>3. \A a, b \in 1 .. n : q[a] = q[b] => a = b
    BY <2>1 DEF IsInjective
  <2>4. Without(q, p) = r
    BY <1>2 DEF Without
  <2> HIDE DEF n, i
  <2>5. n \in 1 .. n /\ DOMAIN r = 1 .. n - 1
    BY <2>1, <2>2
  <2>6. \A j \in 1 .. n - 1 : r[j] = (IF j = i THEN q[n] ELSE q[j])
    OBVIOUS
  <2>7. r \in [1 .. n - 1 -> S]
    BY <2>1, <2>5, <2>6
  <2>8. r \in Seq(S)
    <3>1. n - 1 \in Nat
      BY <2>1, <2>5
    <3> QED BY <2>7, <3>1
  <2>9. IsInjective(r)
    <3> SUFFICES ASSUME NEW a \in 1 .. n - 1, NEW b \in 1 .. n - 1, r[a] = r[b]
                 PROVE  a = b
      BY <2>5 DEF IsInjective
    <3> QED BY <2>1, <2>2, <2>3, <2>5, <2>6
  <2>10. Range(r) \subseteq Range(q) \ {p}
    <3> SUFFICES ASSUME NEW j \in 1 .. n - 1
                 PROVE  r[j] \in Range(q) \ {p}
      BY <2>5 DEF Range
    <3> QED BY <2>1, <2>2, <2>3, <2>5, <2>6 DEF Range
  <2>11. Range(q) \ {p} \subseteq Range(r)
    <3> SUFFICES ASSUME NEW j \in 1 .. n, q[j] # p
                 PROVE  \E k \in 1 .. n - 1 : r[k] = q[j]
      BY <2>1, <2>5 DEF Range
    <3>1. CASE j = n
      BY <2>1, <2>2, <2>5, <2>6, <3>1
    <3>2. CASE j # n
      BY <2>1, <2>2, <2>5, <2>6, <3>2
    <3> QED BY <3>1, <3>2
  <2> QED BY <2>4, <2>8, <2>9, <2>10, <2>11
<1> QED BY <1>1, <1>2

\* Entering a process that is not in a list yet adds it and nothing else.
LEMMA AppendAdds ==
    ASSUME NEW S, NEW q \in Seq(S), IsInjective(q), NEW p \in S, p \notin Range(q)
    PROVE  /\ Append(q, p) \in Seq(S)
           /\ IsInjective(Append(q, p))
           /\ Range(Append(q, p)) = Range(q) \cup {p}
<1> DEFINE n == Len(q)
           r == Append(q, p)
<1>1. /\ n \in Nat /\ DOMAIN q = 1 .. n
      /\ r \in Seq(S) /\ DOMAIN r = 1 .. n + 1
      /\ \A j \in 1 .. n : r[j] = q[j]
      /\ r[n + 1] = p
  OBVIOUS
<1> HIDE DEF n, r
<1>2. \A j \in 1 .. n + 1 : j \in 1 .. n \/ j = n + 1
  BY <1>1
<1>3. 1 .. n \subseteq 1 .. n + 1 /\ n + 1 \in 1 .. n + 1
  BY <1>1
<1>4. IsInjective(r)
  BY <1>1, <1>2 DEF IsInjective, Range
<1>5. Range(r) = Range(q) \cup {p}
  BY <1>1, <1>2, <1>3 DEF Range
<1> QED BY <1>1, <1>4, <1>5 DEF r

\* So does entering several processes in any order.
LEMMA ConcatAdds ==
    ASSUME NEW S, NEW q \in Seq(S), IsInjective(q),
           NEW D \in SUBSET S, D \cap Range(q) = {},
           NEW m \in Nat, NEW order \in Bijection(1 .. m, D)
    PROVE  /\ q \o order \in Seq(S)
           /\ IsInjective(q \o order)
           /\ Range(q \o order) = Range(q) \cup D
<1> DEFINE n == Len(q)
           r == q \o order
<1>1. /\ order \in [1 .. m -> D]
      /\ \A a, b \in 1 .. m : order[a] = order[b] => a = b
      /\ \A d \in D : \E a \in 1 .. m : order[a] = d
  BY DEF Bijection, Injection, Surjection, IsInjective
<1>2. order \in Seq(S) /\ Len(order) = m
  BY <1>1
<1>3. /\ n \in Nat /\ DOMAIN q = 1 .. n /\ q \in [1 .. n -> S]
      /\ \A a, b \in 1 .. n : q[a] = q[b] => a = b
  BY DEF IsInjective
<1>4. /\ r \in Seq(S) /\ DOMAIN r = 1 .. n + m
      /\ \A j \in 1 .. n + m : r[j] = IF j <= n THEN q[j] ELSE order[j - n]
  BY <1>2
<1> HIDE DEF n, r
<1>5. \A j \in 1 .. n + m : \/ j \in 1 .. n /\ r[j] = q[j]
                            \/ j - n \in 1 .. m /\ r[j] = order[j - n]
  BY <1>3, <1>4
<1>6. /\ \A j \in 1 .. n : j \in 1 .. n + m /\ r[j] = q[j]
      /\ \A j \in 1 .. m : j + n \in 1 .. n + m /\ r[j + n] = order[j]
  BY <1>3, <1>4
<1>7. \A a \in 1 .. n, b \in 1 .. m : q[a] # order[b]
  BY <1>1, <1>3 DEF Range
<1>8. IsInjective(r)
  <2> SUFFICES ASSUME NEW a \in 1 .. n + m, NEW b \in 1 .. n + m, r[a] = r[b]
               PROVE  a = b
    BY <1>4 DEF IsInjective
  <2>1. CASE a \in 1 .. n /\ r[a] = q[a] /\ b \in 1 .. n /\ r[b] = q[b]
    BY <1>3, <2>1
  <2>2. CASE a - n \in 1 .. m /\ r[a] = order[a - n] /\ b - n \in 1 .. m /\ r[b] = order[b - n]
    <3>1. a - n = b - n
      BY <1>1, <2>2
    <3> QED BY <1>3, <3>1
  <2> QED BY <1>5, <1>7, <2>1, <2>2
<1>9. Range(r) = Range(q) \cup D
  <2>1. Range(r) \subseteq Range(q) \cup D
    BY <1>1, <1>3, <1>4, <1>5 DEF Range
  <2>2. Range(q) \subseteq Range(r)
    BY <1>3, <1>4, <1>6 DEF Range
  <2>3. D \subseteq Range(r)
    BY <1>1, <1>4, <1>6 DEF Range
  <2> QED BY <2>1, <2>2, <2>3
<1> QED BY <1>4, <1>8, <1>9 DEF r

\* A list without duplicates is no longer than the set of its entries.
LEMMA LengthBound ==
    ASSUME NEW S, NEW q \in Seq(S), IsInjective(q),
           NEW T, IsFiniteSet(T), Range(q) \subseteq T
    PROVE  Len(q) <= Cardinality(T)
<1>1. q \in Injection(1 .. Len(q), T)
  BY DEF Injection, Range, IsInjective
<1>2. Len(q) \in Nat
  OBVIOUS
<1>3. Cardinality(1 .. Len(q)) = Len(q)
  <2>1. Cardinality(1 .. Len(q)) = IF 1 > Len(q) THEN 0 ELSE Len(q) - 1 + 1
    BY <1>2, FS_Interval
  <2> QED BY <1>2, <2>1
<1> QED BY <1>1, <1>3, FS_Injection

-----------------------------------------------------------------------------
(* The inductive invariant                                                 *)

\* Places 0 and 1 belong to the kernel and to the idle process for ever, and
\* the kernel alone has pid 0.
Roles ==
    /\ \A p \in Place : plist[p].state = "IDL" <=> p = Idle
    /\ Alive(Kernel) /\ plist[Kernel].pid = 0 /\ plist[Kernel].ppid = 0

\* Pids are handed out in increasing order, so parents have smaller ones.
PidOrder ==
    /\ \A p \in Place : plist[p].pid <= nextpid
    /\ \A p \in Place : Used(p) /\ p # Kernel => plist[p].ppid < plist[p].pid

\* The activations of process_kill are dead processes, each a descendant of
\* the one before it: that the recursion frees none of them follows.
KillStack ==
    /\ mode = "kill" <=> kills # <<>>
    /\ \A j \in 1 .. Len(kills) : /\ Dead(kills[j].place)
                                  /\ plist[kills[j].place].pid # 0
    /\ \A j, k \in 1 .. Len(kills) :
          j < k => plist[kills[j].place].pid < plist[kills[k].place].pid

Running(p) == Ready(p) \/ plist[p].state = "IDL"

\* The CPU is never in a process that sleeps, or is dead, except where
\* schedule() is about to leave it or process_kill to call schedule().
CurrentRuns ==
    /\ Used(cur)
    /\ mode \in Resumes => Running(cur)
    /\ mode = "kill" =>
          \/ Running(cur)
          \/ \E j \in 1 .. Len(kills) : kills[j].place = cur

IInv ==
    /\ TypeOK
    /\ Roles
    /\ PidOrder
    /\ UniquePids
    /\ KillStack
    /\ CurrentRuns
    /\ QueueConsistent
    /\ TsleepConsistent
    /\ MemoryReclaim
    /\ NoSchedulerFatal

-----------------------------------------------------------------------------
(* Type correctness                                                        *)

USE ProcessMaxAssumption, EvryAssumption, MaxPidAssumption, DelaysAssumption,
    RetCodesAssumption
    DEF Kernel, Idle, FirstPid

\* The table is finite, and so is every set of places.
LEMMA PlacesFinite ==
    /\ IsFiniteSet(Place) /\ Cardinality(Place) = PROCESS_MAX
    /\ \A S \in SUBSET Place : IsFiniteSet(S) /\ Cardinality(S) \in Nat
<1>1. IsFiniteSet(Place) /\ Cardinality(Place) = PROCESS_MAX
  <2>1. PROCESS_MAX - 1 \in Int
    OBVIOUS
  <2>2. /\ IsFiniteSet(0 .. PROCESS_MAX - 1)
        /\ Cardinality(0 .. PROCESS_MAX - 1)
             = IF 0 > PROCESS_MAX - 1 THEN 0 ELSE PROCESS_MAX - 1 - 0 + 1
    BY <2>1, FS_Interval
  <2> QED BY <2>2 DEF Place
<1> QED BY <1>1, FS_Subset, FS_CardinalityType

\* Every order in which the due sleepers may be entered is a list of places.
LEMMA DueOrders ==
    ASSUME TypeOK, NEW order \in Bijection(1 .. Cardinality(Due), Due)
    PROVE  /\ Due \in SUBSET Place /\ Cardinality(Due) \in Nat
           /\ order \in Seq(Place) /\ Len(order) = Cardinality(Due)
<1>1. Due \in SUBSET Place
  BY DEF Due, TypeOK
<1>2. Cardinality(Due) \in Nat
  BY <1>1, PlacesFinite
<1>3. order \in [1 .. Cardinality(Due) -> Place]
  BY <1>1 DEF Bijection, Injection
<1> QED BY <1>1, <1>2, <1>3

LEMMA TypeInit == Init => TypeOK
BY DEF Init, TypeOK, Place, Processes, States, Resumes, Modes, Born, Free, Frames


-----------------------------------------------------------------------------
(* Every step preserves the invariant                                      *)

LEMMA Names ==
    /\ "FRE" \in States /\ "ZMB" \in States /\ "SLP" \in States
    /\ "INQ" \in States /\ "RUN" \in States /\ "IDL" \in States
    /\ "user" \in Resumes /\ "exit" \in Resumes /\ "wait" \in Resumes
    /\ "halt" \in Resumes
BY DEF States, Resumes

\* What becomes of an entry that is born, killed, woken up or freed.
LEMMA BornProcess ==
    ASSUME NEW pid \in Nat, NEW ppid \in Nat
    PROVE  /\ Born(pid, ppid) \in Processes
           /\ Born(pid, ppid).state = "SLP" /\ Born(pid, ppid).val = 0
           /\ Born(pid, ppid).pid = pid /\ Born(pid, ppid).ppid = ppid
           /\ Born(pid, ppid).dir
<1>1. Free \in Processes
  BY DEF Free, Processes, States, Resumes
<1>2. Born(pid, ppid) \in Processes
  BY <1>1 DEF Born, Processes, States, Resumes
<1>3. /\ Born(pid, ppid).state = "SLP" /\ Born(pid, ppid).val = 0
      /\ Born(pid, ppid).pid = pid /\ Born(pid, ppid).ppid = ppid
  BY DEF Born, Free
<1>4. Born(pid, ppid).dir
  BY DEF Born, Free
<1> QED BY <1>2, <1>3, <1>4

LEMMA Rewritten ==
    ASSUME NEW r \in Processes, NEW s \in States, NEW v \in Nat, NEW w \in Int
    PROVE  [r EXCEPT !.state = s, !.val = v, !.wait_pid = w] \in Processes
BY DEF Processes

LEMMA KilledProcess ==
    ASSUME NEW r \in Processes, NEW ret \in Nat
    PROVE  /\ Killed(r, ret) \in Processes
           /\ Killed(r, ret).state = "ZMB" /\ Killed(r, ret).val = ret
           /\ Killed(r, ret).pid = r.pid /\ Killed(r, ret).ppid = r.ppid
           /\ Killed(r, ret).dir = r.dir
<1>1. Killed(r, ret) \in Processes
  <2> DEFINE s == "ZMB"
             w == 0
  <2>1. s \in States /\ w \in Int
    BY Names
  <2> HIDE DEF s, w
  <2>2. [r EXCEPT !.state = s, !.val = ret, !.wait_pid = w] \in Processes
    BY <2>1, Rewritten
  <2> QED BY <2>2 DEF Killed, s, w
<1>2. /\ Killed(r, ret).state = "ZMB" /\ Killed(r, ret).val = ret
      /\ Killed(r, ret).pid = r.pid /\ Killed(r, ret).ppid = r.ppid
  BY DEF Killed, Processes
<1>3. Killed(r, ret).dir = r.dir
  BY DEF Killed, Processes
<1> QED BY <1>1, <1>2, <1>3

LEMMA WokenProcess ==
    ASSUME NEW r \in Processes
    PROVE  /\ Woken(r) \in Processes
           /\ Woken(r).state = "INQ" /\ Woken(r).val = 0
           /\ Woken(r).pid = r.pid /\ Woken(r).ppid = r.ppid
           /\ Woken(r).dir = r.dir
<1>1. Woken(r) \in Processes
  <2> DEFINE s == "INQ"
             w == 0
  <2>1. s \in States /\ w \in Int /\ w \in Nat
    BY Names
  <2> HIDE DEF s, w
  <2>2. [r EXCEPT !.state = s, !.val = w, !.wait_pid = w] \in Processes
    BY <2>1, Rewritten
  <2> QED BY <2>2 DEF Woken, s, w
<1>2. /\ Woken(r).state = "INQ" /\ Woken(r).val = 0
      /\ Woken(r).pid = r.pid /\ Woken(r).ppid = r.ppid
  BY DEF Woken, Processes
<1>3. Woken(r).dir = r.dir
  BY DEF Woken, Processes
<1> QED BY <1>1, <1>2, <1>3

LEMMA FreeProcess ==
    /\ Free \in Processes /\ Free.state = "FRE" /\ Free.pid = 0
BY DEF Free, Processes, States, Resumes

\* An entry that a step leaves as it is, as far as the invariant can see.
Kept(p) == /\ plist'[p].state = plist[p].state
           /\ plist'[p].pid = plist[p].pid
           /\ plist'[p].ppid = plist[p].ppid
           /\ plist'[p].dir = plist[p].dir
           /\ plist'[p].val = 0 <=> plist[p].val = 0

\* A step that only frees entries of dead processes keeps most of the
\* invariant.
LEMMA TableKept ==
    ASSUME IInv, plist' \in [Place -> Processes],
           \A p \in Place : Kept(p) \/ (Dead(p) /\ p # cur /\ plist'[p] = Free),
           UNCHANGED <<cur, nextpid, queue, tsleep, clean>>
    PROVE  /\ Roles' /\ PidOrder' /\ UniquePids' /\ QueueConsistent'
           /\ TsleepConsistent' /\ MemoryReclaim'
           /\ Used(cur)' /\ Running(cur)' = Running(cur)
<1>1. /\ plist \in [Place -> Processes] /\ cur \in Place
      /\ nextpid \in Nat
      /\ \A p \in Place : plist[p].pid \in Nat
  BY DEF IInv, TypeOK, Processes
<1>2. Kernel \in Place /\ Idle \in Place /\ Kept(cur)
  BY <1>1 DEF Place
<1>3. Roles'
  BY <1>1, <1>2, FreeProcess DEF IInv, Roles, Kept, Alive, Dead
<1>4. PidOrder'
  BY <1>1, <1>2, FreeProcess DEF IInv, PidOrder, Kept, Used
<1>5. UniquePids'
  BY <1>1, <1>2, FreeProcess DEF IInv, UniquePids, Kept, Used
<1>6. QueueConsistent'
  BY <1>1, <1>2, FreeProcess DEF IInv, QueueConsistent, Kept, Ready, Dead
<1>7. TsleepConsistent'
  BY <1>1, <1>2, FreeProcess DEF IInv, TsleepConsistent, Kept, Dead
<1>8. MemoryReclaim'
  BY <1>1, <1>2, FreeProcess DEF IInv, MemoryReclaim, Kept, Used, Dead
<1>9. Used(cur)' /\ Running(cur)' = Running(cur)
  BY <1>1, <1>2 DEF IInv, CurrentRuns, Kept, Used, Running, Ready
<1> QED BY <1>3, <1>4, <1>5, <1>6, <1>7, <1>8, <1>9

\* An entry that at most falls asleep, wakes up or gets or loses the CPU.
Stirred(p) == /\ plist'[p].pid = plist[p].pid
              /\ plist'[p].ppid = plist[p].ppid
              /\ plist'[p].dir = plist[p].dir
              /\ \/ plist'[p].state = plist[p].state
                 \/ Alive(p) /\ Alive(p)'

LEMMA TableStirred ==
    ASSUME IInv, plist' \in [Place -> Processes], \A p \in Place : Stirred(p),
           cur' = cur \/ (cur' \in Place /\ Running(cur')),
           UNCHANGED <<nextpid, clean>>
    PROVE  Roles' /\ PidOrder' /\ UniquePids' /\ MemoryReclaim' /\ Used(cur)'
<1>1. /\ plist \in [Place -> Processes] /\ cur' \in Place /\ Used(cur')
      /\ \A p \in Place : plist[p].pid \in Nat
      /\ Kernel \in Place /\ Idle \in Place
  <2>1. plist \in [Place -> Processes] /\ cur \in Place
    BY DEF IInv, TypeOK
  <2>2. cur' \in Place /\ Used(cur')
    BY <2>1 DEF IInv, CurrentRuns, Running, Ready, Used
  <2>3. \A p \in Place : plist[p].pid \in Nat
    BY <2>1 DEF Processes
  <2> QED BY <2>1, <2>2, <2>3 DEF Place
<1>2. Roles'
  BY <1>1 DEF IInv, Roles, Stirred, Alive
<1>3. PidOrder'
  BY <1>1 DEF IInv, PidOrder, Stirred, Used, Alive
<1>4. UniquePids'
  BY <1>1 DEF IInv, UniquePids, Stirred, Used, Alive
<1>5. Used(cur)'
  BY <1>1 DEF Stirred, Used, Alive
<1>6. MemoryReclaim'
  <2>1. plist[cur'].dir
    BY <1>1 DEF IInv, MemoryReclaim, Running, Ready, Used, Dead
  <2>2. \A p \in Place : Used(p)' /\ ~ Dead(p)' => Used(p) /\ ~ Dead(p)
    BY DEF Stirred, Used, Dead, Alive
  <2>3. \A p \in Place : Dead(p)' => Dead(p)
    BY DEF Stirred, Dead, Alive
  <2> QED BY <1>1, <2>1, <2>2, <2>3 DEF IInv, MemoryReclaim, Stirred
<1> QED BY <1>2, <1>3, <1>4, <1>5, <1>6

\* Outside process_kill there are no activations of it to speak of.
LEMMA NoKillStack ==
    ASSUME mode' # "kill", kills' = <<>>
    PROVE  KillStack'
BY DEF KillStack

LEMMA CreateInv ==
    ASSUME IInv, Create
    PROVE  IInv'
<1> USE DEF Create, InUser
<1>1. PICK p \in Place : /\ plist[p].state = "FRE"
                         /\ plist' = [plist EXCEPT ![p] = Born(nextpid + 1, plist[cur].pid)]
  BY DEF IsFreePlace, FreePlaces, Used
<1>2. nextpid + 1 \in Nat /\ nextpid' = nextpid + 1 /\ plist[cur].pid \in Nat
  BY DEF IInv, TypeOK, Processes
<1> DEFINE b == Born(nextpid + 1, plist[cur].pid)
<1>b. /\ b \in Processes /\ b.state = "SLP" /\ b.val = 0 /\ b.dir
      /\ b.pid = nextpid + 1 /\ b.ppid = plist[cur].pid
  BY <1>2, BornProcess
<1> HIDE DEF b
<1>3. /\ plist' \in [Place -> Processes] /\ plist'[p] = b
      /\ \A q \in Place : q # p => plist'[q] = plist[q]
  BY <1>1, <1>b DEF IInv, TypeOK, b
<1>4. TypeOK'
  BY <1>3 DEF IInv, TypeOK, Modes, Resumes
<1>5. Roles'
  BY <1>1, <1>b, <1>3 DEF IInv, TypeOK, Roles, Alive
<1>6. PidOrder'
  <2>1. \A q \in Place : plist[q].pid \in Nat /\ plist[q].pid <= nextpid
    BY DEF IInv, TypeOK, Processes, PidOrder
  <2> QED BY <1>2, <1>b, <1>3, <2>1 DEF IInv, TypeOK, PidOrder, Used
<1>7. UniquePids'
  <2>1. \A q \in Place : plist[q].pid \in Nat /\ plist[q].pid <= nextpid
    BY DEF IInv, TypeOK, Processes, PidOrder
  <2> QED BY <1>2, <1>b, <1>3, <2>1 DEF IInv, TypeOK, UniquePids, Used
<1>8. KillStack'
  BY <1>1, <1>3 DEF IInv, TypeOK, KillStack
<1>9. CurrentRuns'
  BY <1>1, <1>3 DEF IInv, TypeOK, CurrentRuns, Running, Ready, Used, Resumes
<1>10. QueueConsistent' /\ TsleepConsistent'
  BY <1>1, <1>b, <1>3 DEF IInv, TypeOK, QueueConsistent, TsleepConsistent, Ready
<1>11. MemoryReclaim'
  BY <1>1, <1>b, <1>3 DEF IInv, TypeOK, MemoryReclaim, CurrentRuns, Used, Dead
<1>12. NoSchedulerFatal'
  BY DEF NoSchedulerFatal
<1> QED BY <1>4, <1>5, <1>6, <1>7, <1>8, <1>9, <1>10, <1>11, <1>12 DEF IInv

LEMMA NoEffectInv == ASSUME IInv, NoEffect \/ ExitKernel PROVE IInv'
<1>1. plist' \in [Place -> Processes] /\ \A p \in Place : Kept(p)
  BY DEF NoEffect, ExitKernel, IInv, TypeOK, Kept
<1>2. /\ UNCHANGED <<cur, nextpid, queue, tsleep, clean, qindex, since, kills>>
      /\ mode \in {"user", "exit"} /\ mode' \in {"user", "exit", "sched"}
  BY DEF NoEffect, ExitKernel
<1>3. /\ Roles' /\ PidOrder' /\ UniquePids' /\ QueueConsistent'
      /\ TsleepConsistent' /\ MemoryReclaim'
      /\ Used(cur)' /\ Running(cur)' = Running(cur)
  BY <1>1, <1>2, TableKept
<1>4. TypeOK'
  BY <1>1, <1>2 DEF IInv, TypeOK, Modes, Resumes
<1>5. KillStack'
  BY <1>2, NoKillStack DEF IInv, KillStack
<1>6. CurrentRuns' /\ NoSchedulerFatal'
  BY <1>2, <1>3 DEF IInv, CurrentRuns, Resumes, NoSchedulerFatal
<1> QED BY <1>3, <1>4, <1>5, <1>6 DEF IInv

LEMMA YieldInv == ASSUME IInv, Yield PROVE IInv'
<1> USE DEF Yield, InUser
<1>1. plist' \in [Place -> Processes] /\ \A p \in Place : Kept(p)
  BY Names, ZenonT(40) DEF IInv, TypeOK, Kept, Processes
<1>2. /\ Roles' /\ PidOrder' /\ UniquePids' /\ QueueConsistent'
      /\ TsleepConsistent' /\ MemoryReclaim' /\ Used(cur)'
  BY <1>1, TableKept
<1>3. TypeOK'
  BY <1>1 DEF IInv, TypeOK, Modes
<1>4. KillStack'
  BY NoKillStack DEF IInv, KillStack
<1>5. CurrentRuns' /\ NoSchedulerFatal'
  BY <1>2 DEF CurrentRuns, Resumes, NoSchedulerFatal
<1> QED BY <1>2, <1>3, <1>4, <1>5 DEF IInv

LEMMA WaitReapInv ==
    ASSUME IInv, NEW pid, WaitReap(pid)
    PROVE  IInv'
<1> USE DEF WaitReap, InUser
<1>1. PICK z \in Place : Dead(z) /\ plist' = [plist EXCEPT ![z] = Free]
  BY DEF Zombies, Reap
<1>2. z # cur /\ Running(cur) /\ plist \in [Place -> Processes]
  BY <1>1 DEF IInv, TypeOK, CurrentRuns, Running, Ready, Dead, Resumes
<1>3. /\ plist' \in [Place -> Processes]
      /\ \A p \in Place : Kept(p) \/ (Dead(p) /\ p # cur /\ plist'[p] = Free)
  BY <1>1, <1>2, FreeProcess DEF Kept
<1>4. /\ Roles' /\ PidOrder' /\ UniquePids' /\ QueueConsistent'
      /\ TsleepConsistent' /\ MemoryReclaim'
      /\ Used(cur)' /\ Running(cur)' = Running(cur)
  BY <1>3, TableKept
<1>5. TypeOK'
  BY <1>3 DEF IInv, TypeOK, Modes, Resumes
<1>6. KillStack'
  BY NoKillStack DEF IInv, KillStack
<1>7. CurrentRuns' /\ NoSchedulerFatal'
  BY <1>2, <1>4 DEF CurrentRuns, NoSchedulerFatal
<1> QED BY <1>4, <1>5, <1>6, <1>7 DEF IInv

LEMMA WaitReturnInv == ASSUME IInv, WaitReturn PROVE IInv'
<1> USE DEF WaitReturn
<1> DEFINE returned == [plist EXCEPT ![cur].wait_pid = 0, ![cur].req = 0]
<1>1. plist \in [Place -> Processes] /\ cur \in Place /\ Running(cur)
  BY DEF IInv, TypeOK, CurrentRuns, Resumes
<1>2. /\ returned \in [Place -> Processes]
      /\ \A p \in Place : /\ returned[p].state = plist[p].state
                          /\ returned[p].pid = plist[p].pid
                          /\ returned[p].ppid = plist[p].ppid
                          /\ returned[p].dir = plist[p].dir
                          /\ returned[p].val = plist[p].val
  <2>1. returned \in [Place -> Processes]
    <3> DEFINE zero == 0
    <3>1. zero \in Int
      OBVIOUS
    <3> HIDE DEF zero
    <3>2. [plist EXCEPT ![cur].wait_pid = zero, ![cur].req = zero]
            \in [Place -> Processes]
      BY <1>1, <3>1, ZenonT(40) DEF Processes
    <3> QED BY <3>2 DEF zero
  <2>2. \A p \in Place : /\ returned[p].state = plist[p].state
                         /\ returned[p].pid = plist[p].pid
                         /\ returned[p].ppid = plist[p].ppid
                         /\ returned[p].val = plist[p].val
    BY <1>1 DEF Processes
  <2>3. \A p \in Place : returned[p].dir = plist[p].dir
    BY <1>1 DEF Processes
  <2> QED BY <2>1, <2>2, <2>3
<1>3. \/ plist' = returned
      \/ \E z \in Place : Dead(z) /\ plist' = [returned EXCEPT ![z] = Free]
  BY DEF Zombies
<1> HIDE DEF returned
<1>4. /\ plist' \in [Place -> Processes]
      /\ \A p \in Place : Kept(p) \/ (Dead(p) /\ p # cur /\ plist'[p] = Free)
  <2>1. CASE plist' = returned
    BY <1>2, <2>1 DEF Kept
  <2>2. CASE \E z \in Place : Dead(z) /\ plist' = [returned EXCEPT ![z] = Free]
    <3>1. PICK z \in Place : Dead(z) /\ plist' = [returned EXCEPT ![z] = Free]
      BY <2>2
    <3>2. z # cur
      BY <1>1, <3>1 DEF Running, Ready, Dead
    <3>3. /\ plist' \in [Place -> Processes] /\ plist'[z] = Free
          /\ \A p \in Place \ {z} : plist'[p] = returned[p]
      BY <1>2, <3>1, FreeProcess
    <3> QED BY <1>2, <3>1, <3>2, <3>3 DEF Kept
  <2> QED BY <1>3, <2>1, <2>2
<1>5. /\ Roles' /\ PidOrder' /\ UniquePids' /\ QueueConsistent'
      /\ TsleepConsistent' /\ MemoryReclaim'
      /\ Used(cur)' /\ Running(cur)' = Running(cur)
  BY <1>4, TableKept
<1>6. mode' \in {"exit", "fatal_wait"}
  OBVIOUS
<1>7. TypeOK'
  BY <1>4, <1>6 DEF IInv, TypeOK, Modes, Resumes, Halts
<1>8. KillStack'
  BY <1>6, NoKillStack DEF IInv, KillStack
<1>9. CurrentRuns' /\ NoSchedulerFatal'
  BY <1>1, <1>5, <1>6 DEF CurrentRuns, NoSchedulerFatal
<1> QED BY <1>5, <1>7, <1>8, <1>9 DEF IInv

LEMMA KernelReturnInv == ASSUME IInv, KernelReturn PROVE IInv'
<1> USE DEF KernelReturn
<1>1. plist \in [Place -> Processes] /\ Running(cur)
  BY DEF IInv, TypeOK, CurrentRuns, Resumes
<1>2. /\ plist' \in [Place -> Processes]
      /\ \A p \in Place : \/ plist'[p] = plist[p]
                          \/ Dead(p) /\ plist'[p] = Free
  BY <1>1, FreeProcess
<1>3. \A p \in Place : Kept(p) \/ (Dead(p) /\ p # cur /\ plist'[p] = Free)
  BY <1>1, <1>2 DEF Kept, Running, Ready, Dead
<1>4. /\ Roles' /\ PidOrder' /\ UniquePids' /\ QueueConsistent'
      /\ TsleepConsistent' /\ MemoryReclaim'
      /\ Used(cur)' /\ Running(cur)' = Running(cur)
  BY <1>2, <1>3, TableKept
<1>5. TypeOK'
  BY <1>2 DEF IInv, TypeOK, Modes, Halts
<1>6. KillStack'
  BY NoKillStack DEF IInv, KillStack
<1>7. CurrentRuns' /\ NoSchedulerFatal'
  BY <1>1, <1>4 DEF CurrentRuns, Resumes, NoSchedulerFatal
<1> QED BY <1>4, <1>5, <1>6, <1>7 DEF IInv

LEMMA ReparentInv ==
    ASSUME IInv, NEW p \in Place, Reparent(p)
    PROVE  IInv'
<1> USE DEF Reparent, InUser
<1>1. /\ plist \in [Place -> Processes] /\ cur \in Place
      /\ \A q \in Place : plist[q].pid \in Nat
  BY DEF IInv, TypeOK, Processes
<1>2. plist' \in [Place -> Processes]
  <2> DEFINE zero == 0
  <2>1. zero \in Nat
    OBVIOUS
  <2> HIDE DEF zero
  <2>2. [plist EXCEPT ![p].ppid = zero] \in [Place -> Processes]
    BY <1>1, <2>1 DEF Processes
  <2> QED BY <2>2 DEF zero
<1>3. /\ \A q \in Place : /\ plist'[q].state = plist[q].state
                          /\ plist'[q].pid = plist[q].pid
                          /\ plist'[q].val = plist[q].val
      /\ \A q \in Place \ {p} : plist'[q].ppid = plist[q].ppid
      /\ plist'[p].ppid = 0
  BY <1>1 DEF Processes
<1>4. \A q \in Place : plist'[q].dir = plist[q].dir
  BY <1>1 DEF Processes
<1>5. TypeOK'
  BY <1>2 DEF IInv, TypeOK, Modes, Resumes
<1>6. Roles' /\ UniquePids'
  BY <1>3 DEF IInv, Roles, UniquePids, Alive, Used, Place
<1>7. PidOrder'
  <2>1. p # Kernel => plist[p].pid > 0
    BY <1>1 DEF IInv, PidOrder, IsChild
  <2> QED BY <1>1, <1>3, <2>1 DEF IInv, PidOrder, Used
<1>8. KillStack'
  BY NoKillStack DEF IInv, KillStack
<1>9. CurrentRuns'
  BY <1>1, <1>3 DEF IInv, CurrentRuns, Running, Ready, Used, Resumes
<1>10. QueueConsistent' /\ TsleepConsistent'
  BY <1>3 DEF IInv, QueueConsistent, TsleepConsistent, Ready
<1>11. MemoryReclaim'
  BY <1>1, <1>3, <1>4 DEF IInv, MemoryReclaim, Used, Dead
<1>12. NoSchedulerFatal'
  BY DEF NoSchedulerFatal
<1> QED BY <1>5, <1>6, <1>7, <1>8, <1>9, <1>10, <1>11, <1>12 DEF IInv

\* The queue has room for every process but the idle one.
LEMMA QueueBound ==
    ASSUME NEW q \in Seq(Place), IsInjective(q), Idle \notin Range(q)
    PROVE  Len(q) <= PROCESS_MAX - 1
<1> DEFINE T == Place \ {Idle}
<1>1. IsFiniteSet(T) /\ Cardinality(T) = PROCESS_MAX - 1
  <2>1. IsFiniteSet(Place) /\ Cardinality(Place) = PROCESS_MAX
    BY PlacesFinite
  <2>2. Idle \in Place
    BY DEF Place
  <2> QED BY <2>1, <2>2, FS_RemoveElement
<1>2. Range(q) \subseteq T
  BY DEF Range
<1> QED BY <1>1, <1>2, LengthBound

\* So a sleeper that is woken up can always be entered.
LEMMA SleeperFits ==
    ASSUME IInv, NEW p \in Place, plist[p].state = "SLP"
    PROVE  CanEnqueue(p)
<1>1. queue \in Seq(Place) /\ IsInjective(queue) /\ p \notin Range(queue)
  BY DEF IInv, TypeOK, QueueConsistent, Ready
<1>2. Idle \notin Range(queue)
  BY DEF IInv, QueueConsistent, Roles, Ready
<1>3. Len(queue) <= PROCESS_MAX - 1
  BY <1>1, <1>2, QueueBound
<1>4. Len(queue) \in Nat
  BY <1>1
<1> QED BY <1>1, <1>3, <1>4 DEF CanEnqueue

\* Without is a list of places again.
LEMMA QueueWithout ==
    ASSUME IInv, NEW p
    PROVE  /\ Without(queue, p) \in Seq(Place)
           /\ IsInjective(Without(queue, p))
           /\ Range(Without(queue, p)) = Range(queue) \ {p}
BY WithoutRemoves DEF IInv, TypeOK, QueueConsistent

\* The entries of processes that put themselves, or others, to sleep.
LEMMA SleepTypes ==
    ASSUME TypeOK, NEW p \in Place, NEW d \in Delays \cup {Forever}, Sleep(p, d)
    PROVE  plist' \in [Place -> Processes]
<1> DEFINE s == "SLP"
           v == IF d = Forever THEN 0 ELSE d + 1
           r == IF p = cur THEN "exit" ELSE plist[p].resume
<1>1. s \in States /\ v \in Nat /\ plist \in [Place -> Processes]
  BY Names DEF TypeOK, Forever
<1>2. r \in Resumes
  BY <1>1, Names DEF Processes
<1>3. plist' = [plist EXCEPT ![p].state = s, ![p].val = v, ![p].resume = r]
  BY DEF Sleep
<1> HIDE DEF s, v, r
<1>4. [plist EXCEPT ![p].state = s, ![p].val = v, ![p].resume = r]
        \in [Place -> Processes]
  BY <1>1, <1>2, ZenonT(40) DEF Processes
<1> QED BY <1>3, <1>4

LEMMA WaitBlockTypes ==
    ASSUME TypeOK, NEW pid \in Int, WaitBlock(pid)
    PROVE  plist' \in [Place -> Processes]
<1> DEFINE s == "SLP"
           zero == 0
           w == "wait"
           g == [plist EXCEPT ![cur].state = s, ![cur].wait_pid = pid,
                              ![cur].val = zero]
<1>1. /\ s \in States /\ w \in Resumes /\ zero \in Nat
      /\ plist \in [Place -> Processes] /\ cur \in Place
  BY Names DEF TypeOK
<1>2. plist' = [g EXCEPT ![cur].req = pid, ![cur].resume = w]
  BY DEF WaitBlock
<1> HIDE DEF s, zero, w
<1>3. g \in [Place -> Processes]
  BY <1>1, ZenonT(40) DEF Processes
<1> HIDE DEF g
<1>4. [g EXCEPT ![cur].req = pid, ![cur].resume = w] \in [Place -> Processes]
  BY <1>1, <1>3, ZenonT(40) DEF Processes
<1> QED BY <1>2, <1>4

LEMMA SleepInv ==
    ASSUME IInv, NEW p \in Place, NEW d \in Delays \cup {Forever}, Sleep(p, d)
    PROVE  IInv'
<1> USE DEF Sleep, InUser
<1> DEFINE v == IF d = Forever THEN 0 ELSE d + 1
           r == IF p = cur THEN "exit" ELSE plist[p].resume
<1>1. /\ plist \in [Place -> Processes] /\ cur \in Place /\ Running(cur)
      /\ tsleep \subseteq Place
  BY DEF IInv, TypeOK, CurrentRuns, Resumes
<1>2. v \in Nat /\ (v = 0 <=> d = Forever)
  BY DEF Forever
<1>3. r \in Resumes
  BY <1>1, Names DEF Processes
<1>4. plist' = [plist EXCEPT ![p].state = "SLP", ![p].val = v, ![p].resume = r]
  OBVIOUS
<1> HIDE DEF v, r
<1>5. /\ plist' \in [Place -> Processes]
      /\ plist'[p].state = "SLP" /\ plist'[p].val = v
      /\ \A q \in Place \ {p} : plist'[q] = plist[q]
  <2>1. plist' \in [Place -> Processes]
    BY SleepTypes DEF IInv
  <2>2. /\ plist'[p].state = "SLP" /\ plist'[p].val = v
        /\ \A q \in Place \ {p} : plist'[q] = plist[q]
    BY <1>1, <1>4 DEF Processes
  <2> QED BY <2>1, <2>2
<1>6. plist'[p].pid = plist[p].pid /\ plist'[p].ppid = plist[p].ppid
  BY <1>1, <1>4 DEF Processes
<1>7. plist'[p].dir = plist[p].dir
  BY <1>1, <1>4 DEF Processes
<1>8. \A q \in Place : Stirred(q)
  BY <1>5, <1>6, <1>7 DEF Stirred, Alive
<1>9. Roles' /\ PidOrder' /\ UniquePids' /\ MemoryReclaim' /\ Used(cur)'
  BY <1>5, <1>8, TableStirred
<1>10. TypeOK'
  BY <1>5, QueueWithout DEF IInv, TypeOK, Modes, Resumes
<1>11. QueueConsistent'
  BY <1>1, <1>5, QueueWithout DEF IInv, QueueConsistent, Ready
<1>12. TsleepConsistent'
  BY <1>1, <1>2, <1>5 DEF IInv, TsleepConsistent
<1>13. KillStack'
  BY NoKillStack DEF IInv, KillStack
<1>14. CurrentRuns' /\ NoSchedulerFatal'
  BY <1>1, <1>5, <1>9 DEF CurrentRuns, Running, Ready, Resumes, NoSchedulerFatal
<1> QED BY <1>9, <1>10, <1>11, <1>12, <1>13, <1>14 DEF IInv

LEMMA WakeupInv ==
    ASSUME IInv, NEW p \in Place, Wakeup(p)
    PROVE  IInv'
<1> USE DEF Wakeup, InUser
<1>1. /\ plist \in [Place -> Processes] /\ cur \in Place /\ Running(cur)
      /\ tsleep \subseteq Place
  BY DEF IInv, TypeOK, CurrentRuns, Resumes
<1>2. CanEnqueue(p)
  BY SleeperFits
<1>3. /\ plist' \in [Place -> Processes]
      /\ plist'[p] = Woken(plist[p]) /\ Woken(plist[p]) \in Processes
      /\ \A q \in Place \ {p} : plist'[q] = plist[q]
  BY <1>1, WokenProcess
<1>4. \A q \in Place : Stirred(q)
  BY <1>1, <1>3, WokenProcess DEF Stirred, Alive
<1>5. Roles' /\ PidOrder' /\ UniquePids' /\ MemoryReclaim' /\ Used(cur)'
  BY <1>3, <1>4, TableStirred
<1>6. /\ queue' \in Seq(Place) /\ IsInjective(queue')
      /\ Range(queue') = Range(queue) \cup {p}
  BY <1>2, AppendAdds DEF CanEnqueue, IInv, TypeOK, QueueConsistent
<1>7. TypeOK'
  BY <1>1, <1>2, <1>3, <1>6 DEF IInv, TypeOK, StillAsleep, Modes, Resumes
<1>8. QueueConsistent'
  BY <1>1, <1>3, <1>6, WokenProcess DEF IInv, QueueConsistent, Ready
<1>9. TsleepConsistent'
  BY <1>1, <1>3, WokenProcess DEF IInv, TsleepConsistent, StillAsleep
<1>10. KillStack'
  BY <1>2, NoKillStack DEF IInv, KillStack
<1>11. CurrentRuns' /\ NoSchedulerFatal'
  BY <1>1, <1>2, <1>3, <1>5, WokenProcess
  DEF CurrentRuns, Running, Ready, NoSchedulerFatal
<1> QED BY <1>5, <1>7, <1>8, <1>9, <1>10, <1>11 DEF IInv

LEMMA WaitBlockInv ==
    ASSUME IInv, NEW pid \in Int, WaitBlock(pid)
    PROVE  IInv'
<1> USE DEF WaitBlock, InUser
<1>1. /\ plist \in [Place -> Processes] /\ cur \in Place /\ Ready(cur)
      /\ tsleep \subseteq Place
  BY DEF IInv, TypeOK, CurrentRuns, Running, Roles, Resumes
<1>2. plist' \in [Place -> Processes]
  BY WaitBlockTypes DEF IInv
<1>3. /\ plist'[cur].state = "SLP" /\ plist'[cur].val = 0
      /\ \A q \in Place \ {cur} : plist'[q] = plist[q]
  BY <1>1 DEF Processes
<1>4. plist'[cur].pid = plist[cur].pid /\ plist'[cur].ppid = plist[cur].ppid
  BY <1>1 DEF Processes
<1>5. plist'[cur].dir = plist[cur].dir
  BY <1>1 DEF Processes
<1>6. \A q \in Place : Stirred(q)
  BY <1>1, <1>3, <1>4, <1>5 DEF Stirred, Alive, Ready
<1>7. Roles' /\ PidOrder' /\ UniquePids' /\ MemoryReclaim' /\ Used(cur)'
  BY <1>2, <1>6, TableStirred
<1>8. TypeOK'
  BY <1>2, QueueWithout DEF IInv, TypeOK, Modes, Resumes
<1>9. QueueConsistent'
  BY <1>1, <1>3, QueueWithout DEF IInv, QueueConsistent, Ready
<1>10. TsleepConsistent'
  BY <1>1, <1>3 DEF IInv, TsleepConsistent, Ready
<1>11. KillStack'
  BY NoKillStack DEF IInv, KillStack
<1>12. CurrentRuns' /\ NoSchedulerFatal'
  BY <1>7 DEF CurrentRuns, Resumes, NoSchedulerFatal
<1> QED BY <1>7, <1>8, <1>9, <1>10, <1>11, <1>12 DEF IInv

LEMMA HandoverTypes ==
    ASSUME TypeOK, NEW p \in Place, Handover(p), p # cur
    PROVE  /\ plist' \in [Place -> Processes]
           /\ plist'[p] = Woken(plist[p])
           /\ \A q \in Place \ {p, cur} : plist'[q] = plist[q]
           /\ plist'[cur].state = "SLP" /\ plist'[cur].val = 0
           /\ plist'[cur].pid = plist[cur].pid
           /\ plist'[cur].ppid = plist[cur].ppid
           /\ plist'[cur].dir = plist[cur].dir
<1> DEFINE s == "SLP"
           zero == 0
           e == "exit"
           n == plist[p].pid
           g == [plist EXCEPT ![p] = Woken(@)]
           h == [g EXCEPT ![cur].state = s, ![cur].wait_pid = n, ![cur].val = zero]
<1>1. /\ s \in States /\ e \in Resumes /\ zero \in Nat
      /\ plist \in [Place -> Processes] /\ cur \in Place
  BY Names DEF TypeOK
<1>2. n \in Int
  BY <1>1 DEF Processes
<1>3. plist' = [h EXCEPT ![cur].resume = e]
  BY DEF Handover
<1> HIDE DEF s, zero, e, n
<1>4. /\ g \in [Place -> Processes] /\ g[p] = Woken(plist[p])
      /\ \A q \in Place \ {p} : g[q] = plist[q]
  BY <1>1, WokenProcess
<1> HIDE DEF g
<1>5. /\ h \in [Place -> Processes]
      /\ \A q \in Place \ {cur} : h[q] = g[q]
  <2> DEFINE k == [g EXCEPT ![cur].state = s, ![cur].wait_pid = n]
  <2>1. g \in [Place -> Processes]
    BY <1>4
  <2>2. [g EXCEPT ![cur].state = s] \in [Place -> Processes]
    BY <1>1, <2>1 DEF Processes
  <2>3. k \in [Place -> Processes]
    BY <1>1, <1>2, <2>2 DEF Processes
  <2> HIDE DEF k
  <2>4. [k EXCEPT ![cur].val = zero] \in [Place -> Processes]
    BY <1>1, <2>3 DEF Processes
  <2>5. \A q \in Place \ {cur} : h[q] = g[q]
    BY <1>1, <1>4
  <2> QED BY <2>4, <2>5 DEF k
<1>6. /\ h[cur].state = s /\ h[cur].val = zero
      /\ h[cur].pid = g[cur].pid /\ h[cur].ppid = g[cur].ppid
  BY <1>1, <1>4 DEF Processes
<1>7. h[cur].dir = g[cur].dir
  BY <1>1, <1>4 DEF Processes
<1> HIDE DEF h
<1>8. /\ plist' \in [Place -> Processes]
      /\ \A q \in Place \ {cur} : plist'[q] = h[q]
  BY <1>1, <1>3, <1>5 DEF Processes
<1>9. /\ plist'[cur].state = h[cur].state /\ plist'[cur].val = h[cur].val
      /\ plist'[cur].pid = h[cur].pid /\ plist'[cur].ppid = h[cur].ppid
  BY <1>1, <1>3, <1>5 DEF Processes
<1>10. plist'[cur].dir = h[cur].dir
  BY <1>1, <1>3, <1>5 DEF Processes
<1>11. plist'[p] = Woken(plist[p])
  BY <1>4, <1>5, <1>8
<1>12. \A q \in Place \ {p, cur} : plist'[q] = plist[q]
  BY <1>4, <1>5, <1>8
<1>13. plist'[cur].state = "SLP" /\ plist'[cur].val = 0
  BY <1>6, <1>9 DEF s, zero
<1>14. /\ plist'[cur].pid = plist[cur].pid
       /\ plist'[cur].ppid = plist[cur].ppid /\ plist'[cur].dir = plist[cur].dir
  BY <1>1, <1>4, <1>6, <1>7, <1>9, <1>10
<1> QED BY <1>8, <1>11, <1>12, <1>13, <1>14

LEMMA HandoverInv ==
    ASSUME IInv, NEW p \in Place, Handover(p)
    PROVE  IInv'
<1>1. /\ plist \in [Place -> Processes] /\ cur \in Place /\ Ready(cur)
      /\ plist[p].state = "SLP" /\ p # cur /\ tsleep \subseteq Place
  BY DEF Handover, InUser, IInv, TypeOK, CurrentRuns, Running, Ready, Roles, Resumes
<1>2. CanEnqueue(p)
  BY <1>1, SleeperFits
<1>3. /\ plist' \in [Place -> Processes]
      /\ plist'[p] = Woken(plist[p])
      /\ \A q \in Place \ {p, cur} : plist'[q] = plist[q]
      /\ plist'[cur].state = "SLP" /\ plist'[cur].val = 0
      /\ plist'[cur].pid = plist[cur].pid /\ plist'[cur].ppid = plist[cur].ppid
      /\ plist'[cur].dir = plist[cur].dir
  BY <1>1, HandoverTypes DEF IInv
<1>4. /\ plist'[p].state = "INQ" /\ plist'[p].val = 0
      /\ plist'[p].pid = plist[p].pid /\ plist'[p].ppid = plist[p].ppid
      /\ plist'[p].dir = plist[p].dir
  BY <1>1, <1>3, WokenProcess
<1>5. /\ UNCHANGED <<cur, nextpid, qindex, clean, since, kills>>
      /\ mode = "user" /\ mode' = "sched" /\ tsleep' = StillAsleep(p)
      /\ queue' = Without(Append(queue, p), cur)
  BY <1>2 DEF Handover, InUser
<1>6. \A q \in Place : Stirred(q)
  BY <1>1, <1>3, <1>4 DEF Stirred, Alive, Ready
<1>7. Roles' /\ PidOrder' /\ UniquePids' /\ MemoryReclaim' /\ Used(cur)'
  BY <1>3, <1>5, <1>6, TableStirred
<1>8. /\ queue' \in Seq(Place) /\ IsInjective(queue')
      /\ Range(queue') = (Range(queue) \cup {p}) \ {cur}
  <2> DEFINE a == Append(queue, p)
  <2>1. /\ a \in Seq(Place) /\ IsInjective(a)
        /\ Range(a) = Range(queue) \cup {p}
    BY <1>2, AppendAdds DEF CanEnqueue, IInv, TypeOK, QueueConsistent
  <2>2. queue' = Without(a, cur)
    BY <1>5
  <2> HIDE DEF a
  <2> QED BY <2>1, <2>2, WithoutRemoves
<1>9. TypeOK'
  BY <1>1, <1>3, <1>5, <1>8 DEF IInv, TypeOK, StillAsleep, Modes
<1>10. QueueConsistent'
  BY <1>1, <1>3, <1>4, <1>5, <1>8 DEF IInv, QueueConsistent, Ready
<1>11. TsleepConsistent'
  BY <1>1, <1>3, <1>4, <1>5 DEF IInv, TsleepConsistent, StillAsleep, Ready
<1>12. KillStack'
  BY <1>5, NoKillStack DEF IInv, KillStack
<1>13. CurrentRuns' /\ NoSchedulerFatal'
  BY <1>5, <1>7 DEF CurrentRuns, Resumes, NoSchedulerFatal
<1> QED BY <1>7, <1>9, <1>10, <1>11, <1>12, <1>13 DEF IInv

\* What process_kill does before its loop, to whomever.
LEMMA KillBeginKeeps ==
    ASSUME IInv, NEW p \in Place, Alive(p), p # Kernel, NEW ret \in Nat,
           KillBegin(p, ret), UNCHANGED <<cur, nextpid>>
    PROVE  /\ plist' \in [Place -> Processes]
           /\ plist'[p].state = "ZMB" /\ plist'[p].pid = plist[p].pid
           /\ \A q \in Place \ {p} : plist'[q] = plist[q]
           /\ queue' \in Seq(Place) /\ tsleep' \subseteq Place
           /\ clean' = TRUE /\ mode' = "kill"
           /\ Roles' /\ PidOrder' /\ UniquePids' /\ QueueConsistent'
           /\ TsleepConsistent' /\ MemoryReclaim' /\ Used(cur)'
<1>1. /\ plist \in [Place -> Processes] /\ cur \in Place
      /\ \A q \in Place : plist[q].pid \in Nat
      /\ Kernel \in Place /\ Idle \in Place /\ tsleep \subseteq Place
  <2>1. plist \in [Place -> Processes] /\ cur \in Place /\ tsleep \subseteq Place
    BY DEF IInv, TypeOK
  <2>2. \A q \in Place : plist[q].pid \in Nat
    BY <2>1 DEF Processes
  <2> QED BY <2>1, <2>2 DEF Place
<1>2. /\ plist' \in [Place -> Processes]
      /\ plist'[p] = Killed(plist[p], ret)
      /\ \A q \in Place \ {p} : plist'[q] = plist[q]
  BY <1>1, KilledProcess DEF KillBegin
<1>3. /\ plist'[p].state = "ZMB" /\ plist'[p].pid = plist[p].pid
      /\ plist'[p].ppid = plist[p].ppid /\ plist'[p].dir = plist[p].dir
  <2>1. plist[p] \in Processes
    BY <1>1
  <2> QED BY <1>2, <2>1, KilledProcess
<1>4. /\ queue' = Without(queue, p) /\ clean' = TRUE /\ mode' = "kill"
      /\ tsleep' = IF plist[p].state = "SLP" /\ plist[p].val # 0
                   THEN tsleep \ {p} ELSE tsleep
  BY DEF KillBegin
<1>5. queue' \in Seq(Place) /\ tsleep' \subseteq Place
  BY <1>1, <1>4, QueueWithout
<1>6. Roles'
  BY <1>1, <1>2, <1>3 DEF IInv, Roles, Alive
<1>7. PidOrder'
  BY <1>1, <1>2, <1>3 DEF IInv, PidOrder, Used, Alive
<1>8. UniquePids'
  BY <1>1, <1>2, <1>3 DEF IInv, UniquePids, Used, Alive
<1>9. QueueConsistent'
  BY <1>1, <1>2, <1>3, <1>4, QueueWithout DEF IInv, QueueConsistent, Ready
<1>10. TsleepConsistent'
  BY <1>1, <1>2, <1>3, <1>4 DEF IInv, TsleepConsistent
<1>11. MemoryReclaim'
  BY <1>1, <1>2, <1>3, <1>4 DEF IInv, MemoryReclaim, Used, Dead, Alive
<1>12. Used(cur)'
  BY <1>1, <1>2, <1>3 DEF IInv, CurrentRuns, Used
<1> QED BY <1>2, <1>3, <1>4, <1>5, <1>6, <1>7, <1>8, <1>9, <1>10, <1>11, <1>12

LEMMA FirstFrame ==
    ASSUME NEW p \in Place
    PROVE  /\ <<Frame(p)>> \in Seq(Frames) /\ Len(<<Frame(p)>>) = 1
           /\ <<Frame(p)>>[1].place = p /\ Frame(p) \in Frames
           /\ Frame(p).place = p
BY DEF Frame, Frames

\* A kill that starts a stack of its own.
LEMMA KillStarts ==
    ASSUME IInv, mode = "user", NEW p \in Place, Alive(p), p # Kernel,
           NEW ret \in Nat, KillBegin(p, ret), kills' = <<Frame(p)>>,
           UNCHANGED <<cur, nextpid, qindex, since>>
    PROVE  IInv'
<1>1. /\ plist' \in [Place -> Processes]
      /\ plist'[p].state = "ZMB" /\ plist'[p].pid = plist[p].pid
      /\ \A q \in Place \ {p} : plist'[q] = plist[q]
      /\ queue' \in Seq(Place) /\ tsleep' \subseteq Place
      /\ clean' = TRUE /\ mode' = "kill"
      /\ Roles' /\ PidOrder' /\ UniquePids' /\ QueueConsistent'
      /\ TsleepConsistent' /\ MemoryReclaim' /\ Used(cur)'
  BY KillBeginKeeps
<1>2. /\ kills' \in Seq(Frames) /\ Len(kills') = 1 /\ kills'[1].place = p
  BY FirstFrame
<1>3. TypeOK'
  BY <1>1, <1>2 DEF IInv, TypeOK, Modes
<1>4. KillStack'
  <2>1. kills' # <<>>
    BY <1>2
  <2>2. plist'[p].pid # 0
    <3>1. plist[p].ppid \in Nat /\ plist[p].pid \in Nat
      BY DEF IInv, TypeOK, Processes
    <3>2. plist[p].ppid < plist[p].pid
      BY DEF IInv, PidOrder, Used, Alive
    <3> QED BY <1>1, <3>1, <3>2
  <2> QED BY <1>1, <1>2, <2>1, <2>2 DEF KillStack, Dead
<1>5. CurrentRuns'
  <2>1. Running(cur) /\ cur \in Place
    BY DEF IInv, TypeOK, CurrentRuns, Resumes
  <2>2. 1 \in 1 .. Len(kills')
    BY <1>2
  <2>3. cur # p => Running(cur)'
    BY <1>1, <2>1 DEF Running, Ready
  <2> QED BY <1>1, <1>2, <2>2, <2>3 DEF CurrentRuns, Resumes
<1> QED BY <1>1, <1>3, <1>4, <1>5 DEF IInv, NoSchedulerFatal

LEMMA KillInv ==
    ASSUME IInv, NEW p \in Place, NEW ret \in RetCodes, Kill(p, ret)
    PROVE  IInv'
<1>1. p # Kernel
  BY DEF Kill, IInv, Roles
<1>2. ret \in Nat
  OBVIOUS
<1> QED BY <1>1, <1>2, KillStarts DEF Kill, InUser

LEMMA ExitCurrentInv == ASSUME IInv, ExitCurrent PROVE IInv'
<1>1. PICK p \in F2Victims : KillBegin(p, F2RetCode) /\ kills' = <<Frame(p)>>
  BY DEF ExitCurrent
<1>2. p \in Place /\ Alive(p) /\ p # Kernel
  BY <1>1 DEF F2Victims, Alive, IInv, Roles
<1>3. F2RetCode \in Nat
  BY DEF F2RetCode
<1>4. mode = "user" /\ UNCHANGED <<cur, nextpid, qindex, since>>
  BY DEF ExitCurrent
<1> QED BY <1>1, <1>2, <1>3, <1>4, KillStarts

\* Moving the scan of the innermost activation on leaves the stack as it is.
LEMMA ScanMoves ==
    ASSUME kills \in Seq(Frames), kills # <<>>, NEW i \in Place
    PROVE  /\ Advanced(i) \in Seq(Frames) /\ Len(Advanced(i)) = Len(kills)
           /\ \A j \in 1 .. Len(kills) : Advanced(i)[j].place = kills[j].place
<1>1. Len(kills) \in 1 .. Len(kills) /\ Len(kills) \in Nat
  OBVIOUS
<1>2. i + 1 \in 0 .. PROCESS_MAX
  BY DEF Place
<1> DEFINE n == i + 1
<1> HIDE DEF n
<1>3. \A j \in 1 .. Len(kills) : kills[j] \in Frames
  OBVIOUS
<1>4. [kills[Len(kills)] EXCEPT !.i = n] \in Frames
  BY <1>1, <1>2, <1>3 DEF Frames, n
<1>5. [kills[Len(kills)] EXCEPT !.i = n].place = kills[Len(kills)].place
  BY <1>1, <1>3 DEF Frames
<1>6. Advanced(i) = [kills EXCEPT ![Len(kills)] = [kills[Len(kills)] EXCEPT !.i = n]]
  BY <1>1 DEF Advanced, n
<1> QED BY <1>1, <1>3, <1>4, <1>5, <1>6

\* What the loop of process_kill can rely on.
LEMMA ScanFacts ==
    ASSUME IInv, mode = "kill"
    PROVE  /\ kills \in Seq(Frames) /\ kills # <<>> /\ Len(kills) \in Nat
           /\ Len(kills) >= 1
           /\ \A j \in 1 .. Len(kills) : kills[j].place \in Place
           /\ Top.place \in Place /\ Dead(Top.place)
           /\ Dying.pid \in Nat /\ Dying.pid # 0
           /\ \A j \in 1 .. Len(kills) :
                 plist[kills[j].place].pid <= Dying.pid
<1>1. /\ kills \in Seq(Frames) /\ kills # <<>> /\ plist \in [Place -> Processes]
      /\ \A q \in Place : plist[q].pid \in Nat
  <2>1. kills \in Seq(Frames) /\ plist \in [Place -> Processes]
    BY DEF IInv, TypeOK
  <2>2. \A q \in Place : plist[q].pid \in Nat
    BY <2>1 DEF Processes
  <2> QED BY <2>1, <2>2 DEF IInv, KillStack
<1>2. Len(kills) \in Nat /\ Len(kills) >= 1 /\ Len(kills) \in 1 .. Len(kills)
  BY <1>1
<1>3. \A j \in 1 .. Len(kills) : kills[j].place \in Place
  <2>1. \A j \in 1 .. Len(kills) : kills[j] \in Frames
    BY <1>1
  <2> QED BY <2>1 DEF Frames
<1>4. /\ Top.place \in Place /\ Dead(Top.place)
      /\ Dying.pid \in Nat /\ Dying.pid # 0
  BY <1>1, <1>2, <1>3 DEF IInv, KillStack, Top, Dying
<1>5. ASSUME NEW j \in 1 .. Len(kills)
      PROVE  plist[kills[j].place].pid <= Dying.pid
  <2>1. CASE j = Len(kills)
    BY <1>4, <2>1 DEF Dying, Top
  <2>2. CASE j # Len(kills)
    <3>1. j < Len(kills)
      BY <1>2, <2>2
    <3>2. plist[kills[j].place].pid < Dying.pid
      BY <1>2, <3>1 DEF IInv, KillStack, Dying, Top
    <3> QED BY <1>1, <1>3, <1>4, <3>2
  <2> QED BY <2>1, <2>2
<1> QED BY <1>1, <1>2, <1>3, <1>4, <1>5

\* A child of the dying process is younger than every process on the stack.
LEMMA ChildOffStack ==
    ASSUME IInv, mode = "kill", NEW i \in Place, IsChild(i, Dying.pid)
    PROVE  /\ i # Kernel /\ Dying.pid < plist[i].pid
           /\ \A j \in 1 .. Len(kills) : kills[j].place # i
<1>1. i # Kernel
  BY ScanFacts DEF IsChild, IInv, Roles
<1>2. Dying.pid < plist[i].pid
  BY <1>1 DEF IsChild, IInv, PidOrder
<1>3. plist[i].pid \in Nat
  BY DEF IInv, TypeOK, Processes
<1> QED BY <1>1, <1>2, <1>3, ScanFacts

\* The stack stands as long as the processes on it stay dead.
LEMMA StackStands ==
    ASSUME IInv, mode = "kill", mode' = "kill",
           kills' \in Seq(Frames), Len(kills') = Len(kills),
           \A j \in 1 .. Len(kills) :
              /\ kills'[j].place = kills[j].place
              /\ plist'[kills[j].place].state = plist[kills[j].place].state
              /\ plist'[kills[j].place].pid = plist[kills[j].place].pid
    PROVE  KillStack'
<1>1. kills' # <<>>
  <2>1. Len(kills') >= 1
    BY ScanFacts
  <2> QED BY <2>1
<1>2. \A j \in 1 .. Len(kills) :
          Dead(kills[j].place) /\ plist[kills[j].place].pid # 0
  BY DEF IInv, KillStack
<1>3. \A j, k \in 1 .. Len(kills) :
          j < k => plist[kills[j].place].pid < plist[kills[k].place].pid
  BY DEF IInv, KillStack
<1>4. \A j \in 1 .. Len(kills') :
          /\ plist'[kills'[j].place].state = "ZMB"
          /\ plist'[kills'[j].place].pid # 0
  BY <1>2 DEF Dead
<1>5. \A j, k \in 1 .. Len(kills') :
          j < k => plist'[kills'[j].place].pid < plist'[kills'[k].place].pid
  BY <1>3
<1> QED BY <1>1, <1>4, <1>5 DEF KillStack, Dead

LEMMA KillNotifyInv ==
    ASSUME IInv, NEW i \in Place, KillNotify(i)
    PROVE  IInv'
<1>1. /\ mode = "kill" /\ kills' = Advanced(i)
      /\ UNCHANGED <<cur, nextpid, qindex, clean, since>>
  BY DEF KillNotify, Scan
<1>2. /\ kills \in Seq(Frames) /\ kills # <<>> /\ Len(kills) \in Nat
      /\ Len(kills) >= 1 /\ Dying.pid \in Nat
      /\ \A j \in 1 .. Len(kills) : /\ kills[j].place \in Place
                                    /\ Dead(kills[j].place)
  BY <1>1, ScanFacts DEF IInv, KillStack
<1>3. /\ kills' \in Seq(Frames) /\ kills' # <<>> /\ Len(kills') = Len(kills)
      /\ \A j \in 1 .. Len(kills) : kills'[j].place = kills[j].place
  <2>1. /\ kills' \in Seq(Frames) /\ Len(kills') = Len(kills)
        /\ \A j \in 1 .. Len(kills) : kills'[j].place = kills[j].place
    BY <1>1, <1>2, ScanMoves
  <2> QED BY <1>2, <2>1
<1>4. plist \in [Place -> Processes] /\ cur \in Place /\ tsleep \subseteq Place
  BY DEF IInv, TypeOK
<1>5. CASE plist[i].state # "SLP"
  <2>1. /\ plist' = [plist EXCEPT ![i].wait_pid = - Dying.pid]
        /\ UNCHANGED <<queue, tsleep, mode>>
    BY <1>5 DEF KillNotify
  <2>2. plist' \in [Place -> Processes]
    <3> DEFINE w == - Dying.pid
    <3>1. w \in Int
      BY <1>2
    <3> HIDE DEF w
    <3>2. [plist EXCEPT ![i].wait_pid = w] \in [Place -> Processes]
      BY <1>4, <3>1 DEF Processes
    <3> QED BY <2>1, <3>2 DEF w
  <2>3. \A q \in Place : Kept(q)
    BY <1>4, <2>1 DEF Kept, Processes
  <2>4. /\ Roles' /\ PidOrder' /\ UniquePids' /\ QueueConsistent'
        /\ TsleepConsistent' /\ MemoryReclaim'
        /\ Used(cur)' /\ Running(cur)' = Running(cur)
    BY <1>1, <2>1, <2>2, <2>3, TableKept
  <2>5. TypeOK'
    BY <1>1, <1>3, <2>1, <2>2 DEF IInv, TypeOK
  <2>6. KillStack'
    BY <1>1, <1>2, <1>3, <2>1, <2>3, StackStands DEF Kept
  <2>7. CurrentRuns'
    BY <1>1, <1>2, <1>3, <2>1, <2>4 DEF IInv, CurrentRuns, Resumes
  <2>8. NoSchedulerFatal'
    BY <2>1 DEF IInv, NoSchedulerFatal
  <2> QED BY <2>4, <2>5, <2>6, <2>7, <2>8 DEF IInv
<1>6. CASE plist[i].state = "SLP"
  <2>1. CanEnqueue(i)
    BY <1>6, SleeperFits
  <2>2. /\ plist' = [plist EXCEPT ![i] = Woken(@)] /\ tsleep' = StillAsleep(i)
        /\ queue' = Append(queue, i) /\ mode' = "kill"
    BY <1>6, <2>1 DEF KillNotify
  <2>3. /\ plist' \in [Place -> Processes] /\ plist'[i] = Woken(plist[i])
        /\ \A q \in Place \ {i} : plist'[q] = plist[q]
    BY <1>4, <2>2, WokenProcess
  <2>4. /\ plist'[i].state = "INQ" /\ plist'[i].val = 0
        /\ plist'[i].pid = plist[i].pid /\ plist'[i].ppid = plist[i].ppid
        /\ plist'[i].dir = plist[i].dir
    <3>1. plist[i] \in Processes
      BY <1>4
    <3> QED BY <2>3, <3>1, WokenProcess
  <2>5. \A q \in Place : Stirred(q)
    BY <1>6, <2>3, <2>4 DEF Stirred, Alive
  <2>6. Roles' /\ PidOrder' /\ UniquePids' /\ MemoryReclaim' /\ Used(cur)'
    BY <1>1, <2>3, <2>5, TableStirred
  <2>7. /\ queue' \in Seq(Place) /\ IsInjective(queue')
        /\ Range(queue') = Range(queue) \cup {i}
    BY <2>1, <2>2, AppendAdds DEF CanEnqueue, IInv, TypeOK, QueueConsistent
  <2>8. TypeOK'
    BY <1>1, <1>3, <1>4, <2>2, <2>3, <2>7 DEF IInv, TypeOK, StillAsleep, Modes
  <2>9. QueueConsistent'
    BY <1>1, <1>4, <2>3, <2>4, <2>7, <1>6 DEF IInv, QueueConsistent, Ready
  <2>10. TsleepConsistent'
    BY <1>4, <2>2, <2>3, <2>4 DEF IInv, TsleepConsistent, StillAsleep
  <2>11. KillStack'
    <3>1. \A j \in 1 .. Len(kills) : kills[j].place # i
      BY <1>2, <1>6 DEF Dead
    <3> QED BY <1>1, <1>2, <1>3, <2>2, <2>3, <3>1, StackStands
  <2>12. CurrentRuns'
    <3>1. Running(cur) => Running(cur)'
      BY <1>1, <1>4, <2>3, <2>4 DEF Running, Ready
    <3> QED BY <1>1, <1>2, <1>3, <2>2, <2>6, <3>1 DEF IInv, CurrentRuns, Resumes
  <2>13. NoSchedulerFatal'
    BY <2>2 DEF NoSchedulerFatal
  <2> QED BY <2>6, <2>8, <2>9, <2>10, <2>11, <2>12, <2>13 DEF IInv
<1> QED BY <1>5, <1>6

LEMMA KillReapInv ==
    ASSUME IInv, NEW i \in Place, KillReap(i)
    PROVE  IInv'
<1>1. /\ mode = "kill" /\ mode' = "kill" /\ kills' = Advanced(i)
      /\ IsChild(i, Dying.pid) /\ Dead(i)
      /\ plist' = [plist EXCEPT ![i] = Free]
      /\ UNCHANGED <<cur, nextpid, queue, qindex, tsleep, clean, since>>
  BY DEF KillReap, Scan, Reap
<1>2. /\ kills \in Seq(Frames) /\ kills # <<>> /\ Len(kills) \in Nat
      /\ Len(kills) >= 1
      /\ \A j \in 1 .. Len(kills) : /\ kills[j].place \in Place
                                    /\ kills[j].place # i
  BY <1>1, ScanFacts, ChildOffStack
<1>3. /\ kills' \in Seq(Frames) /\ Len(kills') = Len(kills)
      /\ \A j \in 1 .. Len(kills) : kills'[j].place = kills[j].place
  BY <1>1, <1>2, ScanMoves
<1>4. plist \in [Place -> Processes] /\ cur \in Place
  BY DEF IInv, TypeOK
<1>5. i # cur
  BY <1>1, <1>2 DEF IInv, CurrentRuns, Running, Ready, Dead
<1>6. /\ plist' \in [Place -> Processes]
      /\ \A q \in Place \ {i} : plist'[q] = plist[q]
      /\ plist'[i] = Free
  BY <1>1, <1>4, FreeProcess
<1>7. \A q \in Place : Kept(q) \/ (Dead(q) /\ q # cur /\ plist'[q] = Free)
  BY <1>1, <1>5, <1>6 DEF Kept
<1>8. /\ Roles' /\ PidOrder' /\ UniquePids' /\ QueueConsistent'
      /\ TsleepConsistent' /\ MemoryReclaim'
      /\ Used(cur)' /\ Running(cur)' = Running(cur)
  BY <1>1, <1>6, <1>7, TableKept
<1>9. TypeOK'
  BY <1>1, <1>3, <1>6 DEF IInv, TypeOK
<1>10. KillStack'
  BY <1>1, <1>2, <1>3, <1>6, StackStands
<1>11. CurrentRuns' /\ NoSchedulerFatal'
  BY <1>1, <1>2, <1>3, <1>8 DEF IInv, CurrentRuns, Resumes, NoSchedulerFatal
<1> QED BY <1>8, <1>9, <1>10, <1>11 DEF IInv

LEMMA KillChildInv ==
    ASSUME IInv, NEW i \in Place, KillChild(i)
    PROVE  IInv'
<1> DEFINE n == Len(kills)
<1>1. /\ mode = "kill" /\ kills' = Append(Advanced(i), Frame(i))
      /\ IsChild(i, Dying.pid) /\ Alive(i) /\ KillBegin(i, 0)
      /\ UNCHANGED <<cur, nextpid, qindex, since>>
  BY DEF KillChild, Scan
<1>2. /\ kills \in Seq(Frames) /\ kills # <<>> /\ n \in Nat
      /\ \A j \in 1 .. n : /\ kills[j].place \in Place
                           /\ kills[j].place # i
                           /\ plist[kills[j].place].pid <= Dying.pid
      /\ i # Kernel /\ Dying.pid < plist[i].pid /\ Dying.pid \in Nat
  BY <1>1, ScanFacts, ChildOffStack
<1>3. /\ plist' \in [Place -> Processes]
      /\ plist'[i].state = "ZMB" /\ plist'[i].pid = plist[i].pid
      /\ \A q \in Place \ {i} : plist'[q] = plist[q]
      /\ queue' \in Seq(Place) /\ tsleep' \subseteq Place
      /\ clean' = TRUE /\ mode' = "kill"
      /\ Roles' /\ PidOrder' /\ UniquePids' /\ QueueConsistent'
      /\ TsleepConsistent' /\ MemoryReclaim' /\ Used(cur)'
  BY <1>1, <1>2, KillBeginKeeps
<1>4. /\ kills' \in Seq(Frames) /\ Len(kills') = n + 1
      /\ \A j \in 1 .. n : kills'[j].place = kills[j].place
      /\ kills'[n + 1].place = i
  <2> DEFINE a == Advanced(i)
  <2>1. /\ a \in Seq(Frames) /\ Len(a) = n
        /\ \A j \in 1 .. n : a[j].place = kills[j].place
    BY <1>2, ScanMoves
  <2> HIDE DEF a
  <2>2. Append(a, Frame(i)) \in Seq(Frames)
    BY <2>1, FirstFrame
  <2>3. /\ Len(Append(a, Frame(i))) = n + 1
        /\ \A j \in 1 .. n : Append(a, Frame(i))[j] = a[j]
        /\ Append(a, Frame(i))[n + 1] = Frame(i)
    BY <1>2, <2>1
  <2> QED BY <1>1, <2>1, <2>2, <2>3, FirstFrame DEF a
<1> HIDE DEF n
<1>5. TypeOK'
  BY <1>1, <1>3, <1>4 DEF IInv, TypeOK, Modes
<1>6. KillStack'
  <2>1. kills' # <<>>
    BY <1>2, <1>4
  <2>2. \A j \in 1 .. n + 1 : j \in 1 .. n \/ j = n + 1
    BY <1>2
  <2>3. plist[i].pid \in Nat /\ \A q \in Place : plist[q].pid \in Nat
    BY DEF IInv, TypeOK, Processes
  <2>4. \A j \in 1 .. n :
            /\ plist'[kills'[j].place] = plist[kills[j].place]
            /\ plist[kills[j].place].state = "ZMB"
            /\ plist[kills[j].place].pid # 0
            /\ plist[kills[j].place].pid < plist[i].pid
    BY <1>2, <1>3, <1>4, <2>3 DEF IInv, KillStack, Dead, n
  <2>5. /\ plist'[kills'[n + 1].place].state = "ZMB"
        /\ plist'[kills'[n + 1].place].pid = plist[i].pid
        /\ plist[i].pid # 0
    BY <1>2, <1>3, <1>4, <2>3
  <2>6. \A j \in 1 .. n + 1 : /\ plist'[kills'[j].place].state = "ZMB"
                              /\ plist'[kills'[j].place].pid # 0
    BY <2>2, <2>4, <2>5
  <2>7. \A j, k \in 1 .. n : j < k =>
            plist[kills[j].place].pid < plist[kills[k].place].pid
    BY DEF IInv, KillStack, n
  <2>8. ASSUME NEW j \in 1 .. n + 1, NEW k \in 1 .. n + 1, j < k
        PROVE  plist'[kills'[j].place].pid < plist'[kills'[k].place].pid
    <3>1. j \in 1 .. n
      BY <1>2, <2>8
    <3>2. CASE k \in 1 .. n
      BY <2>4, <2>7, <2>8, <3>1, <3>2
    <3>3. CASE k = n + 1
      BY <2>4, <2>5, <3>1, <3>3
    <3> QED BY <2>2, <3>2, <3>3
  <2> QED BY <1>3, <1>4, <2>1, <2>6, <2>8 DEF KillStack, Dead
<1>7. CurrentRuns'
  <2>1. cur \in Place
    BY DEF IInv, TypeOK
  <2>2. CASE Running(cur)
    <3>1. cur # i => Running(cur)'
      BY <1>1, <1>3, <2>1, <2>2 DEF Running, Ready
    <3>2. n + 1 \in 1 .. Len(kills')
      BY <1>2, <1>4
    <3> QED BY <1>1, <1>3, <1>4, <3>1, <3>2 DEF CurrentRuns, Resumes
  <2>3. CASE \E j \in 1 .. n : kills[j].place = cur
    <3>1. PICK j \in 1 .. n : kills[j].place = cur
      BY <2>3
    <3>2. j \in 1 .. Len(kills') /\ kills'[j].place = cur'
      BY <1>1, <1>2, <1>4, <3>1
    <3> QED BY <1>3, <3>2 DEF CurrentRuns, Resumes
  <2> QED BY <1>1, <2>2, <2>3 DEF IInv, CurrentRuns, n
<1> QED BY <1>3, <1>5, <1>6, <1>7 DEF IInv, NoSchedulerFatal

LEMMA KillDoneInv == ASSUME IInv, KillDone PROVE IInv'
<1> DEFINE n == Len(kills)
<1>1. /\ mode = "kill" /\ plist' = [plist EXCEPT ![Top.place].closed = TRUE]
      /\ UNCHANGED <<cur, nextpid, queue, qindex, tsleep, clean, since>>
  BY DEF KillDone
<1>2. /\ kills \in Seq(Frames) /\ kills # <<>> /\ n \in Nat /\ n >= 1
      /\ \A j \in 1 .. n : kills[j].place \in Place
      /\ Top.place \in Place
  BY <1>1, ScanFacts
<1>3. plist \in [Place -> Processes]
  BY DEF IInv, TypeOK
<1>4. plist' \in [Place -> Processes]
  <2> DEFINE t == TRUE
  <2>1. t \in BOOLEAN
    OBVIOUS
  <2> HIDE DEF t
  <2>2. [plist EXCEPT ![Top.place].closed = t] \in [Place -> Processes]
    BY <1>2, <1>3, <2>1 DEF Processes
  <2> QED BY <1>1, <2>2 DEF t
<1>5. \A q \in Place : Kept(q)
  BY <1>1, <1>2, <1>3 DEF Kept, Processes
<1>6. /\ Roles' /\ PidOrder' /\ UniquePids' /\ QueueConsistent'
      /\ TsleepConsistent' /\ MemoryReclaim'
      /\ Used(cur)' /\ Running(cur)' = Running(cur)
  BY <1>1, <1>4, <1>5, TableKept
<1>7. CASE Top.place = cur
  <2>1. kills' = <<>> /\ mode' = "sched"
    BY <1>7 DEF KillDone
  <2>2. TypeOK'
    BY <1>1, <1>4, <2>1 DEF IInv, TypeOK, Modes
  <2>3. KillStack'
    BY <2>1, NoKillStack
  <2>4. CurrentRuns' /\ NoSchedulerFatal'
    BY <1>6, <2>1 DEF CurrentRuns, Resumes, NoSchedulerFatal
  <2> QED BY <1>6, <2>2, <2>3, <2>4 DEF IInv
<1>8. CASE Top.place # cur /\ n = 1
  <2>1. kills' = <<>> /\ mode' = "exit"
    BY <1>2, <1>8 DEF KillDone
  <2>2. TypeOK'
    BY <1>1, <1>4, <2>1 DEF IInv, TypeOK, Modes, Resumes
  <2>3. KillStack'
    BY <2>1, NoKillStack
  <2>4. Running(cur)
    BY <1>1, <1>8 DEF IInv, CurrentRuns, Top
  <2>5. CurrentRuns' /\ NoSchedulerFatal'
    BY <1>6, <2>1, <2>4 DEF CurrentRuns, NoSchedulerFatal
  <2> QED BY <1>6, <2>2, <2>3, <2>5 DEF IInv
<1>9. CASE Top.place # cur /\ n > 1
  <2>1. /\ kills' = SubSeq(kills, 1, n - 1) /\ mode' = "kill"
    BY <1>2, <1>9 DEF KillDone
  <2>2. /\ kills' \in Seq(Frames) /\ Len(kills') = n - 1
        /\ \A j \in 1 .. n - 1 : kills'[j] = kills[j]
    BY <1>2, <1>9, <2>1
  <2>3. TypeOK'
    BY <1>1, <1>4, <2>1, <2>2 DEF IInv, TypeOK, Modes
  <2>4. 1 .. n - 1 \subseteq 1 .. n
    BY <1>2
  <2>5. KillStack'
    <3>1. kills' # <<>>
      BY <1>2, <1>9, <2>2
    <3>2. \A j \in 1 .. n - 1 : Dead(kills[j].place) /\ plist[kills[j].place].pid # 0
      BY <2>4 DEF IInv, KillStack
    <3>3. \A j, k \in 1 .. n - 1 :
              j < k => plist[kills[j].place].pid < plist[kills[k].place].pid
      BY <2>4 DEF IInv, KillStack
    <3>4. \A j \in 1 .. n - 1 :
              /\ plist'[kills[j].place].state = plist[kills[j].place].state
              /\ plist'[kills[j].place].pid = plist[kills[j].place].pid
      BY <1>2, <1>5, <2>4 DEF Kept
    <3> HIDE DEF n
    <3> QED BY <2>1, <2>2, <3>1, <3>2, <3>3, <3>4 DEF KillStack, Dead
  <2>6. CurrentRuns'
    <3>1. CASE Running(cur)
      BY <1>6, <2>1, <3>1 DEF CurrentRuns, Resumes
    <3>2. CASE \E j \in 1 .. n : kills[j].place = cur
      <4>1. PICK j \in 1 .. n : kills[j].place = cur
        BY <3>2
      <4>2. j # n
        BY <1>9, <4>1 DEF Top
      <4>3. j \in 1 .. Len(kills')
        BY <1>2, <2>2, <4>2
      <4>4. kills'[j].place = cur'
        BY <1>1, <2>2, <4>1, <4>3
      <4> QED BY <1>6, <2>1, <4>3, <4>4 DEF CurrentRuns, Resumes
    <3> QED BY <1>1, <3>1, <3>2 DEF IInv, CurrentRuns
  <2>7. NoSchedulerFatal'
    BY <2>1 DEF NoSchedulerFatal
  <2> QED BY <1>6, <2>3, <2>5, <2>6, <2>7 DEF IInv
<1> HIDE DEF n
<1>10. n = 1 \/ n > 1
  BY <1>2
<1> QED BY <1>7, <1>8, <1>9, <1>10

LEMMA SchedWakeInv == ASSUME IInv, SchedWake PROVE IInv'
<1>1. /\ plist \in [Place -> Processes] /\ cur \in Place /\ tsleep \subseteq Place
      /\ queue \in Seq(Place) /\ IsInjective(queue)
  BY DEF IInv, TypeOK, QueueConsistent
<1>2. \A p \in Due : /\ p \in Place /\ p \in tsleep
                     /\ plist[p].state = "SLP" /\ p \notin Range(queue)
  BY DEF Due, IInv, TsleepConsistent, QueueConsistent, Ready
<1>3. PICK order \in Bijection(1 .. Cardinality(Due), Due) : queue' = queue \o order
  BY DEF SchedWake
<1>4. /\ Due \in SUBSET Place /\ Cardinality(Due) \in Nat
      /\ order \in Seq(Place) /\ Len(order) = Cardinality(Due)
  BY DueOrders DEF IInv
<1>5. /\ queue' \in Seq(Place) /\ IsInjective(queue')
      /\ Range(queue') = Range(queue) \cup Due
  <2> DEFINE D == Due
             m == Cardinality(Due)
  <2>1. D \cap Range(queue) = {}
    BY <1>2
  <2>2. D \in SUBSET Place /\ m \in Nat /\ order \in Bijection(1 .. m, D)
    BY <1>3, <1>4
  <2> HIDE DEF D, m
  <2>3. /\ queue \o order \in Seq(Place) /\ IsInjective(queue \o order)
        /\ Range(queue \o order) = Range(queue) \cup D
    BY <1>1, <2>1, <2>2, ConcatAdds
  <2> QED BY <1>3, <2>3 DEF D
<1>6. Len(queue) + Cardinality(Due) <= PROCESS_MAX
  <2>1. Idle \notin Range(queue')
    BY <1>2, <1>5 DEF IInv, QueueConsistent, Roles, Ready
  <2>2. Len(queue') <= PROCESS_MAX - 1
    BY <1>5, <2>1, QueueBound
  <2>3. Len(queue') = Len(queue) + Cardinality(Due)
    <3>1. queue' = queue \o order
      BY <1>3
    <3>2. Len(queue \o order) = Len(queue) + Len(order)
      BY <1>1, <1>4
    <3> QED BY <1>4, <3>1, <3>2
  <2>4. Len(queue) \in Nat
    BY <1>1
  <2> QED BY <1>4, <2>2, <2>3, <2>4
<1>7. /\ mode = "sched" /\ mode' = "pick" /\ since' = 0
      /\ tsleep' = tsleep \ Due
      /\ clean' = (clean /\ Dead(cur) /\ plist[cur].dir)
      /\ UNCHANGED <<cur, nextpid, qindex, kills>>
  <2>1. ~ \E p \in Due : plist[p].state # "SLP"
    BY <1>2
  <2>2. Due \cap Range(queue) = {}
    BY <1>2
  <2>3. ~ (Len(queue) + Cardinality(Due) > PROCESS_MAX)
    <3>1. Len(queue) \in Nat
      BY <1>1
    <3> QED BY <1>4, <1>6, <3>1
  <2> QED BY <2>1, <2>2, <2>3 DEF SchedWake
<1> DEFINE awake(p)   == [plist[p] EXCEPT !.state = "INQ"]
           stripped(p) == [plist[p] EXCEPT !.dir = FALSE]
<1>8. \A p \in Place :
         /\ p \in Due => plist'[p] = awake(p)
         /\ p \notin Due => \/ plist'[p] = plist[p] /\ ~ (clean /\ Reclaimable(p))
                            \/ /\ clean /\ Reclaimable(p)
                               /\ plist'[p] = Free \/ plist'[p] = stripped(p)
  <2>1. plist' = [p \in Place |-> CASE p \in Due -> awake(p)
                                    [] clean /\ Reclaimable(p) -> Cleaned(p)
                                    [] OTHER -> plist[p]]
    BY DEF SchedWake
  <2>2. \A p \in Due : ~ Reclaimable(p)
    BY <1>2 DEF Reclaimable, Dead
  <2> HIDE DEF awake, stripped
  <2>3. \A p \in Place :
           /\ p \in Due => plist'[p] = awake(p)
           /\ p \notin Due /\ clean /\ Reclaimable(p) => plist'[p] = Cleaned(p)
           /\ p \notin Due /\ ~ (clean /\ Reclaimable(p)) => plist'[p] = plist[p]
    BY <2>1, <2>2
  <2>4. \A p \in Place : Cleaned(p) = Free \/ Cleaned(p) = stripped(p)
    BY DEF Cleaned, stripped
  <2> QED BY <2>3, <2>4
<1>9. \A p \in Place : /\ awake(p) \in Processes /\ awake(p).state = "INQ"
                       /\ awake(p).pid = plist[p].pid
                       /\ awake(p).ppid = plist[p].ppid
                       /\ awake(p).dir = plist[p].dir
  <2> DEFINE s == "INQ"
  <2>1. s \in States
    BY Names
  <2> HIDE DEF s
  <2>2. \A p \in Place : [plist[p] EXCEPT !.state = s] \in Processes
    BY <1>1, <2>1 DEF Processes
  <2>3. \A p \in Place : /\ awake(p).state = "INQ"
                         /\ awake(p).pid = plist[p].pid
                         /\ awake(p).ppid = plist[p].ppid
    BY <1>1 DEF Processes
  <2>4. \A p \in Place : awake(p).dir = plist[p].dir
    BY <1>1 DEF Processes
  <2> QED BY <2>2, <2>3, <2>4 DEF s
<1>10. \A p \in Place : /\ stripped(p) \in Processes /\ ~ stripped(p).dir
                        /\ stripped(p).state = plist[p].state
                        /\ stripped(p).pid = plist[p].pid
                        /\ stripped(p).ppid = plist[p].ppid
  <2> DEFINE f == FALSE
  <2>1. f \in BOOLEAN
    OBVIOUS
  <2> HIDE DEF f
  <2>2. \A p \in Place : [plist[p] EXCEPT !.dir = f] \in Processes
    BY <1>1, <2>1 DEF Processes
  <2>3. \A p \in Place : /\ stripped(p).state = plist[p].state
                         /\ stripped(p).pid = plist[p].pid
                         /\ stripped(p).ppid = plist[p].ppid
    BY <1>1 DEF Processes
  <2>4. \A p \in Place : ~ stripped(p).dir
    BY <1>1 DEF Processes
  <2> QED BY <2>2, <2>3, <2>4 DEF f
<1> HIDE DEF awake, stripped
<1>11. plist' \in [Place -> Processes]
  <2>1. \A p \in Place : plist'[p] \in Processes
    BY <1>1, <1>8, <1>9, <1>10, FreeProcess
  <2>2. plist' = [p \in Place |-> plist'[p]]
    BY DEF SchedWake
  <2> QED BY <2>1, <2>2
\* The three things that can become of an entry.
<1>12. \A p \in Place :
         \/ /\ p \in Due /\ plist[p].state = "SLP" /\ plist'[p].state = "INQ"
            /\ plist'[p].pid = plist[p].pid /\ plist'[p].ppid = plist[p].ppid
            /\ plist'[p].dir = plist[p].dir
         \/ /\ p \notin Due /\ ~ (clean /\ Reclaimable(p)) /\ plist'[p] = plist[p]
         \/ /\ p \notin Due /\ clean /\ Dead(p) /\ p # cur
            /\ \/ plist'[p] = Free
               \/ /\ plist'[p].state = "ZMB" /\ ~ plist'[p].dir
                  /\ plist'[p].pid = plist[p].pid /\ plist'[p].ppid = plist[p].ppid
  BY <1>2, <1>8, <1>9, <1>10 DEF Reclaimable, Dead
<1>13. \A p \in Place : plist[p].pid \in Nat
  BY <1>1 DEF Processes
<1>14. Kernel \in Place /\ Idle \in Place
  BY DEF Place
<1>15. TypeOK'
  BY <1>1, <1>5, <1>7, <1>11 DEF IInv, TypeOK, Modes
<1>16. Roles'
  BY <1>12, <1>14, FreeProcess DEF IInv, Roles, Alive, Dead
<1>17. PidOrder'
  BY <1>7, <1>12, <1>13, FreeProcess DEF IInv, TypeOK, PidOrder, Used, Dead
<1>18. UniquePids'
  BY <1>12, FreeProcess DEF IInv, UniquePids, Used, Dead
<1>19. KillStack'
  BY <1>7, NoKillStack DEF IInv, KillStack
<1>20. CurrentRuns'
  BY <1>1, <1>7, <1>12 DEF IInv, CurrentRuns, Used, Resumes
<1>21. QueueConsistent'
  <2>1. \A p \in Place : Ready(p)' <=> Ready(p) \/ p \in Due
    BY <1>12, FreeProcess DEF Ready, Dead
  <2>2. Range(queue) = {p \in Place : Ready(p)}
    BY DEF IInv, QueueConsistent
  <2>3. Range(queue') = {p \in Place : Ready(p)'}
    BY <1>4, <1>5, <2>1, <2>2
  <2>4. \A p \in Place : plist'[p].state = "RUN" => plist[p].state = "RUN"
    BY <1>12, FreeProcess
  <2> QED BY <1>5, <1>7, <2>3, <2>4 DEF IInv, QueueConsistent
<1>22. TsleepConsistent'
  BY <1>1, <1>7, <1>12, FreeProcess DEF IInv, TsleepConsistent, Dead
<1>23. MemoryReclaim'
  <2>1. plist'[cur'].dir
    BY <1>1, <1>7, <1>12 DEF IInv, MemoryReclaim
  <2>2. \A p \in Place : Used(p)' /\ ~ Dead(p)' => plist'[p].dir
    BY <1>12, FreeProcess DEF IInv, MemoryReclaim, Used, Dead
  <2>3. ASSUME NEW p \in Place, Dead(p)', plist'[p].dir
        PROVE  clean'
    <3>1. plist'[p] = plist[p] /\ ~ (clean /\ Reclaimable(p))
      BY <1>12, <2>3, FreeProcess DEF Dead
    <3>2. Dead(p) /\ plist[p].dir
      BY <2>3, <3>1 DEF Dead
    <3>3. clean
      BY <3>2 DEF IInv, MemoryReclaim
    <3> QED BY <1>7, <3>1, <3>2, <3>3 DEF Reclaimable
  <2> QED BY <2>1, <2>2, <2>3 DEF MemoryReclaim
<1> QED BY <1>7, <1>15, <1>16, <1>17, <1>18, <1>19, <1>20, <1>21, <1>22, <1>23
        DEF IInv, NoSchedulerFatal

LEMMA SchedPickInv == ASSUME IInv, SchedPick PROVE IInv'
<1> DEFINE i == NextIndex
           p == IF queue = <<>> THEN Idle ELSE queue[i + 1]
           switched == [plist EXCEPT ![cur].state = IF @ = "RUN" THEN "INQ" ELSE @,
                                     ![p].state = IF @ = "IDL" THEN @ ELSE "RUN"]
           g == IF p = cur THEN plist ELSE switched
<1>1. /\ plist \in [Place -> Processes] /\ cur \in Place /\ queue \in Seq(Place)
      /\ qindex \in Nat /\ Idle \in Place
  BY DEF IInv, TypeOK, Place
<1>2. /\ mode = "pick" /\ qindex' = i /\ cur' = p
      /\ plist' = [g EXCEPT ![p].resume = "user"]
      /\ mode' = plist[p].resume
      /\ UNCHANGED <<nextpid, queue, tsleep, clean, since, kills>>
  BY DEF SchedPick
<1>3. i \in Nat /\ (queue # <<>> => i + 1 \in 1 .. Len(queue))
  <2>1. Len(queue) \in Nat /\ (queue # <<>> => Len(queue) >= 1)
    BY <1>1
  <2> QED BY <1>1, <2>1 DEF NextIndex
<1>4. p \in Place /\ Running(p)
  <2>1. CASE queue = <<>>
    BY <1>1, <2>1 DEF IInv, Roles, Running
  <2>2. CASE queue # <<>>
    <3>1. p \in Range(queue)
      BY <1>1, <1>3, <2>2 DEF Range
    <3> QED BY <3>1 DEF IInv, QueueConsistent, Running
  <2> QED BY <2>1, <2>2
<1> HIDE DEF i, p
\* What the entries look like once the CPU has changed hands.
<1>5. /\ g \in [Place -> Processes]
      /\ \A q \in Place : /\ g[q].pid = plist[q].pid /\ g[q].ppid = plist[q].ppid
                          /\ g[q].dir = plist[q].dir /\ g[q].val = plist[q].val
      /\ \A q \in Place : g[q].state =
            IF p = cur THEN plist[q].state
            ELSE IF q = p THEN IF plist[q].state = "IDL" THEN "IDL" ELSE "RUN"
            ELSE IF q = cur /\ plist[q].state = "RUN" THEN "INQ"
            ELSE plist[q].state
  <2>1. CASE p = cur
    BY <1>1, <2>1
  <2>2. CASE p # cur
    <3> DEFINE a == IF plist[cur].state = "RUN" THEN "INQ" ELSE plist[cur].state
               b == IF plist[p].state = "IDL" THEN "IDL" ELSE "RUN"
               h == [plist EXCEPT ![cur].state = a]
    <3>1. a \in States /\ b \in States
      BY <1>1, Names DEF Processes
    <3>2. g = [h EXCEPT ![p].state = b]
      BY <1>1, <1>4, <2>2
    <3>3. a = IF plist[cur].state = "RUN" THEN "INQ" ELSE plist[cur].state
      OBVIOUS
    <3>4. b = IF plist[p].state = "IDL" THEN "IDL" ELSE "RUN"
      OBVIOUS
    <3> HIDE DEF a, b, g
    <3>5. h \in [Place -> Processes] /\ h[cur].state = a
      BY <1>1, <3>1, ZenonT(40) DEF Processes
    <3>6. \A q \in Place : /\ h[q].pid = plist[q].pid /\ h[q].ppid = plist[q].ppid
                           /\ h[q].val = plist[q].val
      BY <1>1 DEF Processes
    <3>7. \A q \in Place : h[q].dir = plist[q].dir
      BY <1>1 DEF Processes
    <3>8. \A q \in Place \ {cur} : h[q] = plist[q]
      BY <1>1
    <3> HIDE DEF h
    <3>9. g \in [Place -> Processes] /\ g[p].state = b
      BY <1>4, <3>1, <3>2, <3>5 DEF Processes
    <3>10. \A q \in Place : /\ g[q].pid = h[q].pid /\ g[q].ppid = h[q].ppid
                            /\ g[q].val = h[q].val
      BY <1>4, <3>2, <3>5 DEF Processes
    <3>11. \A q \in Place : g[q].dir = h[q].dir
      BY <1>4, <3>2, <3>5 DEF Processes
    <3>12. \A q \in Place \ {p} : g[q] = h[q]
      BY <3>2, <3>5
    <3>13. \A q \in Place : /\ g[q].pid = plist[q].pid /\ g[q].ppid = plist[q].ppid
                            /\ g[q].val = plist[q].val /\ g[q].dir = plist[q].dir
      BY <3>6, <3>7, <3>10, <3>11
    <3>14. \A q \in Place : g[q].state =
              IF q = p THEN IF plist[q].state = "IDL" THEN "IDL" ELSE "RUN"
              ELSE IF q = cur /\ plist[q].state = "RUN" THEN "INQ"
              ELSE plist[q].state
      BY <2>2, <3>3, <3>4, <3>5, <3>8, <3>9, <3>12
    <3> QED BY <2>2, <3>9, <3>13, <3>14
  <2> QED BY <2>1, <2>2
<1> HIDE DEF g
<1>6. /\ plist' \in [Place -> Processes]
      /\ \A q \in Place : /\ plist'[q].state = g[q].state
                          /\ plist'[q].pid = g[q].pid /\ plist'[q].ppid = g[q].ppid
                          /\ plist'[q].dir = g[q].dir /\ plist'[q].val = g[q].val
  <2> DEFINE u == "user"
  <2>1. u \in Resumes
    BY Names
  <2>2. plist' = [g EXCEPT ![p].resume = u]
    BY <1>2
  <2> HIDE DEF u
  <2>3. plist' \in [Place -> Processes]
    BY <1>4, <1>5, <2>1, <2>2 DEF Processes
  <2>4. \A q \in Place : /\ plist'[q].state = g[q].state
                         /\ plist'[q].pid = g[q].pid /\ plist'[q].ppid = g[q].ppid
                         /\ plist'[q].val = g[q].val
    BY <1>4, <1>5, <2>2 DEF Processes
  <2>5. \A q \in Place : plist'[q].dir = g[q].dir
    BY <1>4, <1>5, <2>2 DEF Processes
  <2> QED BY <2>3, <2>4, <2>5
<1>7. \A q \in Place :
         /\ plist'[q].pid = plist[q].pid /\ plist'[q].ppid = plist[q].ppid
         /\ plist'[q].dir = plist[q].dir /\ plist'[q].val = plist[q].val
         /\ plist'[q].state =
              IF p = cur THEN plist[q].state
              ELSE IF q = p THEN IF plist[q].state = "IDL" THEN "IDL" ELSE "RUN"
              ELSE IF q = cur /\ plist[q].state = "RUN" THEN "INQ"
              ELSE plist[q].state
  BY <1>5, <1>6
<1>8. \A q \in Place :
         /\ plist'[q].state = plist[q].state \/ (Ready(q) /\ Ready(q)')
         /\ plist'[q].state = "RUN" => q = p
  <2>1. \A q \in Place : plist[q].state = "RUN" => q = cur
    BY DEF IInv, QueueConsistent
  <2> QED BY <1>4, <1>7, <2>1 DEF Running, Ready
<1>9. \A q \in Place : Stirred(q)
  BY <1>7, <1>8 DEF Stirred, Alive, Ready
<1>10. Roles' /\ PidOrder' /\ UniquePids' /\ MemoryReclaim' /\ Used(cur)'
  BY <1>2, <1>4, <1>6, <1>9, TableStirred
<1>11. mode' \in Resumes
  BY <1>1, <1>2, <1>4 DEF Processes
<1>12. TypeOK'
  BY <1>2, <1>3, <1>4, <1>6, <1>11 DEF IInv, TypeOK, Modes
<1>13. KillStack'
  BY <1>2, <1>11, NoKillStack DEF IInv, KillStack, Resumes
<1>14. Running(cur)'
  BY <1>2, <1>4, <1>7, <1>8 DEF Running, Ready
<1>15. CurrentRuns' /\ NoSchedulerFatal'
  BY <1>10, <1>11, <1>14 DEF CurrentRuns, Resumes, NoSchedulerFatal
<1>16. QueueConsistent'
  <2>1. \A q \in Place : Ready(q)' <=> Ready(q)
    BY <1>8 DEF Ready
  <2> QED BY <1>2, <1>8, <2>1 DEF IInv, QueueConsistent
<1>17. TsleepConsistent'
  BY <1>2, <1>7, <1>8 DEF IInv, TsleepConsistent, Ready
<1> QED BY <1>10, <1>12, <1>13, <1>15, <1>16, <1>17 DEF IInv

\* A tick only brings deadlines closer, never past the next schedule().
LEMMA TickedTable ==
    ASSUME TypeOK
    PROVE  /\ Ticked \in [Place -> Processes]
           /\ \A q \in Place :
                 /\ Ticked[q].state = plist[q].state
                 /\ Ticked[q].pid = plist[q].pid /\ Ticked[q].ppid = plist[q].ppid
                 /\ Ticked[q].dir = plist[q].dir
                 /\ Ticked[q].val = 0 <=> plist[q].val = 0
                 /\ q \notin tsleep => Ticked[q] = plist[q]
<1>1. plist \in [Place -> Processes]
  BY DEF TypeOK
<1>2. ASSUME NEW q \in Place
      PROVE  /\ Ticked[q] \in Processes
             /\ Ticked[q].state = plist[q].state
             /\ Ticked[q].pid = plist[q].pid /\ Ticked[q].ppid = plist[q].ppid
             /\ Ticked[q].dir = plist[q].dir
             /\ Ticked[q].val = 0 <=> plist[q].val = 0
             /\ q \notin tsleep => Ticked[q] = plist[q]
  <2>1. plist[q] \in Processes /\ plist[q].val \in Nat
    BY <1>1 DEF Processes
  <2>2. CASE q \in tsleep /\ plist[q].val > 1
    <3> DEFINE n == plist[q].val - 1
    <3>1. n \in Nat /\ n # 0 /\ plist[q].val # 0
      BY <2>1, <2>2
    <3>2. Ticked[q] = [plist[q] EXCEPT !.val = n]
      BY <2>2 DEF Ticked
    <3> HIDE DEF n
    <3>3. Ticked[q] \in Processes
      BY <2>1, <3>1, <3>2 DEF Processes
    <3>4. /\ Ticked[q].state = plist[q].state /\ Ticked[q].val = n
          /\ Ticked[q].pid = plist[q].pid /\ Ticked[q].ppid = plist[q].ppid
      BY <2>1, <3>2 DEF Processes
    <3>5. Ticked[q].dir = plist[q].dir
      BY <2>1, <3>2 DEF Processes
    <3> QED BY <2>2, <3>1, <3>3, <3>4, <3>5
  <2>3. CASE ~ (q \in tsleep /\ plist[q].val > 1)
    <3>1. Ticked[q] = plist[q]
      BY <2>3 DEF Ticked
    <3> QED BY <2>1, <3>1
  <2> QED BY <2>2, <2>3
<1>3. Ticked = [q \in Place |-> Ticked[q]]
  BY DEF Ticked
<1> QED BY <1>2, <1>3

LEMMA TickKeeps ==
    ASSUME IInv, TickInKernel \/ TickInUser
    PROVE  plist' \in [Place -> Processes] /\ \A p \in Place : Kept(p)
<1> DEFINE g == Ticked
<1>1. /\ g \in [Place -> Processes] /\ cur \in Place
      /\ \A q \in Place : /\ g[q].state = plist[q].state
                          /\ g[q].pid = plist[q].pid /\ g[q].ppid = plist[q].ppid
                          /\ g[q].dir = plist[q].dir
                          /\ g[q].val = 0 <=> plist[q].val = 0
  BY TickedTable DEF IInv, TypeOK
<1>2. plist' = g \/ plist' = [g EXCEPT ![cur].resume = "exit"]
  BY DEF TickInKernel, TickInUser
<1> HIDE DEF g
<1>3. CASE plist' = g
  BY <1>1, <1>3 DEF Kept
<1>4. CASE plist' = [g EXCEPT ![cur].resume = "exit"]
  <2> DEFINE e == "exit"
  <2>1. e \in Resumes /\ plist' = [g EXCEPT ![cur].resume = e]
    BY <1>4, Names
  <2> HIDE DEF e
  <2>2. plist' \in [Place -> Processes]
    BY <1>1, <2>1 DEF Processes
  <2>3. \A q \in Place : /\ plist'[q].state = g[q].state
                         /\ plist'[q].pid = g[q].pid /\ plist'[q].ppid = g[q].ppid
                         /\ plist'[q].val = g[q].val
    BY <1>1, <2>1 DEF Processes
  <2>4. \A q \in Place : plist'[q].dir = g[q].dir
    BY <1>1, <2>1 DEF Processes
  <2> QED BY <1>1, <2>2, <2>3, <2>4 DEF Kept
<1> QED BY <1>2, <1>3, <1>4

LEMMA TickInv == ASSUME IInv, TickInKernel \/ TickInUser PROVE IInv'
<1>1. plist' \in [Place -> Processes] /\ \A p \in Place : Kept(p)
  BY TickKeeps
<1>2. /\ UNCHANGED <<cur, nextpid, queue, tsleep, clean, qindex, kills>>
      /\ mode \in {"user", "exit", "sched"} /\ mode' \in {"exit", "sched"}
      /\ mode = "sched" => mode' = "sched"
      /\ since' = Later
  BY DEF TickInKernel, TickInUser
<1>3. since' \in 0 .. SCHEDULER_EVRY + 1
  BY <1>2 DEF Later, IInv, TypeOK
<1>4. /\ Roles' /\ PidOrder' /\ UniquePids' /\ QueueConsistent'
      /\ TsleepConsistent' /\ MemoryReclaim'
      /\ Used(cur)' /\ Running(cur)' = Running(cur)
  BY <1>1, <1>2, TableKept
<1>5. TypeOK'
  BY <1>1, <1>2, <1>3 DEF IInv, TypeOK, Modes, Resumes
<1>6. KillStack'
  BY <1>2, NoKillStack DEF IInv, KillStack
<1>7. CurrentRuns' /\ NoSchedulerFatal'
  BY <1>2, <1>4 DEF IInv, CurrentRuns, Resumes, NoSchedulerFatal
<1> QED BY <1>4, <1>5, <1>6, <1>7 DEF IInv

-----------------------------------------------------------------------------
(* The theorems                                                            *)

\* The processes that exist when kernel_main hands over.
LEMMA InitTable ==
    ASSUME Init
    PROVE  /\ plist \in [Place -> Processes]
           /\ Kernel \in Place /\ Idle \in Place /\ 2 \in Place
           /\ plist[Kernel].state = "SLP" /\ plist[Kernel].pid = 0
           /\ plist[Kernel].ppid = 0 /\ plist[Kernel].val = 0 /\ plist[Kernel].dir
           /\ plist[Idle].state = "IDL" /\ plist[Idle].pid = 1
           /\ plist[Idle].ppid = 0 /\ plist[Idle].dir
           /\ plist[2].state = "INQ" /\ plist[2].pid = 2
           /\ plist[2].ppid = 0 /\ plist[2].dir
           /\ \A p \in Place \ {Kernel, Idle, 2} : plist[p] = Free
<1> DEFINE k == [Born(0, 0) EXCEPT !.wait_pid = FirstPid, !.resume = "halt"]
           d == [Born(1, 0) EXCEPT !.state = "IDL"]
           f == [Born(FirstPid, 0) EXCEPT !.state = "INQ"]
<1>1. \A n \in Nat : /\ Born(n, 0) \in Processes /\ Born(n, 0).state = "SLP"
                     /\ Born(n, 0).val = 0 /\ Born(n, 0).pid = n
                     /\ Born(n, 0).ppid = 0 /\ Born(n, 0).dir
  <2> SUFFICES ASSUME NEW n \in Nat
               PROVE  /\ Born(n, 0) \in Processes /\ Born(n, 0).state = "SLP"
                      /\ Born(n, 0).val = 0 /\ Born(n, 0).pid = n
                      /\ Born(n, 0).ppid = 0 /\ Born(n, 0).dir
    OBVIOUS
  <2>1. 0 \in Nat
    OBVIOUS
  <2> QED BY <2>1, BornProcess
<1>2. /\ k \in Processes /\ k.state = "SLP" /\ k.val = 0 /\ k.pid = 0
      /\ k.ppid = 0 /\ k.dir
  <2> DEFINE b == Born(0, 0)
             w == FirstPid
             h == "halt"
  <2>1. /\ b \in Processes /\ b.state = "SLP" /\ b.val = 0 /\ b.pid = 0
        /\ b.ppid = 0 /\ b.dir
    BY <1>1
  <2>2. w \in Int /\ h \in Resumes
    BY Names
  <2>3. k = [b EXCEPT !.wait_pid = w, !.resume = h]
    OBVIOUS
  <2> HIDE DEF k, b, w, h
  <2>4. k \in Processes
    BY <2>1, <2>2, <2>3 DEF Processes
  <2>5. k.state = "SLP" /\ k.val = 0 /\ k.pid = 0 /\ k.ppid = 0
    BY <2>1, <2>3 DEF Processes
  <2>6. k.dir
    BY <2>1, <2>3 DEF Processes
  <2> QED BY <2>4, <2>5, <2>6
<1>3. /\ d \in Processes /\ d.state = "IDL" /\ d.pid = 1 /\ d.ppid = 0 /\ d.dir
  <2> DEFINE b == Born(1, 0)
             s == "IDL"
  <2>1. b \in Processes /\ b.pid = 1 /\ b.ppid = 0 /\ b.dir
    BY <1>1
  <2>2. s \in States /\ d = [b EXCEPT !.state = s]
    BY Names
  <2> HIDE DEF d, b, s
  <2>3. d \in Processes
    BY <2>1, <2>2 DEF Processes
  <2>4. d.state = s /\ d.pid = 1 /\ d.ppid = 0
    BY <2>1, <2>2 DEF Processes
  <2>5. d.dir
    BY <2>1, <2>2 DEF Processes
  <2> QED BY <2>3, <2>4, <2>5 DEF s
<1>4. /\ f \in Processes /\ f.state = "INQ" /\ f.pid = 2 /\ f.ppid = 0 /\ f.dir
  <2> DEFINE b == Born(FirstPid, 0)
             s == "INQ"
  <2>1. b \in Processes /\ b.pid = 2 /\ b.ppid = 0 /\ b.dir
    BY <1>1
  <2>2. s \in States /\ f = [b EXCEPT !.state = s]
    BY Names
  <2> HIDE DEF f, b, s
  <2>3. f \in Processes
    BY <2>1, <2>2 DEF Processes
  <2>4. f.state = s /\ f.pid = 2 /\ f.ppid = 0
    BY <2>1, <2>2 DEF Processes
  <2>5. f.dir
    BY <2>1, <2>2 DEF Processes
  <2> QED BY <2>3, <2>4, <2>5 DEF s
<1>5. plist = [p \in Place |-> CASE p = Kernel -> k [] p = Idle -> d
                                 [] p = 2 -> f [] OTHER -> Free]
  BY DEF Init
<1> HIDE DEF k, d, f
<1>6. Kernel \in Place /\ Idle \in Place /\ 2 \in Place
  BY DEF Place
<1>7. /\ plist[Kernel] = k /\ plist[Idle] = d /\ plist[2] = f
      /\ \A p \in Place \ {Kernel, Idle, 2} : plist[p] = Free
  BY <1>5, <1>6
<1>8. plist \in [Place -> Processes]
  BY <1>2, <1>3, <1>4, <1>5, FreeProcess
<1> QED BY <1>2, <1>3, <1>4, <1>6, <1>7, <1>8

LEMMA InitIInv == Init => IInv
<1> SUFFICES ASSUME Init PROVE IInv
  OBVIOUS
<1>1. /\ plist \in [Place -> Processes]
      /\ Kernel \in Place /\ Idle \in Place /\ 2 \in Place
      /\ plist[Kernel].state = "SLP" /\ plist[Kernel].pid = 0
      /\ plist[Kernel].ppid = 0 /\ plist[Kernel].val = 0 /\ plist[Kernel].dir
      /\ plist[Idle].state = "IDL" /\ plist[Idle].pid = 1
      /\ plist[Idle].ppid = 0 /\ plist[Idle].dir
      /\ plist[2].state = "INQ" /\ plist[2].pid = 2
      /\ plist[2].ppid = 0 /\ plist[2].dir
      /\ \A p \in Place : p \in {Kernel, Idle, 2} \/ plist[p] = Free
  BY InitTable
<1>2. /\ cur = Kernel /\ nextpid = 2 /\ queue = <<2>> /\ qindex = 0 /\ tsleep = {}
      /\ clean = FALSE /\ since = 0 /\ kills = <<>> /\ mode = "sched"
  BY DEF Init
<1>3. /\ queue \in Seq(Place) /\ IsInjective(queue) /\ Range(queue) = {2}
  <2>1. Len(queue) = 1 /\ queue[1] = 2 /\ DOMAIN queue = {1}
    BY <1>2
  <2> QED BY <1>1, <1>2, <2>1 DEF IsInjective, Range
<1>4. TypeOK
  <2>1. kills \in Seq(Frames)
    BY <1>2
  <2>2. nextpid \in FirstPid .. MaxPid /\ since \in 0 .. SCHEDULER_EVRY + 1
    BY <1>2
  <2>3. mode \in Modes /\ qindex \in Nat /\ clean \in BOOLEAN /\ tsleep \subseteq Place
    BY <1>2 DEF Modes
  <2> QED BY <1>1, <1>2, <1>3, <2>1, <2>2, <2>3 DEF TypeOK
<1>5. Roles
  BY <1>1, FreeProcess DEF Roles, Alive
<1>6. PidOrder
  BY <1>1, <1>2, FreeProcess DEF PidOrder, Used
<1>7. UniquePids
  BY <1>1, FreeProcess DEF UniquePids, Used
<1>8. KillStack
  BY <1>2 DEF KillStack
<1>9. CurrentRuns
  BY <1>1, <1>2 DEF CurrentRuns, Used, Resumes
<1>10. QueueConsistent /\ TsleepConsistent
  BY <1>1, <1>2, <1>3, FreeProcess DEF QueueConsistent, TsleepConsistent, Ready
<1>11. MemoryReclaim
  BY <1>1, <1>2, FreeProcess DEF MemoryReclaim, Used, Dead
<1>12. NoSchedulerFatal
  BY <1>2 DEF NoSchedulerFatal
<1> QED BY <1>4, <1>5, <1>6, <1>7, <1>8, <1>9, <1>10, <1>11, <1>12 DEF IInv

\* A step of the system, or one that changes nothing, preserves the invariant.
LEMMA StepIInv == ASSUME IInv, [Next]_vars PROVE IInv'
<1>1. CASE SystemCall
  <2>1. CASE Create
    BY <2>1, CreateInv
  <2>2. CASE Yield
    BY <2>2, YieldInv
  <2>3. CASE \E p \in Place, d \in Delays \cup {Forever} : Sleep(p, d)
    BY <2>3, SleepInv
  <2>4. CASE \E p \in Place : Wakeup(p) \/ Handover(p) \/ Reparent(p)
    BY <2>4, WakeupInv, HandoverInv, ReparentInv
  <2>5. CASE \E p \in Place, ret \in RetCodes : Kill(p, ret)
    BY <2>5, KillInv
  <2>6. CASE \E pid \in WaitArgs : WaitReap(pid) \/ WaitBlock(pid)
    <3>1. \A pid \in WaitArgs : pid \in Int
      BY DEF WaitArgs, AnyChild
    <3> QED BY <2>6, <3>1, WaitReapInv, WaitBlockInv
  <2> QED BY <1>1, <2>1, <2>2, <2>3, <2>4, <2>5, <2>6 DEF SystemCall
<1>2. CASE NoEffect
  BY <1>2, NoEffectInv
<1>3. CASE ExitCurrent
  BY <1>3, ExitCurrentInv
<1>4. CASE KernelStep
  <2>1. CASE WaitReturn
    BY <2>1, WaitReturnInv
  <2>2. CASE KernelReturn
    BY <2>2, KernelReturnInv
  <2>3. CASE ExitKernel
    BY <2>3, NoEffectInv
  <2>4. CASE \E i \in Place : KillNotify(i) \/ KillReap(i) \/ KillChild(i)
    BY <2>4, KillNotifyInv, KillReapInv, KillChildInv
  <2>5. CASE KillDone
    BY <2>5, KillDoneInv
  <2>6. CASE SchedWake
    BY <2>6, SchedWakeInv
  <2>7. CASE SchedPick
    BY <2>7, SchedPickInv
  <2> QED BY <1>4, <2>1, <2>2, <2>3, <2>4, <2>5, <2>6, <2>7 DEF KernelStep
<1>5. CASE Tick
  BY <1>5, TickInv DEF Tick
<1>6. CASE UNCHANGED vars
  BY <1>6 DEF vars, IInv, TypeOK, Roles, PidOrder, UniquePids, KillStack,
     CurrentRuns, QueueConsistent, TsleepConsistent, MemoryReclaim,
     NoSchedulerFatal, Used, Dead, Alive, Ready, Running
<1> QED BY <1>1, <1>2, <1>3, <1>4, <1>5, <1>6 DEF Next

\* The invariant holds in every state the machine can reach.
THEOREM Inductive == Spec => []IInv
<1>1. Init => IInv
  BY InitIInv
<1>2. IInv /\ [Next]_vars => IInv'
  BY StepIInv
<1> QED BY <1>1, <1>2, PTL DEF Spec

\* The tables keep their types: every place is the index of an entry, every
\* list a list of places.
THEOREM TypeCorrect == Spec => []TypeOK
<1>1. IInv => TypeOK
  BY DEF IInv
<1> QED BY <1>1, Inductive, PTL

\* The scheduler's queue is right after every call: no runnable process is
\* lost, none is entered twice, none that cannot run is left in it.
THEOREM QueueCorrect == Spec => []QueueConsistent
<1>1. IInv => QueueConsistent
  BY DEF IInv
<1> QED BY <1>1, Inductive, PTL

\* Every sleeper with a deadline, and nothing else, is in g_tsleep_list.
THEOREM TsleepCorrect == Spec => []TsleepConsistent
<1>1. IInv => TsleepConsistent
  BY DEF IInv
<1> QED BY <1>1, Inductive, PTL

\* The assertions of the scheduler never fail, whatever the callers do.
THEOREM SchedulerNeverFails == Spec => []NoSchedulerFatal
<1>1. IInv => NoSchedulerFatal
  BY DEF IInv
<1> QED BY <1>1, Inductive, PTL

\* No live process, and never the running one, has its memory taken, and the
\* memory of a dead one is always due to be taken.
THEOREM MemoryCorrect == Spec => []MemoryReclaim
<1>1. IInv => MemoryReclaim
  BY DEF IInv
<1> QED BY <1>1, Inductive, PTL

\* No two processes ever have the same pid.
THEOREM PidsUnique == Spec => []UniquePids
<1>1. IInv => UniquePids
  BY DEF IInv
<1> QED BY <1>1, Inductive, PTL

\* A dead process stays dead with its exit code, until its entry is freed.
StaysDead(p) ==
    \/ plist'[p].state = "FRE"
    \/ plist'[p].state = "ZMB" /\ plist'[p].val = plist[p].val

LEMMA DeadKept ==
    ASSUME IInv, Next, NEW p \in Place, Dead(p)
    PROVE  StaysDead(p)
<1>1. /\ plist \in [Place -> Processes] /\ cur \in Place /\ plist[p].state = "ZMB"
      /\ p \notin tsleep /\ p \notin Range(queue)
      /\ plist[p].state \notin {"FRE", "SLP", "INQ", "RUN", "IDL"}
  BY DEF IInv, TypeOK, Dead, TsleepConsistent, QueueConsistent, Ready
<1>2. mode = "user" \/ mode \in Resumes => p # cur
  BY <1>1 DEF IInv, CurrentRuns, Running, Ready, Resumes
<1>3. plist'[p] = plist[p] => StaysDead(p)
  BY <1>1 DEF StaysDead
<1>4. plist'[p] = Free => StaysDead(p)
  BY FreeProcess DEF StaysDead
<1>5. ASSUME NEW q \in Place, NEW ret, KillBegin(q, ret), q # p
      PROVE  plist'[p] = plist[p]
  BY <1>1, <1>5 DEF KillBegin
<1>6. CASE SystemCall
  <2>1. CASE Create
    <3>1. PICK q \in Place : /\ IsFreePlace(q, nextpid + 1)
                             /\ plist' = [plist EXCEPT ![q] = Born(nextpid + 1, plist[cur].pid)]
      BY <2>1 DEF Create
    <3>2. q # p
      BY <1>1, <3>1 DEF IsFreePlace, FreePlaces, Used
    <3> QED BY <1>1, <1>3, <3>1, <3>2
  <2>2. CASE Yield
    BY <1>1, <1>2, <1>3, <2>2 DEF Yield, InUser
  <2>3. CASE \E q \in Place, d \in Delays \cup {Forever} : Sleep(q, d)
    BY <1>1, <1>3, <2>3 DEF Sleep, Alive
  <2>4. CASE \E q \in Place : Wakeup(q)
    BY <1>1, <1>3, <2>4 DEF Wakeup
  <2>5. CASE \E q \in Place : Handover(q)
    <3>1. PICK q \in Place : Handover(q)
      BY <2>5
    <3>2. q # cur /\ q # p /\ p # cur
      BY <1>1, <1>2, <3>1 DEF Handover, InUser, IInv, CurrentRuns, Running, Ready, Resumes
    <3>3. plist'[p] = plist[p]
      BY <3>1, <3>2, HandoverTypes DEF IInv
    <3> QED BY <1>3, <3>3
  <2>6. CASE \E q \in Place : Reparent(q)
    <3>1. PICK q \in Place : plist' = [plist EXCEPT ![q].ppid = 0]
      BY <2>6 DEF Reparent
    <3>2. plist'[p].state = plist[p].state /\ plist'[p].val = plist[p].val
      BY <1>1, <3>1 DEF Processes
    <3> QED BY <1>1, <3>2 DEF StaysDead
  <2>7. CASE \E q \in Place, ret \in RetCodes : Kill(q, ret)
    BY <1>1, <1>3, <1>5, <2>7 DEF Kill, Alive
  <2>8. CASE \E pid \in WaitArgs : WaitReap(pid)
    BY <1>1, <1>3, <1>4, <2>8 DEF WaitReap, Reap
  <2>9. CASE \E pid \in WaitArgs : WaitBlock(pid)
    BY <1>1, <1>2, <1>3, <2>9 DEF WaitBlock, InUser
  <2> QED BY <1>6, <2>1, <2>2, <2>3, <2>4, <2>5, <2>6, <2>7, <2>8, <2>9 DEF SystemCall
<1>7. CASE NoEffect \/ ExitKernel
  BY <1>3, <1>7 DEF NoEffect, ExitKernel
<1>8. CASE ExitCurrent
  BY <1>1, <1>3, <1>5, <1>8 DEF ExitCurrent, F2Victims
<1>9. CASE WaitReturn
  <2>1. p # cur
    BY <1>2, <1>9 DEF WaitReturn, Resumes
  <2> DEFINE returned == [plist EXCEPT ![cur].wait_pid = 0, ![cur].req = 0]
  <2>2. \/ plist' = returned
        \/ \E z \in Place : plist' = [returned EXCEPT ![z] = Free]
    BY <1>9 DEF WaitReturn, Zombies
  <2>3. returned[p] = plist[p] /\ DOMAIN returned = Place
    BY <1>1, <2>1
  <2> HIDE DEF returned
  <2> QED BY <1>3, <1>4, <2>2, <2>3
<1>10. CASE KernelReturn
  BY <1>1, <1>3, <1>4, <1>10 DEF KernelReturn
<1>11. CASE \E i \in Place : KillNotify(i) \/ KillReap(i) \/ KillChild(i)
  <2>1. CASE \E i \in Place : KillNotify(i)
    <3>1. PICK i \in Place : KillNotify(i)
      BY <2>1
    <3>2. CASE i = p
      <4>1. plist' = [plist EXCEPT ![p].wait_pid = - Dying.pid]
        BY <1>1, <3>1, <3>2 DEF KillNotify
      <4>2. plist'[p].state = plist[p].state /\ plist'[p].val = plist[p].val
        BY <1>1, <4>1 DEF Processes
      <4> QED BY <1>1, <4>2 DEF StaysDead
    <3>3. CASE i # p
      BY <1>1, <1>3, <3>1, <3>3 DEF KillNotify
    <3> QED BY <3>2, <3>3
  <2>2. CASE \E i \in Place : KillReap(i)
    BY <1>1, <1>3, <1>4, <2>2 DEF KillReap, Reap
  <2>3. CASE \E i \in Place : KillChild(i)
    BY <1>1, <1>3, <1>5, <2>3 DEF KillChild, Alive
  <2> QED BY <1>11, <2>1, <2>2, <2>3
<1>12. CASE KillDone
  <2>1. plist' = [plist EXCEPT ![Top.place].closed = TRUE]
    BY <1>12 DEF KillDone
  <2>2. plist'[p].state = plist[p].state /\ plist'[p].val = plist[p].val
    BY <1>1, <2>1 DEF Processes
  <2> QED BY <1>1, <2>2 DEF StaysDead
<1>13. CASE SchedWake
  <2>1. p \notin Due
    BY <1>1 DEF Due
  <2>2. plist'[p] \in {Free, [plist[p] EXCEPT !.dir = FALSE], plist[p]}
    BY <1>13, <2>1 DEF SchedWake, Cleaned
  <2>3. CASE plist'[p] = [plist[p] EXCEPT !.dir = FALSE]
    <3>1. plist'[p].state = plist[p].state /\ plist'[p].val = plist[p].val
      BY <1>1, <2>3 DEF Processes
    <3> QED BY <1>1, <3>1 DEF StaysDead
  <2> QED BY <1>3, <1>4, <2>2, <2>3
<1>14. CASE SchedPick
  <2> DEFINE q == IF queue = <<>> THEN Idle ELSE queue[NextIndex + 1]
             switched == [plist EXCEPT ![cur].state = IF @ = "RUN" THEN "INQ" ELSE @,
                                       ![q].state = IF @ = "IDL" THEN @ ELSE "RUN"]
             g == IF q = cur THEN plist ELSE switched
  <2>1. plist' = [g EXCEPT ![q].resume = "user"]
    BY <1>14 DEF SchedPick
  <2>2. q # p
    <3>1. CASE queue = <<>>
      BY <1>1, <3>1 DEF IInv, Roles
    <3>2. CASE queue # <<>>
      <4>1. queue \in Seq(Place) /\ qindex \in Nat
        BY DEF IInv, TypeOK
      <4>2. Len(queue) \in Nat /\ Len(queue) >= 1
        BY <3>2, <4>1
      <4>3. NextIndex + 1 \in 1 .. Len(queue)
        BY <4>1, <4>2 DEF NextIndex
      <4>4. q \in Range(queue)
        BY <3>2, <4>1, <4>3 DEF Range
      <4> QED BY <1>1, <4>4
    <3> QED BY <3>1, <3>2
  <2> HIDE DEF q
  <2>3. DOMAIN g = Place /\ g[p].state = plist[p].state /\ g[p].val = plist[p].val
    <3>1. CASE q = cur
      BY <1>1, <3>1
    <3>2. CASE q # cur /\ p # cur
      BY <1>1, <2>2, <3>2
    <3>3. CASE q # cur /\ p = cur
      <4>1. DOMAIN g = Place /\ g[p] = [plist[p] EXCEPT !.state = plist[p].state]
        BY <1>1, <2>2, <3>3
      <4> QED BY <1>1, <4>1 DEF Processes
    <3> QED BY <3>1, <3>2, <3>3
  <2> HIDE DEF g
  <2>4. plist'[p] = g[p]
    BY <2>1, <2>2, <2>3
  <2> QED BY <1>1, <2>3, <2>4 DEF StaysDead
<1>15. CASE Tick
  <2> DEFINE g == Ticked
  <2>1. DOMAIN g = Place /\ g[p] = plist[p]
    BY <1>1 DEF Ticked
  <2>2. plist' = g \/ plist' = [g EXCEPT ![cur].resume = "exit"]
    BY <1>15 DEF Tick, TickInKernel, TickInUser
  <2> HIDE DEF g
  <2>3. CASE plist' = g
    BY <1>3, <2>1, <2>3
  <2>4. CASE plist' = [g EXCEPT ![cur].resume = "exit"]
    <3>1. plist'[p].state = plist[p].state /\ plist'[p].val = plist[p].val
      BY <1>1, <2>1, <2>4 DEF Processes
    <3> QED BY <1>1, <3>1 DEF StaysDead
  <2> QED BY <2>2, <2>3, <2>4
<1> QED BY <1>6, <1>7, <1>8, <1>9, <1>10, <1>11, <1>12, <1>13, <1>14, <1>15
        DEF Next, KernelStep

\* Death is final: wakeup, expiry, the scheduler and a second kill leave the
\* dead alone, and their exit codes too.
THEOREM DeathIsFinal == Spec => DeadStayDead
<1>1. IInv /\ [Next]_vars =>
        [\A p \in Place : Dead(p) =>
            \/ plist'[p].state = "FRE"
            \/ /\ plist'[p].state = "ZMB"
               /\ plist'[p].val = plist[p].val]_vars
  BY DeadKept DEF StaysDead
<1> QED BY <1>1, Inductive, PTL DEF Spec, DeadStayDead

=============================================================================
