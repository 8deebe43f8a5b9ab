------------------------ MODULE ProcessOrderlyProofs ------------------------
(***************************************************************************)
(* What the process manager promises to callers that do not misuse it      *)
(* (Misuse = {}): process_kill takes the whole subtree and tells everyone  *)
(* who waits, process_wait never stops the machine, and no entry of the    *)
(* table is lost.  For every number of processes, every SCHEDULER_EVRY and *)
(* all delays and exit codes.                                              *)
(*                                                                         *)
(* None of these is inductive.  While process_kill runs they are false,    *)
(* and what is true then is that its recursion still owes something to     *)
(* each exception: a live child of a dead process, or a waiter for one, is *)
(* at a place some activation has not scanned yet (Pending).  That the     *)
(* last activation to end is never left with others below it on a stack    *)
(* that is thrown away (CurrentSpared) is where the callers' promise to    *)
(* kill no ancestor is used; that a process inside process_wait finds a    *)
(* dead child needs to know what it waits for (WaitsForChild).  OInv is    *)
(* all of that; it rests on IInv of ProcessProofs.                         *)
(***************************************************************************)
EXTENDS ProcessProofs

-----------------------------------------------------------------------------
(* The inductive invariant                                                 *)

\* The activation of process_kill for the process at z has not come to w yet.
Pending(z, w) == \E j \in 1 .. Len(kills) : kills[j].place = z /\ w >= kills[j].i

\* process_kill has begun for p and not come to its end.
OnStack(p) == \E j \in 1 .. Len(kills) : kills[j].place = p

\* The idle process has no children, and the kernel sleeps until the default
\* program is dead.
Bystanders ==
    /\ plist[Idle].pid = 1 /\ plist[Idle].ppid = 0
    /\ \A p \in Place : Used(p) => plist[p].ppid # 1
    /\ \/ plist[Kernel].resume = "halt"
       \/ cur = Kernel /\ mode \in {"halt", "halted"}

\* A process that runs has nothing to come back to.
CurrentResumed ==
    mode \in Resumes \cup {"kill"} => plist[cur].resume = "user"

\* A process that lives, or whose entry is kept for its parent, has a parent
\* that lives, or that is about to reach it in process_kill.
Held(p) == Alive(p) \/ (Dead(p) /\ ~ plist[p].dir)

Tree ==
    \A p \in Place : Held(p) =>
        /\ Dead(p) => plist[p].ppid # 0
        /\ \E q \in Place : /\ plist[q].pid = plist[p].ppid
                            /\ Alive(q) \/ (Used(q) /\ Pending(q, p))

\* A dead process was announced to the modules, or will be when its activation
\* of process_kill ends.
Announced == \A p \in Place : Dead(p) => plist[p].closed \/ OnStack(p)

\* w waits for the death of z.
Awaits(w, z) == \/ plist[w].wait_pid = plist[z].pid
                \/ plist[w].wait_pid = -1 /\ plist[w].pid = plist[z].ppid

\* Whoever waits for a dead process is about to be told.
WaitersTold ==
    \A z, w \in Place : Dead(z) /\ Alive(w) /\ Awaits(w, z) => Pending(z, w)

\* p is inside process_wait.
Waiting(p) == plist[p].resume = "wait" \/ (mode = "wait" /\ cur = p)

\* What p waits for is a child of its own.
Child(z, p) == Used(z) /\ plist[z].ppid = plist[p].pid

\* What p waits for: any child, a child that has died, or one that has not and
\* whose death process_kill will report.
WaitSound(p) ==
    /\ plist[p].pid # 0
    /\ \/ plist[p].wait_pid = -1
       \/ \E z \in Place : /\ Child(z, p)
                           /\ \/ plist[z].pid = plist[p].wait_pid
                              \/ plist[p].wait_pid <= 0 /\ Dead(z)

\* An entry in use by a process that has not died, the idle process included.
Living(p) == Used(p) /\ ~ Dead(p)

\* Whoever is inside process_wait waits for what exists.
WaitsForChild == \A p \in Place : Living(p) /\ Waiting(p) => WaitSound(p)

\* The running process and those above it live, or it is itself the process
\* that was killed first.
Lineage(S) ==
    /\ cur \in S
    /\ \A c \in S : Used(c) /\ ~ Dead(c)
    /\ \A c \in S, q \in Place : Used(q) /\ plist[q].pid = plist[c].ppid => q \in S

\* process_kill never kills the running process in its recursion, unless it was
\* called for it: schedule() would not return to the activations below.
CurrentSpared ==
    mode = "kill" => kills[1].place = cur \/ \E S \in SUBSET Place : Lineage(S)

\* The inductive invariant.
OInv ==
    /\ Bystanders
    /\ CurrentResumed
    /\ Tree
    /\ Announced
    /\ WaitersTold
    /\ WaitsForChild
    /\ CurrentSpared
    /\ NoWaitFatal

-----------------------------------------------------------------------------
(* Steps that change how processes run, and what they wait for             *)

USE ProcessMaxAssumption DEF Kernel, Idle, FirstPid

\* What the invariant of ProcessProofs says of the entries one by one.
LEMMA Entries ==
    ASSUME IInv
    PROVE  /\ plist \in [Place -> Processes] /\ cur \in Place
           /\ Kernel \in Place /\ Idle \in Place
           /\ \A p \in Place : /\ plist[p] \in Processes
                               /\ plist[p].pid \in Nat /\ plist[p].ppid \in Nat
                               /\ plist[p].wait_pid \in Int
                               /\ Alive(p) => Used(p) /\ ~ Dead(p)
                               /\ Dead(p) => Used(p)
                               /\ Used(p) /\ ~ Dead(p) /\ p # Idle => Alive(p)
                               /\ p # Kernel /\ Used(p) => plist[p].pid # 0
                               /\ Dead(p) => p # Kernel /\ p # Idle
<1>1. plist \in [Place -> Processes] /\ cur \in Place
  BY DEF IInv, TypeOK
<1>2. \A p \in Place : /\ plist[p] \in Processes
                       /\ plist[p].state \in States
                       /\ plist[p].pid \in Nat /\ plist[p].ppid \in Nat
                       /\ plist[p].wait_pid \in Int
  BY <1>1 DEF Processes
<1>3. Kernel \in Place /\ Idle \in Place
  BY DEF Place
<1>. SUFFICES ASSUME NEW p \in Place
              PROVE  /\ Alive(p) => Used(p) /\ ~ Dead(p)
                     /\ Dead(p) => Used(p)
                     /\ Used(p) /\ ~ Dead(p) /\ p # Idle => Alive(p)
                     /\ p # Kernel /\ Used(p) => plist[p].pid # 0
                     /\ Dead(p) => p # Kernel /\ p # Idle
  BY <1>1, <1>2, <1>3
<1>4. /\ Alive(p) => Used(p) /\ ~ Dead(p)
      /\ Dead(p) => Used(p)
  BY DEF Alive, Used, Dead
<1>5. Used(p) /\ ~ Dead(p) /\ p # Idle => Alive(p)
  BY <1>2 DEF Used, Dead, Alive, States, IInv, Roles
<1>6. p # Kernel /\ Used(p) => plist[p].pid # 0
  BY <1>2 DEF IInv, PidOrder
<1>7. Dead(p) => p # Kernel /\ p # Idle
  BY <1>3 DEF IInv, Roles, Dead, Alive
<1>. QED
  BY <1>4, <1>5, <1>6, <1>7

\* i_pid_to_place has one answer.
LEMMA OnePid ==
    ASSUME IInv, NEW p \in Place, NEW q \in Place, Used(p), Used(q),
           plist[p].pid = plist[q].pid
    PROVE  p = q
BY DEF IInv, UniquePids

\* In user mode the running process is one that was created, and nobody is
\* being killed.
LEMMA UserCurrent ==
    ASSUME IInv, OInv, mode = "user"
    PROVE  /\ cur # Kernel /\ ~ Waiting(cur)
           /\ kills = <<>>
           /\ cur # Idle => Alive(cur) /\ plist[cur].pid # 0 /\ plist[cur].pid # 1
<1>1. plist[cur].resume = "user"
  BY DEF OInv, CurrentResumed, Resumes
<1>2. cur # Kernel /\ ~ Waiting(cur)
  BY <1>1 DEF OInv, Bystanders, Waiting
<1>3. kills = <<>>
  BY DEF IInv, KillStack
<1>4. Running(cur)
  BY DEF IInv, CurrentRuns, Resumes
<1>5. ASSUME cur # Idle PROVE Alive(cur) /\ plist[cur].pid # 0 /\ plist[cur].pid # 1
  <2>1. Alive(cur)
    BY <1>4, <1>5, Entries DEF Running, Ready, Alive, IInv, Roles
  <2>2. Used(Idle) /\ plist[Idle].pid = 1
    BY Entries DEF Used, IInv, Roles, OInv, Bystanders
  <2>. QED
    BY <1>2, <1>5, <2>1, <2>2, Entries, OnePid
<1>. QED
  BY <1>2, <1>3, <1>5

\* Outside process_kill there is no activation of it.
LEMMA NobodyKilled ==
    ASSUME IInv, mode # "kill"
    PROVE  kills = <<>> /\ \A z, w : ~ Pending(z, w) /\ ~ OnStack(z)
<1>1. kills = <<>>
  BY DEF IInv, KillStack
<1>2. Len(kills) = 0
  BY <1>1
<1>. QED
  BY <1>1, <1>2 DEF Pending, OnStack

\* An entry of which a step at most changes how it runs and what it waits for.
Calm(p) ==
    /\ plist'[p].pid = plist[p].pid /\ plist'[p].ppid = plist[p].ppid
    /\ plist'[p].dir = plist[p].dir /\ plist'[p].closed = plist[p].closed
    /\ Alive(p)' <=> Alive(p)
    /\ Dead(p)' <=> Dead(p)
    /\ Used(p)' <=> Used(p)

\* A step outside process_kill that only changes how processes run keeps the
\* parts of OInv about the tree and about waiting.
LEMMA CalmKeeps ==
    ASSUME IInv, OInv, IInv', mode # "kill", mode' # "kill", \A p \in Place : Calm(p),
           \A w \in Place : Alive(w) =>
              \/ plist'[w].wait_pid = plist[w].wait_pid
              \/ \A z \in Place : Dead(z) => ~ Awaits(w, z)',
           \A p \in Place : Living(p) /\ Waiting(p)' =>
              \/ Waiting(p) /\ plist'[p].wait_pid = plist[p].wait_pid
              \/ WaitSound(p)'
    PROVE  Tree' /\ Announced' /\ WaitersTold' /\ WaitsForChild' /\ CurrentSpared'
<1>1. \A z, w : ~ Pending(z, w) /\ ~ OnStack(z)
  BY NobodyKilled
<1>2. Tree'
  <2>. SUFFICES ASSUME NEW p \in Place, Held(p)'
                PROVE  /\ Dead(p)' => plist'[p].ppid # 0
                       /\ \E q \in Place : /\ plist'[q].pid = plist'[p].ppid
                                           /\ Alive(q)'
    BY DEF Tree
  <2>1. Held(p)
    BY DEF Held, Calm
  <2>2. Dead(p) => plist[p].ppid # 0
    BY <2>1 DEF OInv, Tree
  <2>3. PICK q \in Place : plist[q].pid = plist[p].ppid /\ Alive(q)
    BY <2>1, <1>1 DEF OInv, Tree
  <2>. QED
    BY <2>2, <2>3 DEF Calm
<1>3. Announced'
  BY <1>1 DEF OInv, Announced, Calm
<1>4. WaitersTold'
  <2>. SUFFICES ASSUME NEW z \in Place, NEW w \in Place, Dead(z)', Alive(w)', Awaits(w, z)'
                PROVE  FALSE
    BY DEF WaitersTold
  <2>1. Dead(z) /\ Alive(w)
    BY DEF Calm
  <2>2. plist'[w].wait_pid = plist[w].wait_pid
    BY <2>1
  <2>3. Awaits(w, z)
    BY <2>2 DEF Awaits, Calm
  <2>. QED
    BY <2>1, <2>3, <1>1 DEF OInv, WaitersTold
<1>5. WaitsForChild'
  <2>. SUFFICES ASSUME NEW p \in Place, Living(p)', Waiting(p)', ~ WaitSound(p)'
                PROVE  FALSE
    BY DEF WaitsForChild
  <2>1. Living(p) /\ Waiting(p) /\ plist'[p].wait_pid = plist[p].wait_pid
    BY DEF Calm, Living
  <2>2. WaitSound(p)
    BY <2>1 DEF OInv, WaitsForChild
  <2>. QED
    BY <2>1, <2>2 DEF WaitSound, Child, Calm
<1>6. CurrentSpared'
  BY DEF CurrentSpared
<1>. QED
  BY <1>2, <1>3, <1>4, <1>5, <1>6

\* A calm step after which the kernel still sleeps.
LEMMA CalmStep ==
    ASSUME IInv, OInv, IInv', mode # "kill", mode' \notin {"kill", "fatal_wait"},
           \A p \in Place : Calm(p),
           \A w \in Place : Alive(w) =>
              \/ plist'[w].wait_pid = plist[w].wait_pid
              \/ \A z \in Place : Dead(z) => ~ Awaits(w, z)',
           \A p \in Place : Living(p) /\ Waiting(p)' =>
              \/ Waiting(p) /\ plist'[p].wait_pid = plist[p].wait_pid
              \/ WaitSound(p)',
           plist'[Kernel].resume = "halt",
           mode' \in Resumes => plist'[cur'].resume = "user"
    PROVE  OInv'
<1>1. Tree' /\ Announced' /\ WaitersTold' /\ WaitsForChild' /\ CurrentSpared'
  BY CalmKeeps
<1>2. Bystanders'
  BY Entries DEF OInv, Bystanders, Calm
<1>3. CurrentResumed'
  BY DEF CurrentResumed
<1>4. NoWaitFatal'
  BY DEF NoWaitFatal
<1>. QED
  BY <1>1, <1>2, <1>3, <1>4 DEF OInv

\* Before the kernel process gets the CPU back it is inside elf_start.
LEMMA KernelSleeps ==
    ASSUME OInv, mode \notin {"halt", "halted"}
    PROVE  plist[Kernel].resume = "halt"
BY DEF OInv, Bystanders

\* An entry that a step does not write to is calm.
LEMMA SameEntryCalm ==
    ASSUME NEW p \in Place, plist'[p] = plist[p]
    PROVE  Calm(p)
BY DEF Calm, Alive, Dead, Used

\* Other system calls, and sys_exit_kernel.
LEMMA NothingOrderly ==
    ASSUME IInv, OInv, NoEffect \/ ExitKernel
    PROVE  OInv'
<1>1. /\ UNCHANGED <<plist, cur>> /\ mode \in {"user", "exit"}
      /\ mode' \in {"user", "exit", "sched"}
  BY DEF NoEffect, ExitKernel
<1>2. IInv'
  BY NoEffectInv
<1>3. plist[cur].resume = "user"
  BY <1>1 DEF OInv, CurrentResumed, Resumes
<1>4. plist[Kernel].resume = "halt"
  BY <1>1, KernelSleeps
<1>5. \A p \in Place : Calm(p)
  BY <1>1, SameEntryCalm
<1>6. \A p \in Place : Waiting(p)' => Waiting(p)
  BY <1>1 DEF Waiting
<1>7. \A p \in Place : plist'[p] = plist[p]
  BY <1>1
<1>. QED
  BY <1>1, <1>2, <1>3, <1>4, <1>5, <1>6, <1>7, CalmStep

\* A step that only writes to the entry of p.
LEMMA OneEntry ==
    ASSUME IInv, OInv, IInv', mode = "user", mode' \in {"exit", "sched"}, cur' = cur,
           NEW p \in Place, p # Kernel, Alive(p), \A q \in Place \ {p} : plist'[q] = plist[q],
           Calm(p),
           \/ plist'[p].wait_pid = plist[p].wait_pid
           \/ \A z \in Place : Dead(z) => ~ Awaits(p, z)',
           \/ plist'[p].resume # "wait"
           \/ /\ plist'[p].resume = plist[p].resume
              /\ plist'[p].wait_pid = plist[p].wait_pid
           \/ WaitSound(p)',
           mode' = "exit" => plist'[cur].resume = "user"
    PROVE  OInv'
<1>1. \A q \in Place : Calm(q)
  BY SameEntryCalm
<1>2. \A w \in Place : Alive(w) =>
              \/ plist'[w].wait_pid = plist[w].wait_pid
              \/ \A z \in Place : Dead(z) => ~ Awaits(w, z)'
  <2>. SUFFICES ASSUME NEW w \in Place
                PROVE  \/ plist'[w].wait_pid = plist[w].wait_pid
                       \/ \A z \in Place : Dead(z) => ~ Awaits(w, z)'
    OBVIOUS
  <2>1. CASE w = p
    BY <2>1
  <2>2. CASE w # p
    BY <2>2
  <2>. QED
    BY <2>1, <2>2
<1>3. \A q \in Place : Living(q) /\ Waiting(q)' =>
              \/ Waiting(q) /\ plist'[q].wait_pid = plist[q].wait_pid
              \/ WaitSound(q)'
  <2>. SUFFICES ASSUME NEW q \in Place, Waiting(q)', ~ WaitSound(q)'
                PROVE  Waiting(q) /\ plist'[q].wait_pid = plist[q].wait_pid
    OBVIOUS
  <2>1. plist'[q].resume = "wait"
    BY DEF Waiting
  <2>2. plist[q].resume = "wait" /\ plist'[q].wait_pid = plist[q].wait_pid
    BY <2>1
  <2>. QED
    BY <2>2 DEF Waiting
<1>4. plist'[Kernel].resume = "halt"
  BY KernelSleeps, Entries
<1>5. mode' \in Resumes => plist'[cur'].resume = "user"
  BY DEF Resumes
<1>. QED
  BY <1>1, <1>2, <1>3, <1>4, <1>5, CalmStep

\* process_sleep(cur, 0).
LEMMA YieldOrderly ==
    ASSUME IInv, OInv, Yield
    PROVE  OInv'
<1>1. mode = "user" /\ mode' = "sched" /\ cur' = cur /\ cur # Idle
      /\ plist' = [plist EXCEPT ![cur].resume = "exit"]
  BY DEF Yield, InUser
<1>2. cur # Kernel /\ Alive(cur) /\ plist \in [Place -> Processes] /\ cur \in Place
  BY <1>1, UserCurrent, Entries
<1>3. /\ plist'[cur].pid = plist[cur].pid /\ plist'[cur].ppid = plist[cur].ppid
      /\ plist'[cur].state = plist[cur].state
      /\ plist'[cur].wait_pid = plist[cur].wait_pid
      /\ plist'[cur].resume = "exit"
      /\ \A q \in Place \ {cur} : plist'[q] = plist[q]
  BY <1>1, <1>2 DEF Processes
<1>4. plist'[cur].dir = plist[cur].dir /\ plist'[cur].closed = plist[cur].closed
  BY <1>1, <1>2 DEF Processes
<1>5. Calm(cur)
  BY <1>1, <1>3, <1>4 DEF Calm, Alive, Dead, Used
<1>6. IInv'
  BY YieldInv
<1>. QED
  BY <1>1, <1>2, <1>3, <1>5, <1>6, OneEntry

\* process_sleep, with a deadline or without, leaves what its target waits for.
LEMMA SleepOrderly ==
    ASSUME IInv, OInv, Misuse = {}, NEW p \in Place, NEW d \in Delays \cup {Forever}, Sleep(p, d)
    PROVE  OInv'
<1>. DEFINE v == IF d = Forever THEN 0 ELSE d + 1
            r == IF p = cur THEN "exit" ELSE plist[p].resume
<1>1. /\ mode = "user" /\ mode' = (IF p = cur THEN "sched" ELSE "exit") /\ cur' = cur
      /\ Alive(p) /\ p # Kernel /\ cur # Idle
      /\ plist' = [plist EXCEPT ![p].state = "SLP", ![p].val = v, ![p].resume = r]
  BY DEF Sleep, InUser
<1>. HIDE DEF v
<1>2. plist \in [Place -> Processes] /\ cur \in Place
  BY Entries
<1>3. /\ plist'[p].pid = plist[p].pid /\ plist'[p].ppid = plist[p].ppid
      /\ plist'[p].state = "SLP"
      /\ plist'[p].wait_pid = plist[p].wait_pid
      /\ plist'[p].resume = r
      /\ \A q \in Place \ {p} : plist'[q] = plist[q]
  BY <1>1, <1>2 DEF Processes
<1>4. plist'[p].dir = plist[p].dir /\ plist'[p].closed = plist[p].closed
  BY <1>1, <1>2 DEF Processes
<1>5. Calm(p)
  BY <1>1, <1>3, <1>4 DEF Calm, Alive, Dead, Used
<1>6. IInv'
  BY SleepInv
<1>7. mode' = "exit" => plist'[cur].resume = "user"
  BY <1>1, <1>2, <1>3 DEF OInv, CurrentResumed, Resumes
<1>. QED
  BY <1>1, <1>2, <1>3, <1>5, <1>6, <1>7, OneEntry

\* What process_wakeup does not write: where the process continues.
LEMMA WokenFields ==
    ASSUME NEW r \in Processes
    PROVE  /\ Woken(r).wait_pid = 0 /\ Woken(r).resume = r.resume
           /\ Woken(r).closed = r.closed
<1>1. Woken(r).wait_pid = 0 /\ Woken(r).resume = r.resume
  BY DEF Woken, Processes
<1>2. Woken(r).closed = r.closed
  BY DEF Woken, Processes
<1>. QED
  BY <1>1, <1>2

\* A process with no wait_pid awaits nobody.
LEMMA AwaitsNobody ==
    ASSUME IInv, IInv', NEW p \in Place, plist'[p].wait_pid = 0,
           \A z \in Place : Calm(z)
    PROVE  \A z \in Place : Dead(z) => ~ Awaits(p, z)'
<1>. SUFFICES ASSUME NEW z \in Place, Dead(z), Awaits(p, z)' PROVE FALSE
  OBVIOUS
<1>1. plist[z].pid # 0
  BY Entries
<1>. QED
  BY <1>1 DEF Awaits, Calm

\* A process that is woken up goes on living and waits for nobody.
LEMMA WokenCalm ==
    ASSUME IInv, NEW p \in Place, plist[p].state = "SLP", plist'[p] = Woken(plist[p])
    PROVE  /\ Calm(p) /\ plist'[p].wait_pid = 0 /\ plist'[p].resume = plist[p].resume
<1>1. plist[p] \in Processes
  BY Entries
<1>2. /\ plist'[p].state = "INQ" /\ plist'[p].pid = plist[p].pid
      /\ plist'[p].ppid = plist[p].ppid /\ plist'[p].dir = plist[p].dir
      /\ plist'[p].closed = plist[p].closed
  BY <1>1, WokenProcess, WokenFields
<1>3. plist'[p].wait_pid = 0 /\ plist'[p].resume = plist[p].resume
  BY <1>1, WokenFields
<1>. QED
  BY <1>2, <1>3 DEF Calm, Alive, Dead, Used

\* process_wakeup(pid, 0): its target was not inside process_wait.
LEMMA WakeupOrderly ==
    ASSUME IInv, OInv, Misuse = {}, NEW p \in Place, Wakeup(p)
    PROVE  OInv'
<1>1. /\ mode = "user" /\ cur' = cur /\ plist[p].state = "SLP" /\ ~ Waiter(p)
      /\ plist' = [plist EXCEPT ![p] = Woken(@)] /\ cur # Idle
  BY DEF Wakeup, InUser
<1>2. plist \in [Place -> Processes] /\ cur \in Place
  BY Entries
<1>3. CanEnqueue(p)
  BY <1>1, SleeperFits
<1>4. mode' = "exit"
  BY <1>3 DEF Wakeup
<1>5. plist'[p] = Woken(plist[p]) /\ \A q \in Place \ {p} : plist'[q] = plist[q]
  BY <1>1, <1>2
<1>6. Calm(p) /\ plist'[p].wait_pid = 0 /\ plist'[p].resume = plist[p].resume
  BY <1>1, <1>5, WokenCalm
<1>7. IInv'
  BY WakeupInv
<1>8. \A z \in Place : Dead(z) => ~ Awaits(p, z)'
  <2>1. \A z \in Place : Calm(z)
    BY <1>5, <1>6, SameEntryCalm
  <2>. QED
    BY <1>6, <1>7, <2>1, AwaitsNobody
<1>9. p # Kernel
  BY <1>1, KernelSleeps DEF Waiter
<1>10. plist'[cur].resume = "user"
  BY <1>1, <1>2, <1>5, <1>6 DEF OInv, CurrentResumed, Resumes
<1>11. Alive(p) /\ plist'[p].resume # "wait"
  BY <1>1, <1>6 DEF Alive, Waiter
<1>. QED
  BY <1>1, <1>4, <1>5, <1>6, <1>7, <1>8, <1>9, <1>10, <1>11, OneEntry

\* The wait of the running process for a child of its own, or for any.
LEMMA WaitBlockFields ==
    ASSUME IInv, NEW pid \in Int, WaitBlock(pid), NEW p, p = cur
    PROVE  /\ plist'[p].pid = plist[p].pid /\ plist'[p].ppid = plist[p].ppid
           /\ plist'[p].state = "SLP" /\ plist'[p].wait_pid = pid
           /\ plist'[p].dir = plist[p].dir /\ plist'[p].closed = plist[p].closed
           /\ plist'[p].resume = "wait"
           /\ \A q \in Place \ {p} : plist'[q] = plist[q]
<1>. DEFINE g == [plist EXCEPT ![p].state = "SLP", ![p].wait_pid = pid]
<1>1. plist \in [Place -> Processes] /\ p \in Place
  BY Entries
<1>2. plist' = [g EXCEPT ![p].val = 0, ![p].req = pid, ![p].resume = "wait"]
  BY DEF WaitBlock
<1>3. /\ g[p].pid = plist[p].pid /\ g[p].ppid = plist[p].ppid
      /\ g[p].state = "SLP" /\ g[p].wait_pid = pid
      /\ DOMAIN g = Place /\ \A q \in Place \ {p} : g[q] = plist[q]
  BY <1>1 DEF Processes
<1>4. g[p].dir = plist[p].dir /\ g[p].closed = plist[p].closed
  BY <1>1 DEF Processes
<1>5. g \in [Place -> Processes]
  <2>. DEFINE w == "SLP"
  <2>1. w \in States
    BY Names
  <2>. HIDE DEF w
  <2>2. [plist EXCEPT ![p].state = w, ![p].wait_pid = pid] \in [Place -> Processes]
    BY <1>1, <2>1, ZenonT(40) DEF Processes
  <2>. QED
    BY <2>2 DEF w
<1>. HIDE DEF g
<1>6. /\ plist'[p].pid = g[p].pid /\ plist'[p].ppid = g[p].ppid
      /\ plist'[p].state = g[p].state /\ plist'[p].wait_pid = g[p].wait_pid
      /\ plist'[p].resume = "wait"
      /\ \A q \in Place \ {p} : plist'[q] = g[q]
  BY <1>1, <1>2, <1>5 DEF Processes
<1>7. plist'[p].dir = g[p].dir /\ plist'[p].closed = g[p].closed
  BY <1>1, <1>2, <1>5 DEF Processes
<1>. QED
  BY <1>3, <1>4, <1>6, <1>7

\* process_wait falls asleep only when the child it waits for has not died, so
\* that nobody needs to tell it of a death in the past.
LEMMA WaitBlockOrderly ==
    ASSUME IInv, OInv, NEW pid \in WaitArgs, WaitBlock(pid)
    PROVE  OInv'
<1>. DEFINE p == cur
<1>1. /\ mode = "user" /\ mode' = "sched" /\ cur' = p /\ p # Idle /\ pid \in Int
      /\ \E c \in Place : /\ IsChild(c, plist[p].pid) /\ ~ Dead(c)
                          /\ pid # AnyChild => plist[c].pid = pid
      /\ pid = AnyChild => Zombies(plist[p].pid) = {}
  BY DEF WaitBlock, InUser, WaitArgs, AnyChild
<1>2. /\ plist'[p].pid = plist[p].pid /\ plist'[p].ppid = plist[p].ppid
      /\ plist'[p].state = "SLP" /\ plist'[p].wait_pid = pid
      /\ plist'[p].dir = plist[p].dir /\ plist'[p].closed = plist[p].closed
      /\ plist'[p].resume = "wait"
      /\ \A q \in Place \ {p} : plist'[q] = plist[q]
  BY <1>1, WaitBlockFields
<1>3. /\ p # Kernel /\ Alive(p) /\ p \in Place
      /\ plist[p].pid # 0 /\ plist[p].pid # 1
  BY <1>1, UserCurrent, Entries
<1>4. Calm(p)
  BY <1>1, <1>2, <1>3 DEF Calm, Alive, Dead, Used
<1>5. IInv'
  BY <1>1, WaitBlockInv
<1>6. PICK c \in Place : /\ IsChild(c, plist[p].pid) /\ ~ Dead(c)
                         /\ pid # AnyChild => plist[c].pid = pid
  BY <1>1
<1>7. c # p
  BY <1>3, <1>6, Entries DEF IsChild, IInv, PidOrder
<1>8. \A z \in Place : Dead(z) => z # p
  BY <1>3, Entries
<1>. HIDE DEF p
<1>9. \A z \in Place : Dead(z) => ~ Awaits(p, z)'
  <2>. SUFFICES ASSUME NEW z \in Place, Dead(z), Awaits(p, z)' PROVE FALSE
    OBVIOUS
  <2>1. plist'[z] = plist[z]
    BY <1>2, <1>8
  <2>2. CASE pid = AnyChild
    <3>1. plist[z].pid # -1
      BY Entries
    <3>2. plist[p].pid = plist[z].ppid
      BY <1>2, <2>1, <2>2, <3>1, <1>1 DEF Awaits, AnyChild, p
    <3>. QED
      BY <1>1, <2>2, <3>2 DEF Zombies
  <2>3. CASE pid # AnyChild
    <3>1. plist[z].pid = plist[c].pid
      BY <1>1, <1>2, <1>6, <2>1, <2>3 DEF Awaits, AnyChild, p
    <3>2. z = c
      BY <1>6, <3>1, OnePid, Entries DEF IsChild
    <3>. QED
      BY <1>6, <3>2
  <2>. QED
    BY <2>2, <2>3
<1>10. WaitSound(p)'
  <2>1. CASE pid = AnyChild
    BY <1>1, <1>2, <1>3, <2>1 DEF WaitSound, AnyChild, p
  <2>2. CASE pid # AnyChild
    <3>1. plist'[c] = plist[c]
      BY <1>2, <1>7
    <3>2. Child(c, p)'
      BY <1>1, <1>2, <1>6, <3>1 DEF Child, IsChild, Used, p
    <3>. QED
      BY <1>1, <1>2, <1>3, <1>6, <2>2, <3>1, <3>2 DEF WaitSound, p
  <2>. QED
    BY <2>1, <2>2
<1>. QED
  BY <1>1, <1>2, <1>3, <1>4, <1>5, <1>9, <1>10, OneEntry DEF p

\* process_wakeup(pid, 1) makes the caller wait for the process it wakes up.
LEMMA HandoverFields ==
    ASSUME IInv, NEW p \in Place, Handover(p), NEW c, c = cur, p # c
    PROVE  /\ plist'[c].wait_pid = plist[p].pid /\ plist'[c].resume = "exit"
           /\ plist'[c].closed = plist[c].closed
<1>. DEFINE h == [plist EXCEPT ![p] = Woken(@)]
            g == [h EXCEPT ![c].state = "SLP", ![c].wait_pid = plist[p].pid]
<1>1. plist \in [Place -> Processes] /\ c \in Place /\ plist[p].pid \in Int
  BY Entries
<1>2. h \in [Place -> Processes] /\ h[c] = plist[c]
  BY <1>1, WokenProcess
<1>3. plist' = [g EXCEPT ![c].val = 0, ![c].resume = "exit"]
  BY DEF Handover
<1>. HIDE DEF h
<1>4. g[c].wait_pid = plist[p].pid /\ DOMAIN g = Place
  BY <1>1, <1>2 DEF Processes
<1>5. g[c].closed = h[c].closed
  BY <1>1, <1>2 DEF Processes
<1>6. g \in [Place -> Processes]
  <2>. DEFINE w == "SLP"
  <2>1. w \in States
    BY Names
  <2>. HIDE DEF w
  <2>2. [h EXCEPT ![c].state = w] \in [Place -> Processes]
    BY <1>1, <1>2, <2>1 DEF Processes
  <2>. DEFINE k == [h EXCEPT ![c].state = w]
              n == plist[p].pid
  <2>3. k \in [Place -> Processes] /\ n \in Int
    BY <1>1, <2>2
  <2>. HIDE DEF k, n
  <2>4. [k EXCEPT ![c].wait_pid = n] \in [Place -> Processes]
    BY <1>1, <2>3 DEF Processes
  <2>. QED
    BY <2>4 DEF k, n, w
<1>. HIDE DEF g
<1>7. plist'[c].wait_pid = g[c].wait_pid /\ plist'[c].resume = "exit"
  BY <1>1, <1>3, <1>6 DEF Processes
<1>8. plist'[c].closed = g[c].closed
  BY <1>1, <1>3, <1>6 DEF Processes
<1>. QED
  BY <1>2, <1>4, <1>5, <1>7, <1>8

\* That process was asleep, hence not dead.
LEMMA HandoverOrderly ==
    ASSUME IInv, OInv, Misuse = {}, NEW p \in Place, Handover(p)
    PROVE  OInv'
<1>. DEFINE c == cur
<1>1. /\ mode = "user" /\ cur' = c /\ plist[p].state = "SLP" /\ ~ Waiter(p) /\ c # Idle
  BY DEF Handover, InUser
<1>2. /\ c # Kernel /\ Alive(c) /\ c \in Place /\ c # p
  <2>1. Running(cur)
    BY <1>1 DEF IInv, CurrentRuns, Resumes
  <2>. QED
    BY <1>1, <2>1, UserCurrent, Entries DEF Running, Ready
<1>3. mode' = "sched"
  <2>1. CanEnqueue(p)
    BY <1>1, SleeperFits
  <2>. QED
    BY <2>1 DEF Handover
<1>4. /\ plist'[p] = Woken(plist[p])
      /\ \A q \in Place \ {p, c} : plist'[q] = plist[q]
      /\ plist'[c].state = "SLP"
      /\ plist'[c].pid = plist[c].pid
      /\ plist'[c].ppid = plist[c].ppid
      /\ plist'[c].dir = plist[c].dir
  BY <1>2, HandoverTypes DEF IInv
<1>5. /\ plist'[c].wait_pid = plist[p].pid /\ plist'[c].resume = "exit"
      /\ plist'[c].closed = plist[c].closed
  BY <1>2, HandoverFields
<1>6. Calm(p) /\ plist'[p].wait_pid = 0 /\ plist'[p].resume = plist[p].resume
  BY <1>1, <1>4, WokenCalm
<1>7. Calm(c)
  BY <1>1, <1>2, <1>4, <1>5 DEF Calm, Alive, Dead, Used
<1>. HIDE DEF c
<1>8. \A q \in Place : Calm(q)
  <2>. SUFFICES ASSUME NEW q \in Place PROVE Calm(q)
    OBVIOUS
  <2>1. CASE q \in {p, c}
    BY <1>6, <1>7, <2>1
  <2>2. CASE q \notin {p, c}
    BY <1>4, <2>2, SameEntryCalm
  <2>. QED
    BY <2>1, <2>2
<1>9. IInv'
  BY HandoverInv
<1>10. \A z \in Place : Dead(z) => ~ Awaits(p, z)'
  BY <1>6, <1>8, <1>9, AwaitsNobody
<1>11. \A w \in Place : w = c => \A z \in Place : Dead(z) => ~ Awaits(w, z)'
  <2>. SUFFICES ASSUME NEW w \in Place, w = c,
                       NEW z \in Place, Dead(z), Awaits(w, z)'
                PROVE  FALSE
    OBVIOUS
  <2>1. Used(p) /\ ~ Dead(p) /\ plist[p].pid # -1
    BY <1>1, Entries DEF Used, Dead
  <2>2. plist'[z].pid = plist[z].pid
    BY <1>8 DEF Calm
  <2>3. plist[z].pid = plist[p].pid
    BY <1>5, <2>1, <2>2 DEF Awaits
  <2>4. z = p
    BY <2>1, <2>3, OnePid, Entries
  <2>. QED
    BY <2>1, <2>4
<1>12. \A w \in Place : Alive(w) =>
              \/ plist'[w].wait_pid = plist[w].wait_pid
              \/ \A z \in Place : Dead(z) => ~ Awaits(w, z)'
  <2>. SUFFICES ASSUME NEW w \in Place
                PROVE  \/ plist'[w].wait_pid = plist[w].wait_pid
                       \/ \A z \in Place : Dead(z) => ~ Awaits(w, z)'
    OBVIOUS
  <2>1. CASE w = p
    BY <1>10, <2>1
  <2>2. CASE w = c
    BY <1>11, <2>2
  <2>3. CASE w \notin {p, c}
    BY <1>4, <2>3
  <2>. QED
    BY <2>1, <2>2, <2>3
<1>13. \A q \in Place : Living(q) /\ Waiting(q)' =>
              Waiting(q) /\ plist'[q].wait_pid = plist[q].wait_pid
  <2>. SUFFICES ASSUME NEW q \in Place, Waiting(q)'
                PROVE  Waiting(q) /\ plist'[q].wait_pid = plist[q].wait_pid
    OBVIOUS
  <2>1. plist'[q].resume = "wait"
    BY <1>3 DEF Waiting
  <2>2. q \notin {p, c}
    BY <1>1, <1>5, <1>6, <2>1 DEF Waiter
  <2>. QED
    BY <1>4, <2>1, <2>2 DEF Waiting
<1>14. plist'[Kernel].resume = "halt"
  BY <1>1, <1>2, <1>4, <1>6, KernelSleeps, Entries
<1>. QED
  BY <1>1, <1>3, <1>8, <1>9, <1>12, <1>13, <1>14, CalmStep DEF Resumes

\* A tick brings a deadline closer and writes nothing else of the entry.
LEMMA TickedFields ==
    ASSUME TypeOK, NEW q \in Place
    PROVE  /\ Ticked[q].wait_pid = plist[q].wait_pid
           /\ Ticked[q].resume = plist[q].resume
           /\ Ticked[q].closed = plist[q].closed
<1>1. plist[q] \in Processes /\ plist[q].val \in Nat
  BY DEF TypeOK, Processes
<1>2. CASE q \in tsleep /\ plist[q].val > 1
  <2>. DEFINE n == plist[q].val - 1
  <2>1. Ticked[q] = [plist[q] EXCEPT !.val = n]
    BY <1>2 DEF Ticked
  <2>. HIDE DEF n
  <2>2. /\ Ticked[q].wait_pid = plist[q].wait_pid
        /\ Ticked[q].resume = plist[q].resume
    BY <1>1, <2>1 DEF Processes
  <2>3. Ticked[q].closed = plist[q].closed
    BY <1>1, <2>1 DEF Processes
  <2>. QED
    BY <2>2, <2>3
<1>3. CASE ~ (q \in tsleep /\ plist[q].val > 1)
  BY <1>3 DEF Ticked
<1>. QED
  BY <1>2, <1>3

\* The timer interrupt, which in user mode may preempt the running process.
LEMMA TickFields ==
    ASSUME IInv, TickInKernel \/ TickInUser, NEW q \in Place
    PROVE  /\ plist'[q].wait_pid = plist[q].wait_pid
           /\ plist'[q].closed = plist[q].closed
           /\ \/ plist'[q].resume = plist[q].resume
              \/ mode' = "sched" /\ q = cur /\ plist'[q].resume = "exit"
<1>. DEFINE g == Ticked
<1>1. g \in [Place -> Processes] /\ cur \in Place
  BY TickedTable DEF IInv, TypeOK
<1>2. /\ g[q].wait_pid = plist[q].wait_pid
      /\ g[q].resume = plist[q].resume
      /\ g[q].closed = plist[q].closed
  BY TickedFields DEF IInv
<1>3. plist' = g \/ (mode' = "sched" /\ plist' = [g EXCEPT ![cur].resume = "exit"])
  BY DEF TickInKernel, TickInUser
<1>. HIDE DEF g
<1>4. CASE plist' = g
  BY <1>2, <1>4
<1>5. CASE mode' = "sched" /\ plist' = [g EXCEPT ![cur].resume = "exit"]
  <2>1. /\ plist'[q].wait_pid = g[q].wait_pid
        /\ IF q = cur THEN plist'[q].resume = "exit" ELSE plist'[q] = g[q]
    BY <1>1, <1>5 DEF Processes
  <2>2. plist'[q].closed = g[q].closed
    BY <1>1, <1>5 DEF Processes
  <2>. QED
    BY <1>2, <1>5, <2>1, <2>2
<1>. QED
  BY <1>3, <1>4, <1>5

\* A tick changes no process in what it is or waits for.
LEMMA TickOrderly ==
    ASSUME IInv, OInv, TickInKernel \/ TickInUser
    PROVE  OInv'
<1>1. /\ mode \in {"user", "exit", "sched"} /\ mode' \in {"exit", "sched"}
      /\ (mode' = "exit" => mode \in {"user", "exit"}) /\ cur' = cur
  BY DEF TickInKernel, TickInUser
<1>2. \A q \in Place : /\ plist'[q].wait_pid = plist[q].wait_pid
                       /\ plist'[q].closed = plist[q].closed
                       /\ \/ plist'[q].resume = plist[q].resume
                          \/ mode' = "sched" /\ q = cur /\ plist'[q].resume = "exit"
  BY TickFields
<1>3. \A q \in Place : Calm(q)
  BY <1>2, TickKeeps DEF Kept, Calm, Alive, Dead, Used
<1>4. IInv'
  BY TickInv
<1>5. plist'[Kernel].resume = "halt"
  <2>1. plist[Kernel].resume = "halt"
    BY <1>1, KernelSleeps
  <2>2. mode' = "sched" /\ mode # "sched" => mode = "user"
    BY DEF TickInKernel, TickInUser
  <2>3. ASSUME plist'[Kernel].resume # "halt" PROVE FALSE
    <3>1. Kernel = cur /\ mode' = "sched"
      BY <1>2, <2>1, <2>3, Entries
    <3>2. mode = "user" \/ plist' = Ticked
      BY DEF TickInKernel, TickInUser
    <3>3. Ticked[Kernel].resume = plist[Kernel].resume
      BY Entries, TickedFields DEF IInv
    <3>. QED
      BY <2>1, <2>3, <3>1, <3>2, <3>3, UserCurrent
  <2>. QED
    BY <2>3
<1>6. mode' \in Resumes => plist'[cur'].resume = "user"
  BY <1>1, <1>2, Entries DEF OInv, CurrentResumed, Resumes
<1>7. \A q \in Place : Waiting(q)' => Waiting(q)
  BY <1>1, <1>2 DEF Waiting
<1>. QED
  BY <1>1, <1>2, <1>3, <1>4, <1>5, <1>6, <1>7, CalmStep

\* Which process gets the CPU, and what that writes into its entry and into
\* that of the process that loses it.
LEMMA SchedPickFields ==
    ASSUME IInv, SchedPick
    PROVE  /\ cur' \in Place /\ mode' = plist[cur'].resume
           /\ plist'[cur'].resume = "user"
           /\ \A q \in Place :
                /\ plist'[q].pid = plist[q].pid /\ plist'[q].ppid = plist[q].ppid
                /\ plist'[q].wait_pid = plist[q].wait_pid
                /\ plist'[q].dir = plist[q].dir
                /\ plist'[q].closed = plist[q].closed
                /\ q # cur' => plist'[q].resume = plist[q].resume
                /\ \/ plist'[q].state = plist[q].state
                   \/ Ready(q) /\ Ready(q)'
<1>. DEFINE i == NextIndex
            p == IF queue = <<>> THEN Idle ELSE queue[i + 1]
            s(q) == IF q = cur /\ plist[q].state = "RUN" THEN "INQ" ELSE plist[q].state
            t(q) == IF plist[q].state = "IDL" THEN "IDL" ELSE "RUN"
            a == s(cur)
            b == t(p)
            h == [plist EXCEPT ![cur].state = a]
            g == IF p = cur THEN plist ELSE [h EXCEPT ![p].state = b]
<1>1. /\ plist \in [Place -> Processes] /\ cur \in Place /\ queue \in Seq(Place)
      /\ qindex \in Nat /\ Idle \in Place
  BY DEF IInv, TypeOK, Place
<1>2. cur' = p /\ mode' = plist[p].resume
  BY DEF SchedPick
<1>3. p \in Place /\ Running(p)
  <2>1. i \in Nat /\ (queue # <<>> => i + 1 \in 1 .. Len(queue))
    <3>1. Len(queue) \in Nat /\ (queue # <<>> => Len(queue) >= 1)
      BY <1>1
    <3>. QED
      BY <1>1, <3>1 DEF NextIndex
  <2>. HIDE DEF i
  <2>2. CASE queue = <<>>
    BY <1>1, <2>2 DEF IInv, Roles, Running
  <2>3. CASE queue # <<>>
    <3>1. p \in Range(queue)
      BY <1>1, <2>1, <2>3 DEF Range
    <3>. QED
      BY <3>1 DEF IInv, QueueConsistent, Running
  <2>. QED
    BY <2>2, <2>3
<1>4. plist' = [g EXCEPT ![p].resume = "user"]
  <2>1. CASE p = cur
    BY <2>1 DEF SchedPick
  <2>2. CASE p # cur
    <3>1. plist' = [[plist EXCEPT ![cur].state = IF @ = "RUN" THEN "INQ" ELSE @,
                                  ![p].state = IF @ = "IDL" THEN @ ELSE "RUN"]
                    EXCEPT ![p].resume = "user"]
      BY <2>2 DEF SchedPick
    <3>2. [plist EXCEPT ![cur].state = IF @ = "RUN" THEN "INQ" ELSE @,
                        ![p].state = IF @ = "IDL" THEN @ ELSE "RUN"]
          = [h EXCEPT ![p].state = b]
      <4>. HIDE DEF p
      <4>. QED
        BY <1>1, <1>3, <2>2
    <3>. QED
      BY <2>2, <3>1, <3>2, ZenonT(40)
  <2>. QED
    BY <2>1, <2>2
<1>. HIDE DEF p
<1>5. a \in States /\ b \in States
  BY <1>1, <1>3, Names DEF Processes
<1>6. a = s(cur) /\ b = t(p)
  OBVIOUS
<1>. HIDE DEF a, b
<1>7. /\ h \in [Place -> Processes]
      /\ \A q \in Place : /\ h[q].pid = plist[q].pid /\ h[q].ppid = plist[q].ppid
                          /\ h[q].wait_pid = plist[q].wait_pid
                          /\ h[q].resume = plist[q].resume
                          /\ h[q].state = IF q = cur THEN a ELSE plist[q].state
  BY <1>1, <1>5, ZenonT(40) DEF Processes
<1>8. \A q \in Place : h[q].dir = plist[q].dir /\ h[q].closed = plist[q].closed
  BY <1>1 DEF Processes
<1>. HIDE DEF h
<1>9. CASE p = cur
  <2>1. /\ plist' = [plist EXCEPT ![p].resume = "user"]
    BY <1>4, <1>9
  <2>2. \A q \in Place : /\ plist'[q].pid = plist[q].pid /\ plist'[q].ppid = plist[q].ppid
                         /\ plist'[q].wait_pid = plist[q].wait_pid
                         /\ plist'[q].resume = IF q = p THEN "user" ELSE plist[q].resume
                         /\ plist'[q].state = plist[q].state
    BY <1>1, <1>3, <2>1 DEF Processes
  <2>3. \A q \in Place : plist'[q].dir = plist[q].dir /\ plist'[q].closed = plist[q].closed
    BY <1>1, <1>3, <2>1 DEF Processes
  <2>. QED
    BY <1>2, <1>3, <2>2, <2>3
<1>10. CASE p # cur
  <2>. DEFINE f == [h EXCEPT ![p].state = b]
  <2>1. /\ f \in [Place -> Processes]
        /\ \A q \in Place : /\ f[q].pid = h[q].pid /\ f[q].ppid = h[q].ppid
                            /\ f[q].wait_pid = h[q].wait_pid
                            /\ f[q].resume = h[q].resume
                            /\ f[q].state = IF q = p THEN b ELSE h[q].state
    BY <1>3, <1>5, <1>7 DEF Processes
  <2>2. \A q \in Place : f[q].dir = h[q].dir /\ f[q].closed = h[q].closed
    BY <1>3, <1>7 DEF Processes
  <2>3. plist' = [f EXCEPT ![p].resume = "user"]
    BY <1>4, <1>10
  <2>. HIDE DEF f
  <2>4. \A q \in Place : /\ plist'[q].pid = f[q].pid /\ plist'[q].ppid = f[q].ppid
                         /\ plist'[q].wait_pid = f[q].wait_pid
                         /\ plist'[q].resume = IF q = p THEN "user" ELSE f[q].resume
                         /\ plist'[q].state = f[q].state
    BY <1>3, <2>1, <2>3 DEF Processes
  <2>5. \A q \in Place : plist'[q].dir = f[q].dir /\ plist'[q].closed = f[q].closed
    BY <1>3, <2>1, <2>3 DEF Processes
  <2>6. \A q \in Place : plist'[q].state = plist[q].state \/ (Ready(q) /\ Ready(q)')
    <3>. SUFFICES ASSUME NEW q \in Place
                  PROVE  plist'[q].state = plist[q].state \/ (Ready(q) /\ Ready(q)')
      OBVIOUS
    <3>1. plist'[q].state = IF q = p THEN b ELSE IF q = cur THEN a ELSE plist[q].state
      BY <1>7, <2>1, <2>4
    <3>2. CASE q = p
      BY <1>3, <1>6, <3>1, <3>2 DEF Running, Ready
    <3>3. CASE q = cur /\ q # p
      BY <1>6, <3>1, <3>3 DEF Ready
    <3>4. CASE q # cur /\ q # p
      BY <3>1, <3>4
    <3>. QED
      BY <3>2, <3>3, <3>4
  <2>7. \A q \in Place :
           /\ plist'[q].pid = plist[q].pid /\ plist'[q].ppid = plist[q].ppid
           /\ plist'[q].wait_pid = plist[q].wait_pid
           /\ plist'[q].resume = IF q = p THEN "user" ELSE plist[q].resume
    BY <1>7, <2>1, <2>4
  <2>8. \A q \in Place : plist'[q].dir = plist[q].dir /\ plist'[q].closed = plist[q].closed
    BY <1>8, <2>2, <2>5
  <2>. QED
    BY <1>2, <1>3, <2>6, <2>7, <2>8
<1>. QED
  BY <1>9, <1>10

\* i_process_switch resumes a process where it was left.
LEMMA SchedPickOrderly ==
    ASSUME IInv, OInv, SchedPick
    PROVE  OInv'
<1>1. /\ cur' \in Place /\ mode' = plist[cur'].resume
      /\ plist'[cur'].resume = "user"
      /\ \A q \in Place :
            /\ plist'[q].pid = plist[q].pid /\ plist'[q].ppid = plist[q].ppid
            /\ plist'[q].wait_pid = plist[q].wait_pid
            /\ plist'[q].dir = plist[q].dir
            /\ plist'[q].closed = plist[q].closed
            /\ q # cur' => plist'[q].resume = plist[q].resume
            /\ \/ plist'[q].state = plist[q].state
               \/ Ready(q) /\ Ready(q)'
  BY SchedPickFields
<1>2. mode = "pick"
  BY DEF SchedPick
<1>3. \A q \in Place : Calm(q)
  BY <1>1 DEF Calm, Alive, Dead, Used, Ready
<1>4. mode' \in Resumes
  BY <1>1, Entries DEF Processes
<1>5. IInv'
  BY SchedPickInv
<1>6. \A q \in Place : Waiting(q)' => Waiting(q)
  BY <1>1 DEF Waiting
<1>7. Tree' /\ Announced' /\ WaitersTold' /\ WaitsForChild' /\ CurrentSpared'
  BY <1>1, <1>2, <1>3, <1>4, <1>5, <1>6, CalmKeeps DEF Resumes
<1>8. Bystanders'
  <2>1. plist[Kernel].resume = "halt"
    BY <1>2, KernelSleeps
  <2>2. plist'[Kernel].resume = "halt" \/ (cur' = Kernel /\ mode' = "halt")
    BY <1>1, <2>1, Entries
  <2>. QED
    BY <1>3, <2>2, Entries DEF OInv, Bystanders, Calm
<1>. QED
  BY <1>1, <1>4, <1>7, <1>8 DEF OInv, CurrentResumed, NoWaitFatal, Resumes

-----------------------------------------------------------------------------
(* Steps that free entries or change the tree                              *)

\* An entry that a step leaves in use, except perhaps that it takes the memory
\* of a dead process with a living parent.
Gentle(p) ==
    /\ plist'[p].pid = plist[p].pid /\ plist'[p].ppid = plist[p].ppid
    /\ plist'[p].closed = plist[p].closed
    /\ \/ plist'[p].dir = plist[p].dir
       \/ /\ Dead(p) /\ plist[p].ppid # 0
          /\ \E q \in Place : Alive(q) /\ plist[q].pid = plist[p].ppid
    /\ Alive(p)' <=> Alive(p)
    /\ Dead(p)' <=> Dead(p)
    /\ Used(p)' <=> Used(p)

\* A dead process whose entry the step gives back.
Freed(p) == Dead(p) /\ plist'[p] = Free

\* A calm entry is one whose memory stays, too.
LEMMA CalmIsGentle ==
    ASSUME NEW p, Calm(p)
    PROVE  Gentle(p)
BY DEF Calm, Gentle

\* A step outside process_kill that frees entries of dead processes, as long as
\* nobody inside process_wait could have asked for their exit codes.
LEMMA FreedStep ==
    ASSUME IInv, OInv, IInv', mode # "kill", mode' \notin {"kill", "fatal_wait"},
           \A p \in Place : Gentle(p) \/ Freed(p),
           \A w \in Place : Alive(w) =>
              plist'[w].wait_pid = plist[w].wait_pid \/ plist'[w].wait_pid = 0,
           \A p \in Place : Living(p) /\ Waiting(p)' =>
              /\ Waiting(p) /\ plist'[p].wait_pid = plist[p].wait_pid
              /\ \A z \in Place : Freed(z) /\ plist[z].ppid = plist[p].pid =>
                                     plist[p].pid = 0,
           \/ plist'[Kernel].resume = "halt"
           \/ cur' = Kernel /\ mode' \in {"halt", "halted"},
           mode' \in Resumes => plist'[cur'].resume = "user"
    PROVE  OInv'
<1>1. \A z, w : ~ Pending(z, w) /\ ~ OnStack(z)
  BY NobodyKilled
<1>2. \A p \in Place : Used(p)' => Gentle(p)
  BY FreeProcess DEF Freed, Used
<1>3. \A p \in Place : Alive(p)' \/ Dead(p)' \/ Living(p)' => Used(p)'
  BY DEF Alive, Dead, Used, Living
<1>4. \A p \in Place : Alive(p) => Gentle(p)
  BY Entries DEF Freed
<1>5. Tree'
  <2>. SUFFICES ASSUME NEW p \in Place, Held(p)'
                PROVE  /\ Dead(p)' => plist'[p].ppid # 0
                       /\ \E q \in Place : /\ plist'[q].pid = plist'[p].ppid
                                           /\ Alive(q)'
    BY DEF Tree
  <2>1. Gentle(p)
    BY <1>2, <1>3 DEF Held
  <2>2. /\ Dead(p) => plist[p].ppid # 0
        /\ \E q \in Place : plist[q].pid = plist[p].ppid /\ Alive(q)
    <3>1. CASE Held(p)
      BY <1>1, <3>1 DEF OInv, Tree
    <3>2. CASE ~ Held(p)
      BY <2>1, <3>2 DEF Held, Gentle
    <3>. QED
      BY <3>1, <3>2
  <2>3. PICK q \in Place : plist[q].pid = plist[p].ppid /\ Alive(q)
    BY <2>2
  <2>. QED
    BY <1>4, <2>1, <2>2, <2>3 DEF Gentle
<1>6. Announced'
  BY <1>1, <1>2, <1>3 DEF OInv, Announced, Gentle
<1>7. WaitersTold'
  <2>. SUFFICES ASSUME NEW z \in Place, NEW w \in Place, Dead(z)', Alive(w)', Awaits(w, z)'
                PROVE  FALSE
    BY DEF WaitersTold
  <2>1. Dead(z) /\ Alive(w) /\ Gentle(z) /\ Gentle(w)
    BY <1>2, <1>3 DEF Gentle
  <2>2. plist'[z].pid # 0
    BY <2>1, Entries DEF Gentle
  <2>3. plist'[w].wait_pid # 0
    BY <2>2 DEF Awaits
  <2>4. plist'[w].wait_pid = plist[w].wait_pid
    BY <2>1, <2>3
  <2>5. Awaits(w, z)
    BY <2>1, <2>4 DEF Awaits, Gentle
  <2>. QED
    BY <2>1, <2>5, <1>1 DEF OInv, WaitersTold
<1>8. WaitsForChild'
  <2>. SUFFICES ASSUME NEW p \in Place, Living(p)', Waiting(p)'
                PROVE  WaitSound(p)'
    BY DEF WaitsForChild
  <2>1. Living(p) /\ Gentle(p)
    BY <1>2, <1>3 DEF Gentle, Living
  <2>2. Waiting(p) /\ plist'[p].wait_pid = plist[p].wait_pid
    BY <2>1
  <2>3. WaitSound(p)
    BY <2>1, <2>2 DEF OInv, WaitsForChild
  <2>4. plist'[p].pid # 0 /\ plist'[p].pid = plist[p].pid
    BY <2>1, <2>3 DEF WaitSound, Gentle
  <2>5. CASE plist[p].wait_pid = -1
    BY <2>2, <2>4, <2>5 DEF WaitSound
  <2>6. CASE plist[p].wait_pid # -1
    <3>1. PICK z \in Place : /\ Child(z, p)
                             /\ \/ plist[z].pid = plist[p].wait_pid
                                \/ plist[p].wait_pid <= 0 /\ Dead(z)
      BY <2>3, <2>6 DEF WaitSound
    <3>2. ~ Freed(z)
      BY <2>1, <2>3, <3>1 DEF Child, WaitSound
    <3>3. Gentle(z)
      BY <3>2
    <3>. QED
      BY <2>2, <2>4, <3>1, <3>3 DEF WaitSound, Child, Gentle
  <2>. QED
    BY <2>5, <2>6
<1>9. Bystanders'
  <2>1. Gentle(Idle)
    BY Entries DEF Freed
  <2>2. \A p \in Place : Used(p)' => plist'[p].ppid # 1
    BY <1>2 DEF OInv, Bystanders, Gentle
  <2>. QED
    BY <2>1, <2>2, Entries DEF OInv, Bystanders, Gentle
<1>10. CurrentSpared' /\ CurrentResumed' /\ NoWaitFatal'
  BY DEF CurrentSpared, CurrentResumed, NoWaitFatal
<1>. QED
  BY <1>5, <1>6, <1>7, <1>8, <1>9, <1>10 DEF OInv

\* process_wait frees an entry whose only possible waiter is its caller.
LEMMA WaitReapOrderly ==
    ASSUME IInv, OInv, NEW pid, WaitReap(pid)
    PROVE  OInv'
<1>1. /\ mode = "user" /\ mode' = "exit" /\ cur' = cur /\ cur # Idle
  BY DEF WaitReap, InUser
<1>2. PICK p \in Zombies(plist[cur].pid) : plist' = [plist EXCEPT ![p] = Free]
  BY DEF WaitReap, Reap
<1>3. p \in Place /\ Dead(p) /\ plist[p].ppid = plist[cur].pid
  BY DEF Zombies
<1>4. plist'[p] = Free /\ \A q \in Place \ {p} : plist'[q] = plist[q]
  BY <1>2, <1>3, Entries
<1>5. Alive(cur) /\ ~ Waiting(cur) /\ cur # p /\ cur \in Place
  BY <1>1, <1>3, UserCurrent, Entries
<1>6. IInv'
  BY WaitReapInv
<1>7. \A q \in Place : (Gentle(q) /\ plist'[q] = plist[q]) \/ (q = p /\ Freed(q))
  BY <1>3, <1>4, SameEntryCalm, CalmIsGentle DEF Freed
<1>8. \A q \in Place : Freed(q) => q = p
  BY <1>4, FreeProcess DEF Freed, Dead
<1>9. \A w \in Place : Alive(w) => plist'[w].wait_pid = plist[w].wait_pid
  BY <1>4, <1>3, Entries
<1>10. ASSUME NEW q \in Place, Living(q), Waiting(q)'
       PROVE  /\ Waiting(q) /\ plist'[q].wait_pid = plist[q].wait_pid
              /\ plist[p].ppid # plist[q].pid
  <2>1. q # p
    BY <1>3, <1>10 DEF Living
  <2>2. Waiting(q) /\ plist'[q] = plist[q]
    BY <1>1, <1>4, <1>10, <2>1 DEF Waiting
  <2>3. q # cur
    BY <1>5, <2>2
  <2>. QED
    BY <1>3, <1>5, <1>10, <2>2, <2>3, OnePid, Entries DEF Living
<1>11. plist'[Kernel].resume = "halt"
  BY <1>1, <1>3, <1>4, KernelSleeps, Entries
<1>12. plist'[cur'].resume = "user"
  BY <1>1, <1>4, <1>5 DEF OInv, CurrentResumed, Resumes
<1>. QED
  BY <1>1, <1>6, <1>7, <1>8, <1>9, <1>10, <1>11, <1>12, FreedStep

\* A process that comes back to the second half of process_wait and was told
\* of a death has a dead child.
LEMMA WaitFinds ==
    ASSUME IInv, OInv, mode = "wait", ~ (plist[cur].wait_pid = -1 \/ plist[cur].wait_pid > 0)
    PROVE  Zombies(plist[cur].pid) # {}
<1>1. Running(cur) /\ Waiting(cur) /\ cur \in Place /\ plist[cur].wait_pid \in Int
  BY Entries DEF IInv, CurrentRuns, Resumes, Waiting
<1>2. Living(cur)
  BY <1>1 DEF Running, Ready, Living, Used, Dead
<1>3. WaitSound(cur)
  BY <1>1, <1>2 DEF OInv, WaitsForChild
<1>4. PICK z \in Place : /\ Child(z, cur)
                         /\ \/ plist[z].pid = plist[cur].wait_pid
                            \/ plist[cur].wait_pid <= 0 /\ Dead(z)
  BY <1>3 DEF WaitSound
<1>5. z # Kernel
  BY <1>3, <1>4 DEF IInv, Roles, WaitSound, Child
<1>6. plist[z].pid > 0
  BY <1>4, <1>5, Entries DEF Child
<1>7. Dead(z)
  BY <1>1, <1>4, <1>6
<1>. QED
  BY <1>4, <1>7 DEF Zombies, Child

\* The second half of process_wait never stops the machine.
LEMMA WaitReturnOrderly ==
    ASSUME IInv, OInv, WaitReturn
    PROVE  OInv'
<1>. DEFINE c == cur
            g == [plist EXCEPT ![c].wait_pid = 0, ![c].req = 0]
            zombies == Zombies(plist[c].pid)
<1>1. mode = "wait" /\ cur' = c
  BY DEF WaitReturn
<1>2. /\ mode' = "exit"
      /\ \/ plist' = g
         \/ \E p \in zombies : plist' = [g EXCEPT ![p] = Free]
  BY <1>1, WaitFinds DEF WaitReturn
<1>3. /\ c \in Place /\ plist \in [Place -> Processes] /\ Living(c)
      /\ plist[c].resume = "user"
  <2>1. Running(cur)
    BY <1>1 DEF IInv, CurrentRuns, Resumes
  <2>. QED
    BY <1>1, <2>1, Entries
       DEF Running, Ready, Living, Used, Dead, OInv, CurrentResumed, Resumes
<1>4. c # Kernel
  BY <1>1, <1>3 DEF OInv, Bystanders
<1>5. WaitSound(c)
  BY <1>1, <1>3 DEF OInv, WaitsForChild, Waiting
<1>. HIDE DEF c
<1>6. /\ DOMAIN g = Place
      /\ g[c].pid = plist[c].pid /\ g[c].ppid = plist[c].ppid
      /\ g[c].state = plist[c].state /\ g[c].wait_pid = 0
      /\ g[c].resume = "user"
      /\ \A q \in Place \ {c} : g[q] = plist[q]
  BY <1>3 DEF Processes
<1>7. g[c].dir = plist[c].dir /\ g[c].closed = plist[c].closed
  BY <1>3 DEF Processes
<1>. HIDE DEF g
<1>8. ASSUME NEW p \in zombies, plist' = [g EXCEPT ![p] = Free]
      PROVE  /\ p \in Place /\ Dead(p) /\ p # c /\ plist[p].ppid = plist[c].pid
             /\ plist'[p] = Free
             /\ \A q \in Place \ {p} : plist'[q] = g[q]
  BY <1>3, <1>6, <1>8 DEF Zombies, Living
\* Either nothing is freed, or one dead child is.
<1>9. /\ plist'[c] = g[c]
      /\ \A q \in Place \ {c} :
            \/ plist'[q] = plist[q]
            \/ Freed(q) /\ plist[q].ppid = plist[c].pid
  <2>1. CASE plist' = g
    BY <1>3, <1>6, <2>1
  <2>2. ASSUME NEW p \in zombies, plist' = [g EXCEPT ![p] = Free]
        PROVE  <1>9!:
    <3>1. /\ p \in Place /\ Dead(p) /\ p # c /\ plist[p].ppid = plist[c].pid
          /\ plist'[p] = Free
          /\ \A q \in Place \ {p} : plist'[q] = g[q]
      BY <1>8, <2>2
    <3>. QED
      BY <1>3, <1>6, <3>1 DEF Freed
  <2>. QED
    BY <1>2, <2>1, <2>2
<1>10. IInv'
  BY WaitReturnInv
<1>11. Calm(c)
  BY <1>1, <1>6, <1>7, <1>9 DEF Calm, Alive, Dead, Used, c
<1>12. \A q \in Place : Gentle(q) \/ Freed(q)
  BY <1>9, <1>11, SameEntryCalm, CalmIsGentle
<1>13. \A q \in Place : Living(q) => ~ Freed(q)
  BY DEF Living, Freed
<1>14. \A q \in Place : Freed(q) => plist[q].ppid = plist[c].pid
  <2>. SUFFICES ASSUME NEW q \in Place, Freed(q), plist'[q] = plist[q] PROVE FALSE
    BY <1>3, <1>9, <1>13
  <2>. QED
    BY FreeProcess DEF Freed, Dead
<1>15. \A w \in Place : Alive(w) =>
          plist'[w].wait_pid = plist[w].wait_pid \/ plist'[w].wait_pid = 0
  BY <1>6, <1>9, Entries DEF Freed
<1>16. ASSUME NEW q \in Place, Living(q), Waiting(q)'
       PROVE  /\ Waiting(q) /\ plist'[q].wait_pid = plist[q].wait_pid
              /\ \A z \in Place : Freed(z) => plist[z].ppid # plist[q].pid
  <2>1. plist'[q].resume = "wait"
    BY <1>2, <1>16 DEF Waiting
  <2>2. q # c
    BY <1>6, <1>9, <2>1
  <2>3. plist'[q] = plist[q]
    BY <1>9, <1>13, <1>16, <2>2
  <2>4. plist[q].pid # plist[c].pid
    BY <1>3, <1>16, <2>2, OnePid DEF Living
  <2>. QED
    BY <1>14, <2>1, <2>3, <2>4 DEF Waiting
<1>17. plist'[Kernel].resume = "halt"
  <2>1. Living(Kernel) /\ plist[Kernel].resume = "halt"
    BY <1>1, KernelSleeps, Entries DEF IInv, Roles, Living
  <2>. QED
    BY <1>4, <1>9, <1>13, <2>1, Entries
<1>18. plist'[cur'].resume = "user"
  BY <1>1, <1>6, <1>9
<1>. QED
  BY <1>1, <1>2, <1>10, <1>12, <1>15, <1>16, <1>17, <1>18, FreedStep

\* kernel_main collects the default program, a child of the kernel.
LEMMA KernelReturnOrderly ==
    ASSUME IInv, OInv, KernelReturn
    PROVE  OInv'
<1>1. /\ mode = "halt" /\ mode' = "halted" /\ cur' = cur
      /\ \A p \in Place : \/ plist'[p] = plist[p]
                          \/ Freed(p) /\ plist[p].ppid = 0
  BY DEF KernelReturn, Freed
<1>2. \A q \in Place : Gentle(q) \/ Freed(q)
  BY <1>1, SameEntryCalm, CalmIsGentle
<1>3. \A q \in Place : Living(q) => plist'[q] = plist[q]
  BY <1>1 DEF Living, Freed
<1>4. \A z \in Place : Freed(z) => plist[z].ppid = 0
  <2>. SUFFICES ASSUME NEW q \in Place, Freed(q), plist'[q] = plist[q] PROVE FALSE
    BY <1>1
  <2>. QED
    BY FreeProcess DEF Freed, Dead
<1>5. \A q \in Place : Living(q) /\ Waiting(q)' => Waiting(q)
  BY <1>1, <1>3 DEF Waiting
<1>6. \A q \in Place : Alive(q) => Living(q)
  BY Entries DEF Living
<1>7. \/ plist'[Kernel].resume = "halt"
      \/ cur' = Kernel /\ mode' \in {"halt", "halted"}
  <2>1. Living(Kernel)
    BY Entries DEF IInv, Roles, Living
  <2>. QED
    BY <1>1, <1>3, <2>1, Entries DEF OInv, Bystanders
<1>8. IInv'
  BY KernelReturnInv
<1>. QED
  BY <1>1, <1>2, <1>3, <1>4, <1>5, <1>6, <1>7, <1>8, FreedStep DEF Resumes

\* A new process has a parent that lives, the running one.
LEMMA CreateOrderly ==
    ASSUME IInv, OInv, Create
    PROVE  OInv'
<1>. DEFINE n == nextpid + 1
            pp == plist[cur].pid
<1>1. mode = "user" /\ mode' = "exit" /\ cur' = cur /\ cur # Idle /\ kills' = kills
  BY DEF Create, InUser
<1>2. PICK p \in Place : ~ Used(p) /\ plist' = [plist EXCEPT ![p] = Born(n, pp)]
  BY DEF Create, IsFreePlace, FreePlaces
<1>3. plist'[p] = Born(n, pp) /\ \A q \in Place \ {p} : plist'[q] = plist[q]
  BY <1>2, Entries
<1>4. Alive(cur) /\ ~ Waiting(cur) /\ cur \in Place /\ cur # p /\ pp # 1 /\ pp # 0
  BY <1>1, <1>2, UserCurrent, Entries
<1>5. n \in Nat /\ pp \in Nat
  BY Entries DEF IInv, TypeOK
<1>. HIDE DEF n, pp
<1>6. /\ plist'[p].state = "SLP" /\ plist'[p].ppid = pp /\ plist'[p].wait_pid = 0
      /\ plist'[p].resume = "exit"
  BY <1>3 DEF Born, Free
<1>7. \A z, w : ~ Pending(z, w) /\ ~ OnStack(z)
  BY <1>1, NobodyKilled
<1>8. IInv'
  BY CreateInv
<1>9. Tree'
  <2>. SUFFICES ASSUME NEW q \in Place, Held(q)'
                PROVE  /\ Dead(q)' => plist'[q].ppid # 0
                       /\ \E a \in Place : /\ plist'[a].pid = plist'[q].ppid
                                           /\ Alive(a)'
    BY DEF Tree
  <2>1. CASE q = p
    <3>1. Alive(cur)'
      BY <1>1, <1>3, <1>4 DEF Alive
    <3>2. plist'[cur].pid = pp
      BY <1>3, <1>4 DEF pp
    <3>. QED
      BY <1>1, <1>4, <1>6, <2>1, <3>1, <3>2 DEF Dead
  <2>2. CASE q # p
    <3>1. Held(q) /\ plist'[q] = plist[q]
      BY <1>3, <2>2 DEF Held, Alive, Dead
    <3>2. PICK a \in Place : plist[a].pid = plist[q].ppid /\ Alive(a)
      BY <1>7, <3>1 DEF OInv, Tree
    <3>3. a # p
      BY <1>2, <3>2, Entries
    <3>. QED
      BY <1>3, <3>1, <3>2, <3>3 DEF OInv, Tree, Alive, Dead
  <2>. QED
    BY <2>1, <2>2
<1>10. Announced'
  BY <1>3, <1>6, <1>7 DEF OInv, Announced, Dead
<1>11. WaitersTold'
  <2>. SUFFICES ASSUME NEW z \in Place, NEW w \in Place, Dead(z)', Alive(w)', Awaits(w, z)'
                PROVE  FALSE
    BY DEF WaitersTold
  <2>1. z # p
    BY <1>6 DEF Dead
  <2>2. Dead(z) /\ plist'[z] = plist[z] /\ plist[z].pid # 0
    BY <1>3, <2>1, Entries DEF Dead
  <2>3. w # p
    BY <1>6, <2>2 DEF Awaits
  <2>4. Alive(w) /\ Awaits(w, z)
    BY <1>3, <2>2, <2>3 DEF Alive, Awaits
  <2>. QED
    BY <1>7, <2>2, <2>4 DEF OInv, WaitersTold
<1>12. WaitsForChild'
  <2>. SUFFICES ASSUME NEW q \in Place, Living(q)', Waiting(q)'
                PROVE  WaitSound(q)'
    BY DEF WaitsForChild
  <2>1. plist'[q].resume = "wait"
    BY <1>1 DEF Waiting
  <2>2. plist'[q] = plist[q]
    BY <1>3, <1>6, <2>1
  <2>3. WaitSound(q)
    BY <2>1, <2>2 DEF OInv, WaitsForChild, Waiting, Living, Used, Dead
  <2>4. \A z \in Place : Child(z, q) => plist'[z] = plist[z]
    BY <1>2, <1>3 DEF Child
  <2>. QED
    BY <2>2, <2>3, <2>4 DEF WaitSound, Child, Used, Dead
<1>13. Bystanders'
  <2>1. Idle # p /\ Kernel # p
    BY <1>2, Entries DEF IInv, Roles, Used, Alive
  <2>2. plist[Kernel].resume = "halt"
    BY <1>1, KernelSleeps
  <2>3. \A q \in Place : Used(q)' => plist'[q].ppid # 1
    BY <1>3, <1>4, <1>6 DEF OInv, Bystanders, Used
  <2>. QED
    BY <1>3, <2>1, <2>2, <2>3, Entries DEF OInv, Bystanders
<1>14. CurrentResumed' /\ CurrentSpared' /\ NoWaitFatal'
  <2>1. plist'[cur].resume = "user"
    BY <1>1, <1>3, <1>4 DEF OInv, CurrentResumed, Resumes
  <2>. QED
    BY <1>1, <2>1 DEF CurrentResumed, CurrentSpared, NoWaitFatal
<1>. QED
  BY <1>9, <1>10, <1>11, <1>12, <1>13, <1>14 DEF OInv

\* i_clean_killed frees the entry of a dead process only if no process that
\* lives is its parent, the kernel aside.
LEMMA UnclaimedOrphan ==
    ASSUME IInv, NEW z \in Place, Unclaimed(z), NEW p \in Place, Living(p),
           plist[z].ppid = plist[p].pid
    PROVE  plist[p].pid = 0
BY DEF Unclaimed, Living

\* i_clean_killed keeps the entry of a dead process for a living parent.
LEMMA ClaimedHeld ==
    ASSUME IInv, OInv, NEW z \in Place, Dead(z), ~ Unclaimed(z)
    PROVE  /\ plist[z].ppid # 0
           /\ \E q \in Place : Alive(q) /\ plist[q].pid = plist[z].ppid
<1>1. PICK q \in Place : Used(q) /\ ~ Dead(q) /\ plist[q].pid = plist[z].ppid
  BY DEF Unclaimed
<1>2. q # Idle
  BY <1>1, Entries DEF OInv, Bystanders
<1>. QED
  BY <1>1, <1>2, Entries DEF Unclaimed

\* The first half of schedule(): what becomes of an entry.
LEMMA SchedWakeFields ==
    ASSUME IInv, OInv, SchedWake, NEW p \in Place
    PROVE  \/ /\ Gentle(p)
              /\ plist'[p].wait_pid = plist[p].wait_pid
              /\ plist'[p].resume = plist[p].resume
           \/ Freed(p) /\ Unclaimed(p)
<1>1. plist[p] \in Processes
  BY Entries
<1>2. plist'[p] = CASE p \in Due -> [plist[p] EXCEPT !.state = "INQ"]
                    [] clean /\ Reclaimable(p) -> Cleaned(p)
                    [] OTHER -> plist[p]
  BY DEF SchedWake
<1>3. p \in Due => plist[p].state = "SLP" /\ ~ Reclaimable(p)
  BY DEF Due, IInv, TsleepConsistent, Reclaimable, Dead
<1>4. CASE p \in Due
  <2>1. plist'[p] = [plist[p] EXCEPT !.state = "INQ"]
    BY <1>2, <1>3, <1>4
  <2>2. /\ plist'[p].state = "INQ" /\ plist'[p].pid = plist[p].pid
        /\ plist'[p].ppid = plist[p].ppid /\ plist'[p].wait_pid = plist[p].wait_pid
        /\ plist'[p].resume = plist[p].resume
    BY <1>1, <2>1 DEF Processes
  <2>3. plist'[p].dir = plist[p].dir /\ plist'[p].closed = plist[p].closed
    BY <1>1, <2>1 DEF Processes
  <2>. QED
    BY <1>3, <1>4, <2>2, <2>3 DEF Gentle, Alive, Dead, Used
<1>5. CASE p \notin Due /\ clean /\ Reclaimable(p)
  <2>1. plist'[p] = Cleaned(p) /\ Dead(p)
    BY <1>2, <1>5 DEF Reclaimable
  <2>2. CASE Unclaimed(p)
    BY <2>1, <2>2 DEF Cleaned, Freed
  <2>3. CASE ~ Unclaimed(p)
    <3>1. plist'[p] = [plist[p] EXCEPT !.dir = FALSE]
      BY <2>1, <2>3 DEF Cleaned
    <3>2. /\ plist'[p].state = plist[p].state /\ plist'[p].pid = plist[p].pid
          /\ plist'[p].ppid = plist[p].ppid /\ plist'[p].wait_pid = plist[p].wait_pid
          /\ plist'[p].resume = plist[p].resume
      BY <1>1, <3>1 DEF Processes
    <3>3. plist'[p].closed = plist[p].closed
      BY <1>1, <3>1 DEF Processes
    <3>4. /\ plist[p].ppid # 0
          /\ \E q \in Place : Alive(q) /\ plist[q].pid = plist[p].ppid
      BY <2>1, <2>3, ClaimedHeld
    <3>. QED
      BY <2>1, <3>2, <3>3, <3>4 DEF Gentle, Alive, Dead, Used
  <2>. QED
    BY <2>2, <2>3
<1>6. CASE p \notin Due /\ ~ (clean /\ Reclaimable(p))
  <2>1. plist'[p] = plist[p]
    BY <1>2, <1>6
  <2>. QED
    BY <2>1, SameEntryCalm, CalmIsGentle
<1>. QED
  BY <1>4, <1>5, <1>6

\* i_tsleep_awake and i_clean_killed take no exit code from who may ask for it.
LEMMA SchedWakeOrderly ==
    ASSUME IInv, OInv, SchedWake
    PROVE  OInv'
<1>1. IInv'
  BY SchedWakeInv
<1>2. mode = "sched" /\ mode' = "pick" /\ cur' = cur
  BY <1>1 DEF SchedWake, IInv, NoSchedulerFatal
<1>3. \A p \in Place : \/ /\ Gentle(p)
                          /\ plist'[p].wait_pid = plist[p].wait_pid
                          /\ plist'[p].resume = plist[p].resume
                       \/ Freed(p) /\ Unclaimed(p)
  BY SchedWakeFields
<1>4. \A p \in Place : Freed(p) => ~ Gentle(p) /\ ~ Living(p)
  BY FreeProcess DEF Freed, Gentle, Used, Dead, Living
<1>5. \A p \in Place : Living(p) =>
         plist'[p].wait_pid = plist[p].wait_pid /\ plist'[p].resume = plist[p].resume
  BY <1>3, <1>4
<1>6. \A p \in Place : Alive(p) => Living(p)
  BY Entries DEF Living
<1>7. ASSUME NEW p \in Place, Living(p), Waiting(p)'
      PROVE  /\ Waiting(p) /\ plist'[p].wait_pid = plist[p].wait_pid
             /\ \A z \in Place : Freed(z) /\ plist[z].ppid = plist[p].pid =>
                                    plist[p].pid = 0
  <2>1. Waiting(p) /\ plist'[p].wait_pid = plist[p].wait_pid
    BY <1>2, <1>5, <1>7 DEF Waiting
  <2>2. \A z \in Place : Freed(z) => Unclaimed(z)
    BY <1>3, <1>4
  <2>. QED
    BY <1>7, <2>1, <2>2, UnclaimedOrphan
<1>8. plist'[Kernel].resume = "halt"
  BY <1>2, <1>5, KernelSleeps, Entries DEF IInv, Roles, Living
<1>. QED
  BY <1>1, <1>2, <1>3, <1>5, <1>6, <1>7, <1>8, FreedStep DEF Resumes

\* PROC_INFO_SET_PPID on a child that lives: the kernel takes it over, and its
\* parent, being the caller, is not inside process_wait.
LEMMA ReparentOrderly ==
    ASSUME IInv, OInv, Misuse = {}, NEW p \in Place, Reparent(p)
    PROVE  OInv'
<1>1. /\ mode = "user" /\ mode' = "exit" /\ cur' = cur /\ cur # Idle
      /\ Used(p) /\ ~ Dead(p) /\ plist[p].ppid = plist[cur].pid
      /\ plist' = [plist EXCEPT ![p].ppid = 0]
  BY DEF Reparent, InUser, IsChild
<1>2. Alive(cur) /\ ~ Waiting(cur) /\ plist[cur].pid # 0
  BY <1>1, UserCurrent
<1>3. plist \in [Place -> Processes] /\ cur \in Place
  BY Entries
<1>4. /\ plist'[p].ppid = 0
      /\ \A q \in Place : /\ q # p => plist'[q] = plist[q]
                          /\ plist'[q].pid = plist[q].pid
                          /\ plist'[q].state = plist[q].state
                          /\ plist'[q].wait_pid = plist[q].wait_pid
                          /\ plist'[q].resume = plist[q].resume
  BY <1>1, <1>3 DEF Processes
<1>5. \A q \in Place : plist'[q].dir = plist[q].dir /\ plist'[q].closed = plist[q].closed
  BY <1>1, <1>3 DEF Processes
<1>6. \A q \in Place : /\ Alive(q)' <=> Alive(q)
                       /\ Dead(q)' <=> Dead(q)
                       /\ Used(q)' <=> Used(q)
  BY <1>4 DEF Alive, Dead, Used
<1>7. \A z, w : ~ Pending(z, w) /\ ~ OnStack(z)
  BY <1>1, NobodyKilled
<1>8. IInv'
  BY ReparentInv
<1>9. \A q \in Place : Dead(q) => q # p
  BY <1>1
<1>10. Tree'
  <2>. SUFFICES ASSUME NEW q \in Place, Held(q)'
                PROVE  /\ Dead(q)' => plist'[q].ppid # 0
                       /\ \E a \in Place : /\ plist'[a].pid = plist'[q].ppid
                                           /\ Alive(a)'
    BY DEF Tree
  <2>1. Held(q)
    BY <1>5, <1>6 DEF Held
  <2>2. Dead(q)' => plist'[q].ppid # 0
    BY <1>4, <1>6, <1>9, <2>1 DEF OInv, Tree
  <2>3. CASE q = p
    <3>1. Alive(Kernel)' /\ plist'[Kernel].pid = 0
      BY <1>4, <1>6, Entries DEF IInv, Roles
    <3>. QED
      BY <1>4, <2>2, <2>3, <3>1, Entries
  <2>4. CASE q # p
    <3>1. PICK a \in Place : plist[a].pid = plist[q].ppid /\ Alive(a)
      BY <1>7, <2>1 DEF OInv, Tree
    <3>. QED
      BY <1>4, <1>6, <2>2, <2>4, <3>1
  <2>. QED
    BY <2>3, <2>4
<1>11. Announced'
  BY <1>5, <1>6, <1>7 DEF OInv, Announced
<1>12. WaitersTold'
  <2>. SUFFICES ASSUME NEW z \in Place, NEW w \in Place, Dead(z)', Alive(w)', Awaits(w, z)'
                PROVE  FALSE
    BY DEF WaitersTold
  <2>1. Dead(z) /\ Alive(w)
    BY <1>6
  <2>2. Awaits(w, z)
    BY <1>4, <1>9, <2>1 DEF Awaits
  <2>. QED
    BY <1>7, <2>1, <2>2 DEF OInv, WaitersTold
<1>13. WaitsForChild'
  <2>. SUFFICES ASSUME NEW q \in Place, Living(q)', Waiting(q)'
                PROVE  WaitSound(q)'
    BY DEF WaitsForChild
  <2>1. Living(q) /\ Waiting(q)
    BY <1>1, <1>4, <1>6 DEF Living, Waiting
  <2>2. WaitSound(q)
    BY <2>1 DEF OInv, WaitsForChild
  <2>3. plist[q].pid # plist[cur].pid
    BY <1>2, <1>3, <2>1, OnePid, Entries DEF Living
  <2>4. \A z \in Place : Child(z, q) => z # p
    BY <1>1, <2>3 DEF Child
  <2>. QED
    BY <1>4, <1>6, <2>2, <2>4 DEF WaitSound, Child
<1>14. Bystanders'
  <2>1. p # Idle
    BY <1>1, <1>2 DEF OInv, Bystanders
  <2>2. plist[Kernel].resume = "halt"
    BY <1>1, KernelSleeps
  <2>3. \A q \in Place : Used(q)' => plist'[q].ppid # 1
    BY <1>4, <1>6 DEF OInv, Bystanders
  <2>. QED
    BY <1>4, <2>1, <2>2, <2>3, Entries DEF OInv, Bystanders
<1>15. CurrentResumed' /\ CurrentSpared' /\ NoWaitFatal'
  <2>1. plist'[cur].resume = "user"
    BY <1>1, <1>3, <1>4 DEF OInv, CurrentResumed, Resumes
  <2>. QED
    BY <1>1, <2>1 DEF CurrentResumed, CurrentSpared, NoWaitFatal
<1>. QED
  BY <1>10, <1>11, <1>12, <1>13, <1>14, <1>15 DEF OInv

-----------------------------------------------------------------------------
(* The loop of process_kill                                                *)

\* The scan loop still has something to do at w, unless it is past it.
Owed(w) == w # Top.place /\ (Notified(w) \/ IsChild(w, Dying.pid))

\* What an iteration does to the entry it is at: notify it, free it, or kill it.
IsNotified(i) ==
    /\ Calm(i) /\ plist'[i].resume = plist[i].resume
    /\ ~ IsChild(i, Dying.pid)
    /\ plist'[i].wait_pid <= 0 /\ plist'[i].wait_pid # -1
    /\ Living(i) /\ Waiting(i) => WaitSound(i)'

IsReaped(i) == Freed(i) /\ IsChild(i, Dying.pid) /\ ~ OnStack(i)

IsKilled(i) ==
    /\ Alive(i) /\ Dead(i)' /\ plist'[i].dir
    /\ plist'[i].pid = plist[i].pid /\ plist'[i].ppid = plist[i].ppid
    /\ plist'[i].resume = plist[i].resume
    /\ OnStack(i)' /\ \A w \in Place : Pending(i, w)'

\* The process being killed is neither the kernel nor the idle process, and so
\* are its children.
LEMMA DyingFacts ==
    ASSUME IInv, OInv, mode = "kill"
    PROVE  /\ Top.place \in Place /\ Dead(Top.place) /\ Used(Top.place)
           /\ Dying.pid \in Nat /\ Dying.pid >= 2
           /\ plist[Kernel].resume = "halt"
           /\ \A i \in Place : IsChild(i, Dying.pid) => i # Kernel /\ i # Idle
           /\ \A i \in Place : IsChild(i, Dying.pid) => i # Top.place
<1>1. /\ Top.place \in Place /\ Dead(Top.place) /\ Used(Top.place)
      /\ Dying.pid \in Nat /\ Dying.pid # 0
  BY ScanFacts, Entries
<1>2. Used(Idle) /\ Top.place # Idle /\ plist[Idle].pid = 1 /\ plist[Idle].ppid = 0
  BY <1>1, Entries DEF OInv, Bystanders, IInv, Roles, Used
<1>3. Dying.pid # 1
  BY <1>1, <1>2, OnePid, Entries DEF Dying
<1>4. plist[Kernel].resume = "halt"
  BY KernelSleeps
<1>5. \A i \in Place : IsChild(i, Dying.pid) => i # Kernel /\ i # Idle
  BY <1>1, <1>2 DEF IsChild, IInv, Roles
<1>6. \A i \in Place : IsChild(i, Dying.pid) => i # Top.place
  BY <1>5, Entries DEF IsChild, IInv, PidOrder, Dying
<1>. QED
  BY <1>1, <1>3, <1>4, <1>5, <1>6

\* An iteration of the loop of process_kill keeps OInv: it does at i what was
\* owed to i, and it passes over nobody else to whom something is owed.
LEMMA ScanOrderly ==
    ASSUME IInv, OInv, mode = "kill", mode' = "kill", cur' = cur,
           NEW i \in Place, \A q \in Place \ {i} : plist'[q] = plist[q],
           \A z, w \in Place : Pending(z, w) =>
              Pending(z, w)' \/ (z = Top.place /\ (Owed(w) => w = i)),
           \A z \in Place : OnStack(z) => OnStack(z)',
           kills'[1].place = kills[1].place,
           \/ IsNotified(i)
           \/ IsReaped(i)
           \/ IsKilled(i) /\ IsChild(i, Dying.pid)
    PROVE  OInv'
<1>. DEFINE t == Top.place
            d == Dying.pid
<1>1. /\ t \in Place /\ Dead(t) /\ Used(t) /\ d \in Nat /\ d >= 2 /\ plist[t].pid = d
      /\ plist[Kernel].resume = "halt"
      /\ \A q \in Place : IsChild(q, d) => q # Kernel /\ q # Idle /\ q # t
  BY DyingFacts DEF Dying
<1>2. ASSUME NEW q \in Place
      PROVE  /\ \/ plist'[q] = plist[q]
                \/ q = i /\ (IsNotified(q) \/ IsReaped(q) \/ IsKilled(q))
             /\ q = i => IsNotified(q) \/ IsChild(q, d)
  BY DEF IsReaped
<1>. HIDE DEF t, d
<1>3. ASSUME NEW q \in Place, Used(q)'
      PROVE  /\ Used(q) /\ plist'[q].pid = plist[q].pid /\ plist'[q].ppid = plist[q].ppid
             /\ plist'[q].resume = plist[q].resume
  BY <1>2, <1>3, FreeProcess, Entries
     DEF IsNotified, IsReaped, IsKilled, Calm, Freed, Used
<1>4. \A q \in Place : Alive(q)' => Alive(q) /\ Used(q)'
  BY <1>2, FreeProcess DEF IsNotified, IsReaped, IsKilled, Calm, Freed, Alive, Dead, Used
<1>5. \A q \in Place : Dead(q)' =>
         /\ Used(q)'
         /\ \/ Dead(q) /\ plist'[q].dir = plist[q].dir /\ plist'[q].closed = plist[q].closed
            \/ IsKilled(q)
  BY <1>2, FreeProcess DEF IsNotified, IsReaped, Calm, Freed, Dead, Used
<1>6. \A q \in Place : Alive(q) => Alive(q)' \/ IsKilled(q)
  BY <1>2, Entries DEF IsNotified, IsReaped, Calm, Freed, Alive
<1>7. \A q \in Place : Used(q) => Used(q)' \/ IsReaped(q)
  BY <1>2 DEF IsNotified, IsKilled, Calm, Used, Dead
<1>8. \A q \in Place : Dead(q) => Dead(q)' \/ IsReaped(q)
  BY <1>2 DEF IsNotified, IsKilled, Calm, Dead
<1>9. Tree'
  <2>. SUFFICES ASSUME NEW p \in Place, Held(p)'
                PROVE  /\ Dead(p)' => plist'[p].ppid # 0
                       /\ \E q \in Place : /\ plist'[q].pid = plist'[p].ppid
                                           /\ Alive(q)' \/ (Used(q)' /\ Pending(q, p)')
    BY DEF Tree
  <2>1. /\ Held(p) /\ Used(p)' /\ Used(p) /\ ~ IsKilled(p) /\ ~ IsReaped(p)
        /\ Dead(p)' => Dead(p)
    <3>1. ~ IsKilled(p)
      BY <1>1, Entries DEF Held, IsKilled, Alive, Dead
    <3>2. Held(p) /\ Used(p)' /\ (Dead(p)' => Dead(p))
      BY <1>4, <1>5, <3>1 DEF Held
    <3>3. ~ IsReaped(p)
      BY <3>2, FreeProcess DEF IsReaped, Freed, Used
    <3>. QED
      BY <1>3, <3>1, <3>2, <3>3
  <2>2. p = i => ~ IsChild(p, d)
    BY <2>1 DEF IsNotified, d
  <2>3. plist'[p].ppid = plist[p].ppid
    BY <1>3, <2>1
  <2>4. Dead(p)' => plist'[p].ppid # 0
    BY <2>1, <2>3 DEF OInv, Tree
  <2>5. PICK q \in Place : /\ plist[q].pid = plist[p].ppid
                           /\ Alive(q) \/ (Used(q) /\ Pending(q, p))
    BY <2>1 DEF OInv, Tree
  <2>6. CASE Alive(q)
    <3>1. Alive(q)' \/ (Used(q)' /\ Pending(q, p)')
      BY <1>5, <1>6, <2>6 DEF IsKilled
    <3>2. Used(q)'
      BY <1>4, <3>1
    <3>. QED
      BY <1>3, <2>3, <2>4, <2>5, <3>1, <3>2
  <2>7. CASE Used(q) /\ Pending(q, p)
    <3>1. ~ IsReaped(q)
      BY <2>7 DEF IsReaped, OnStack, Pending
    <3>2. Used(q)'
      BY <1>7, <2>7, <3>1
    <3>3. Pending(q, p)'
      <4>. SUFFICES ASSUME ~ Pending(q, p)' PROVE FALSE
        OBVIOUS
      <4>1. q = t /\ (Owed(p) => p = i)
        BY <2>7 DEF t
      <4>2. IsChild(p, d)
        BY <1>1, <2>1, <2>5, <4>1 DEF IsChild
      <4>3. Owed(p)
        BY <1>1, <4>2 DEF Owed, t, d
      <4>. QED
        BY <2>2, <4>1, <4>2, <4>3
    <3>. QED
      BY <1>3, <2>3, <2>4, <2>5, <3>2, <3>3
  <2>. QED
    BY <2>5, <2>6, <2>7
<1>10. Announced'
  BY <1>5 DEF OInv, Announced, IsKilled
<1>11. WaitersTold'
  <2>. SUFFICES ASSUME NEW z \in Place, NEW w \in Place, Dead(z)', Alive(w)', Awaits(w, z)',
                       ~ Pending(z, w)'
                PROVE  FALSE
    BY DEF WaitersTold
  <2>1. Dead(z) /\ Used(z)' /\ Alive(w) /\ Used(w)'
    BY <1>4, <1>5 DEF IsKilled
  <2>2. /\ plist'[z].pid = plist[z].pid /\ plist'[z].ppid = plist[z].ppid
        /\ plist'[w].pid = plist[w].pid /\ plist[z].pid \in Nat /\ plist[z].pid # 0
    BY <1>3, <2>1, Entries
  <2>3. w # i
    <3>. SUFFICES ASSUME w = i PROVE FALSE
      OBVIOUS
    <3>1. IsNotified(w) \/ IsReaped(w) \/ IsKilled(w)
      OBVIOUS
    <3>2. IsNotified(w)
      BY <2>1, <3>1, FreeProcess DEF IsReaped, IsKilled, Freed, Used, Alive, Dead
    <3>3. plist'[w].wait_pid <= 0 /\ plist'[w].wait_pid # -1
      BY <3>2 DEF IsNotified
    <3>. QED
      BY <2>2, <3>3 DEF Awaits
  <2>4. Awaits(w, z)
    BY <2>2, <2>3 DEF Awaits
  <2>5. Pending(z, w)
    BY <2>1, <2>4 DEF OInv, WaitersTold
  <2>6. z = t /\ (Owed(w) => w = i)
    BY <2>5 DEF t
  <2>7. Owed(w)
    BY <1>1, <2>1, <2>4, <2>6, Entries DEF Owed, Awaits, Notified, Dying, t
  <2>. QED
    BY <2>3, <2>6, <2>7
<1>12. WaitsForChild'
  <2>. SUFFICES ASSUME NEW p \in Place, Living(p)', Waiting(p)'
                PROVE  WaitSound(p)'
    BY DEF WaitsForChild
  <2>1. Used(p)'
    BY DEF Living
  <2>2. plist'[p].resume = "wait" /\ Waiting(p)
    BY <1>3, <2>1 DEF Waiting
  <2>3. Living(p)
    BY <1>3, <1>8, <2>1, FreeProcess DEF Living, IsReaped, Freed, Used
  <2>4. CASE p = i
    <3>1. IsNotified(p)
      BY <2>1, <2>4, FreeProcess DEF IsReaped, IsKilled, Freed, Used, Living
    <3>. QED
      BY <2>2, <2>3, <3>1 DEF IsNotified
  <2>5. CASE p # i
    <3>1. plist'[p] = plist[p]
      BY <2>5
    <3>2. WaitSound(p)
      BY <2>2, <2>3 DEF OInv, WaitsForChild
    <3>3. plist[p].pid # d
      BY <1>1, <2>3, OnePid DEF Living
    <3>4. ASSUME NEW z \in Place, Child(z, p)
          PROVE  Child(z, p)' /\ plist'[z].pid = plist[z].pid /\ (Dead(z) => Dead(z)')
      <4>1. ~ IsReaped(z)
        BY <3>3, <3>4 DEF IsReaped, IsChild, Child, d
      <4>2. Used(z)' /\ (Dead(z) => Dead(z)')
        BY <1>7, <1>8, <3>4, <4>1 DEF Child
      <4>. QED
        BY <1>3, <3>1, <3>4, <4>2 DEF Child
    <3>. QED
      BY <3>1, <3>2, <3>4 DEF WaitSound
  <2>. QED
    BY <2>4, <2>5
<1>13. Bystanders'
  <2>1. Used(Idle)' /\ Used(Kernel)'
    BY <1>1, <1>7, Entries DEF IInv, Roles, Used, Alive, IsReaped, d
  <2>. QED
    BY <1>1, <1>3, <2>1, Entries DEF OInv, Bystanders
<1>14. CurrentSpared'
  <2>1. CASE kills[1].place = cur
    BY <2>1 DEF CurrentSpared
  <2>2. ASSUME NEW S \in SUBSET Place, Lineage(S)
        PROVE  Lineage(S)'
    <3>1. \A c \in S : Living(c) /\ ~ IsReaped(c)
      BY <2>2 DEF Lineage, Living, IsReaped, Freed
    <3>2. ~ (i \in S /\ IsChild(i, d))
      <4>1. IsChild(i, d) /\ i \in S => t \in S
        BY <1>1, <2>2 DEF IsChild, Lineage
      <4>. QED
        BY <1>1, <2>2, <4>1 DEF Lineage
    <3>3. \A c \in S : Used(c)' /\ ~ Dead(c)'
      <4>. SUFFICES ASSUME NEW c \in S PROVE Used(c)' /\ ~ Dead(c)'
        OBVIOUS
      <4>1. c \in Place /\ Used(c)'
        BY <1>7, <3>1 DEF Living
      <4>2. ~ Dead(c)'
        BY <1>2, <3>1, <3>2, <4>1 DEF IsNotified, Calm, Living, Dead, IsKilled, IsReaped
      <4>. QED
        BY <4>1, <4>2
    <3>4. \A c \in S, q \in Place : Used(q)' /\ plist'[q].pid = plist'[c].ppid => q \in S
      BY <1>3, <2>2, <3>3 DEF Lineage
    <3>. QED
      BY <2>2, <3>3, <3>4 DEF Lineage
  <2>. QED
    BY <2>1, <2>2 DEF OInv, CurrentSpared
<1>15. CurrentResumed' /\ NoWaitFatal'
  <2>1. Dead(cur) => OnStack(cur)
    BY DEF IInv, CurrentRuns, Running, Ready, Dead, OnStack
  <2>2. ~ IsReaped(cur) /\ Used(cur)
    BY <2>1 DEF IsReaped, Freed, IInv, CurrentRuns
  <2>3. plist'[cur].resume = plist[cur].resume
    BY <1>3, <1>7, <2>2, Entries DEF Used
  <2>4. plist[cur].resume = "user"
    BY DEF OInv, CurrentResumed
  <2>. QED
    BY <2>3, <2>4 DEF CurrentResumed, NoWaitFatal
<1>. QED
  BY <1>9, <1>10, <1>11, <1>12, <1>13, <1>14, <1>15 DEF OInv

\* The scan moves past i, and a child that lives gets an activation of its own.
LEMMA ScanPending ==
    ASSUME IInv, NEW i \in Place, Scan(i),
           \/ kills' = Advanced(i)
           \/ kills' = Append(Advanced(i), Frame(i))
    PROVE  /\ \A z, w \in Place : Pending(z, w) =>
                 Pending(z, w)' \/ (z = Top.place /\ (Owed(w) => w = i))
           /\ \A z \in Place : OnStack(z) => OnStack(z)'
           /\ kills'[1].place = kills[1].place
           /\ kills' = Append(Advanced(i), Frame(i)) =>
                 OnStack(i)' /\ \A w \in Place : Pending(i, w)'
<1>. DEFINE n == Len(kills)
            K == Advanced(i)
<1>1. /\ kills \in Seq(Frames) /\ kills # <<>> /\ n \in Nat /\ n >= 1
  BY ScanFacts DEF Scan
<1>2. \A j \in 1 .. n : /\ kills[j] \in Frames /\ kills[j].place \in Place
                        /\ kills[j].i \in Nat
  <2>1. \A j \in 1 .. n : kills[j] \in Frames
    BY <1>1
  <2>2. \A f \in Frames : f.place \in Place /\ f.i \in Nat
    BY DEF Frames
  <2>. QED
    BY <2>1, <2>2
<1>3. i \in Nat
  BY DEF Place
<1>4. /\ K \in Seq(Frames) /\ Len(K) = n
      /\ \A j \in 1 .. n : K[j].place = kills[j].place
      /\ K[n].i = i + 1
      /\ \A j \in 1 .. n : j # n => K[j] = kills[j]
  <2>1. Advanced(i) \in Seq(Frames) /\ Len(Advanced(i)) = Len(kills)
        /\ \A j \in 1 .. Len(kills) : Advanced(i)[j].place = kills[j].place
    BY <1>1, ScanMoves
  <2>2. Advanced(i)[n].i = i + 1
        /\ \A j \in 1 .. n : j # n => Advanced(i)[j] = kills[j]
    <3>. HIDE DEF n
    <3>1. Advanced(i) = [kills EXCEPT ![n] = [kills[n] EXCEPT !.i = i + 1]]
      BY DEF Advanced, n
    <3>2. n \in DOMAIN kills /\ DOMAIN kills = 1 .. n
      BY <1>1 DEF n
    <3>3. kills[n] \in Frames
      BY <1>2, <3>2
    <3>4. [kills[n] EXCEPT !.i = i + 1].i = i + 1
      BY <3>3 DEF Frames
    <3>. QED
      BY <3>1, <3>2, <3>4
  <2>. QED
    BY <2>1, <2>2
<1>5. \A j \in 1 .. n : kills'[j] = K[j]
  BY <1>1, <1>4
<1>6. Len(kills') \in Nat /\ n <= Len(kills')
  BY <1>1, <1>4
<1>7. Top = kills[n] /\ \A w \in Concerned : i <= w
  BY DEF Top, Scan, IsFirst
<1>. HIDE DEF n, K
<1>8. \A j \in 1 .. n : j \in 1 .. Len(kills')
  BY <1>1, <1>6
<1>9. ASSUME NEW z \in Place, NEW w \in Place, Pending(z, w), ~ Pending(z, w)'
      PROVE  z = Top.place /\ (Owed(w) => w = i)
  <2>1. PICK j \in 1 .. n : kills[j].place = z /\ w >= kills[j].i
    BY <1>9 DEF Pending, n
  <2>2. kills'[j].place = z /\ j \in 1 .. Len(kills')
    BY <1>4, <1>5, <1>8, <2>1
  <2>3. ~ (w >= kills'[j].i)
    BY <1>9, <2>2 DEF Pending
  <2>4. j = n
    BY <1>4, <1>5, <2>1, <2>3
  <2>5. ~ (w >= i + 1) /\ w \in Nat
    BY <1>4, <1>5, <2>3, <2>4 DEF Place
  <2>6. ASSUME Owed(w) PROVE w = i
    <3>1. w \in Concerned
      BY <1>7, <2>1, <2>4, <2>6 DEF Owed, Concerned
    <3>2. i <= w
      BY <1>7, <3>1
    <3>. QED
      BY <1>3, <2>5, <3>2
  <2>. QED
    BY <1>7, <2>1, <2>4, <2>6
<1>10. ASSUME NEW z \in Place, OnStack(z) PROVE OnStack(z)'
  <2>1. PICK j \in 1 .. n : kills[j].place = z
    BY <1>10 DEF OnStack, n
  <2>2. kills'[j].place = z /\ j \in 1 .. Len(kills')
    BY <1>4, <1>5, <1>8, <2>1
  <2>. QED
    BY <2>2 DEF OnStack
<1>11. kills'[1].place = kills[1].place
  BY <1>1, <1>4, <1>5
<1>12. ASSUME kills' = Append(K, Frame(i))
       PROVE  OnStack(i)' /\ \A w \in Place : Pending(i, w)'
  <2>1. Len(kills') = n + 1 /\ kills'[n + 1] = Frame(i)
    BY <1>4, <1>12
  <2>2. n + 1 \in 1 .. Len(kills')
    BY <1>1, <2>1
  <2>3. Frame(i).place = i /\ Frame(i).i = 0
    BY DEF Frame
  <2>4. \A w \in Place : w >= 0
    BY DEF Place
  <2>. QED
    BY <2>1, <2>2, <2>3, <2>4 DEF OnStack, Pending
<1>. QED
  BY <1>9, <1>10, <1>11, <1>12 DEF K

\* What process_kill does not write before its loop.
LEMMA KilledFields ==
    ASSUME NEW r \in Processes, NEW ret
    PROVE  /\ Killed(r, ret).state = "ZMB" /\ Killed(r, ret).pid = r.pid
           /\ Killed(r, ret).ppid = r.ppid /\ Killed(r, ret).resume = r.resume
           /\ Killed(r, ret).dir = r.dir /\ Killed(r, ret).closed = r.closed
<1>1. /\ Killed(r, ret).state = "ZMB" /\ Killed(r, ret).pid = r.pid
      /\ Killed(r, ret).ppid = r.ppid /\ Killed(r, ret).resume = r.resume
  BY DEF Killed, Processes
<1>2. Killed(r, ret).dir = r.dir /\ Killed(r, ret).closed = r.closed
  BY DEF Killed, Processes
<1>. QED
  BY <1>1, <1>2

\* Freeing a child that is dead already.
LEMMA KillReapOrderly ==
    ASSUME IInv, OInv, NEW i \in Place, KillReap(i)
    PROVE  OInv'
<1>1. /\ mode = "kill" /\ mode' = "kill" /\ cur' = cur /\ Scan(i)
      /\ kills' = Advanced(i) /\ IsChild(i, Dying.pid) /\ Dead(i)
      /\ plist' = [plist EXCEPT ![i] = Free]
  BY DEF KillReap, Scan, Reap
<1>2. plist'[i] = Free /\ \A q \in Place \ {i} : plist'[q] = plist[q]
  BY <1>1, Entries
<1>3. IsReaped(i)
  BY <1>1, <1>2, ChildOffStack DEF IsReaped, Freed, OnStack
<1>4. /\ \A z, w \in Place : Pending(z, w) =>
            Pending(z, w)' \/ (z = Top.place /\ (Owed(w) => w = i))
      /\ \A z \in Place : OnStack(z) => OnStack(z)'
      /\ kills'[1].place = kills[1].place
  BY <1>1, ScanPending
<1>. QED
  BY <1>1, <1>2, <1>3, <1>4, ScanOrderly

\* Killing a child that lives: its own activation owes to all what the state
\* of the dead one owes them.
LEMMA KillChildOrderly ==
    ASSUME IInv, OInv, NEW i \in Place, KillChild(i)
    PROVE  OInv'
<1>1. /\ mode = "kill" /\ mode' = "kill" /\ cur' = cur /\ Scan(i)
      /\ kills' = Append(Advanced(i), Frame(i)) /\ IsChild(i, Dying.pid) /\ Alive(i)
      /\ plist' = [plist EXCEPT ![i] = Killed(@, 0)]
  BY DEF KillChild, KillBegin, Scan
<1>2. plist'[i] = Killed(plist[i], 0) /\ \A q \in Place \ {i} : plist'[q] = plist[q]
  BY <1>1, Entries
<1>3. /\ \A z, w \in Place : Pending(z, w) =>
            Pending(z, w)' \/ (z = Top.place /\ (Owed(w) => w = i))
      /\ \A z \in Place : OnStack(z) => OnStack(z)'
      /\ kills'[1].place = kills[1].place
      /\ OnStack(i)' /\ \A w \in Place : Pending(i, w)'
  BY <1>1, ScanPending
<1>4. plist[i].dir
  BY <1>1, Entries DEF IInv, MemoryReclaim
<1>5. IsKilled(i)
  BY <1>1, <1>2, <1>3, <1>4, KilledFields, Entries DEF IsKilled, Dead
<1>. QED
  BY <1>1, <1>2, <1>3, <1>5, ScanOrderly

\* Notifying a waiter: if it is inside process_wait, the dying process is the
\* dead child that it will find.
LEMMA KillNotifyOrderly ==
    ASSUME IInv, OInv, NEW i \in Place, KillNotify(i)
    PROVE  OInv'
<1>1. /\ mode = "kill" /\ cur' = cur /\ Scan(i) /\ kills' = Advanced(i)
      /\ ~ IsChild(i, Dying.pid) /\ Notified(i)
  BY DEF KillNotify, Scan, IsFirst, Concerned
<1>2. mode' = "kill"
  <2>1. IInv'
    BY KillNotifyInv
  <2>. QED
    BY <1>1, <2>1 DEF KillNotify, IInv, NoSchedulerFatal
<1>3. /\ \/ plist' = [plist EXCEPT ![i].wait_pid = - Dying.pid]
         \/ plist[i].state = "SLP" /\ plist' = [plist EXCEPT ![i] = Woken(@)]
  BY DEF KillNotify
<1>4. PICK t \in Place, d \in Nat :
         /\ t = Top.place /\ d = Dying.pid /\ d >= 2
         /\ Dead(t) /\ Used(t) /\ plist[t].pid = d /\ plist[t].ppid = Dying.ppid
  BY <1>1, DyingFacts DEF Dying
<1>5. plist \in [Place -> Processes]
  BY Entries
<1>6. /\ Calm(i) /\ plist'[i].resume = plist[i].resume
      /\ plist'[i].wait_pid <= 0 /\ plist'[i].wait_pid # -1
      /\ \A q \in Place \ {i} : plist'[q] = plist[q]
  <2>1. CASE plist' = [plist EXCEPT ![i].wait_pid = - d]
    <3>. DEFINE w == - d
    <3>1. w \in Int /\ w <= 0 /\ w # -1
      BY <1>4
    <3>. HIDE DEF w
    <3>2. plist' = [plist EXCEPT ![i].wait_pid = w]
      BY <2>1 DEF w
    <3>3. /\ plist'[i].pid = plist[i].pid /\ plist'[i].ppid = plist[i].ppid
          /\ plist'[i].state = plist[i].state /\ plist'[i].wait_pid = w
          /\ plist'[i].resume = plist[i].resume
          /\ \A q \in Place \ {i} : plist'[q] = plist[q]
      BY <1>5, <3>2 DEF Processes
    <3>4. plist'[i].dir = plist[i].dir /\ plist'[i].closed = plist[i].closed
      BY <1>5, <3>2 DEF Processes
    <3>. QED
      BY <3>1, <3>3, <3>4 DEF Calm, Alive, Dead, Used
  <2>2. CASE plist[i].state = "SLP" /\ plist' = [plist EXCEPT ![i] = Woken(@)]
    <3>1. plist'[i] = Woken(plist[i]) /\ \A q \in Place \ {i} : plist'[q] = plist[q]
      BY <1>5, <2>2
    <3>2. Calm(i) /\ plist'[i].wait_pid = 0 /\ plist'[i].resume = plist[i].resume
      BY <2>2, <3>1, WokenCalm
    <3>. QED
      BY <3>1, <3>2
  <2>. QED
    BY <1>3, <1>4, <2>1, <2>2
\* The process at i waits for a child of its own: it is the dying one.
<1>7. ASSUME Living(i), Waiting(i)
      PROVE  WaitSound(i)'
  <2>1. WaitSound(i)
    BY <1>7 DEF OInv, WaitsForChild
  <2>2. Child(t, i)
    <3>1. CASE plist[i].wait_pid = -1
      BY <1>1, <1>4, <3>1 DEF Notified, Child
    <3>2. CASE plist[i].wait_pid # -1
      <4>1. plist[i].wait_pid = d
        BY <1>1, <1>4, <3>2 DEF Notified
      <4>2. PICK z \in Place : Child(z, i) /\ plist[z].pid = d
        BY <1>4, <2>1, <4>1 DEF WaitSound
      <4>. QED
        BY <1>4, <4>2, OnePid DEF Child
    <3>. QED
      BY <3>1, <3>2
  <2>3. t # i
    BY <1>4, <1>7 DEF Living
  <2>4. plist'[t] = plist[t]
    BY <1>4, <1>6, <2>3
  <2>5. Child(t, i)' /\ Dead(t)'
    <3>1. Used(t)' /\ Dead(t)'
      BY <1>4, <2>4 DEF Used, Dead
    <3>. QED
      BY <1>4, <1>6, <2>2, <2>4, <3>1 DEF Child, Calm
  <2>. QED
    BY <1>4, <1>6, <2>1, <2>5 DEF WaitSound, Calm
<1>8. IsNotified(i)
  BY <1>1, <1>6, <1>7 DEF IsNotified
<1>9. /\ \A z, w \in Place : Pending(z, w) =>
            Pending(z, w)' \/ (z = Top.place /\ (Owed(w) => w = i))
      /\ \A z \in Place : OnStack(z) => OnStack(z)'
      /\ kills'[1].place = kills[1].place
  BY <1>1, ScanPending
<1>. QED
  BY <1>1, <1>2, <1>6, <1>8, <1>9, ScanOrderly

\* The activation that ends is the only one whenever schedule() does not return
\* to it: no other is lost with the stack.
LEMMA OnlyFrame ==
    ASSUME IInv, OInv, mode = "kill", Top.place = cur
    PROVE  Len(kills) = 1
<1>1. /\ Top.place \in Place /\ Dead(Top.place)
      /\ Len(kills) \in Nat /\ Len(kills) >= 1
  BY ScanFacts
<1>2. kills[1].place = cur
  BY <1>1 DEF OInv, CurrentSpared, Lineage
<1>3. ASSUME Len(kills) > 1 PROVE FALSE
  <2>1. plist[kills[1].place].pid < plist[kills[Len(kills)].place].pid
    BY <1>1, <1>3 DEF IInv, KillStack
  <2>2. plist[cur].pid < plist[cur].pid
    BY <1>2, <2>1 DEF Top
  <2>. QED
    BY <2>2, Entries
<1>. DEFINE n == Len(kills)
<1>4. n \in Nat /\ n >= 1 /\ ~ (n > 1)
  BY <1>1, <1>3
<1>. HIDE DEF n
<1>5. n = 1
  BY <1>4
<1>. QED
  BY <1>5 DEF n

\* The end of process_kill announces the process to the modules.
LEMMA KillDoneFields ==
    ASSUME IInv, OInv, KillDone
    PROVE  /\ mode = "kill" /\ mode' \in {"kill", "exit", "sched"} /\ cur' = cur
           /\ kills' = SubSeq(kills, 1, Len(kills) - 1)
           /\ mode' = "kill" => Len(kills) > 1
           /\ plist'[Top.place].closed
           /\ \A q \in Place :
                 /\ plist'[q].pid = plist[q].pid /\ plist'[q].ppid = plist[q].ppid
                 /\ plist'[q].state = plist[q].state
                 /\ plist'[q].wait_pid = plist[q].wait_pid
                 /\ plist'[q].resume = plist[q].resume
                 /\ plist'[q].dir = plist[q].dir
                 /\ q # Top.place => plist'[q] = plist[q]
<1>1. /\ mode = "kill" /\ cur' = cur /\ mode' \in {"kill", "exit", "sched"}
      /\ plist' = [plist EXCEPT ![Top.place].closed = TRUE]
  BY DEF KillDone
<1>2. /\ plist \in [Place -> Processes] /\ Top.place \in Place
      /\ kills \in Seq(Frames) /\ Len(kills) \in Nat /\ Len(kills) >= 1
  BY <1>1, Entries, ScanFacts
<1>3. kills' = SubSeq(kills, 1, Len(kills) - 1)
  <2>1. CASE Top.place = cur
    <3>1. kills' = <<>> /\ Len(kills) = 1
      BY <1>1, <2>1, OnlyFrame DEF KillDone
    <3>2. SubSeq(kills, 1, 0) = <<>>
      BY <1>2
    <3>. QED
      BY <3>1, <3>2
  <2>2. CASE Top.place # cur
    BY <2>2 DEF KillDone
  <2>. QED
    BY <2>1, <2>2
<1>4. mode' = "kill" => Len(kills) > 1
  <2>. DEFINE n == Len(kills)
  <2>1. mode' = "kill" => n # 1
    BY DEF KillDone
  <2>2. n \in Nat /\ n >= 1
    BY <1>2
  <2>. HIDE DEF n
  <2>3. n # 1 => n > 1
    BY <2>2
  <2>. QED
    BY <2>1, <2>3 DEF n
<1>5. /\ plist'[Top.place].closed
      /\ \A q \in Place : /\ plist'[q].dir = plist[q].dir
                          /\ q # Top.place => plist'[q] = plist[q]
  BY <1>1, <1>2 DEF Processes
<1>6. \A q \in Place :
         /\ plist'[q].pid = plist[q].pid /\ plist'[q].ppid = plist[q].ppid
         /\ plist'[q].state = plist[q].state
         /\ plist'[q].wait_pid = plist[q].wait_pid
         /\ plist'[q].resume = plist[q].resume
  BY <1>1, <1>2 DEF Processes
<1>. QED
  BY <1>1, <1>3, <1>4, <1>5, <1>6

\* When the loop of an activation is over it owes nothing to anybody.
LEMMA DonePending ==
    ASSUME IInv, mode = "kill", Concerned = {},
           kills' = SubSeq(kills, 1, Len(kills) - 1)
    PROVE  /\ \A z, w \in Place : Pending(z, w) =>
                 Pending(z, w)' \/ (z = Top.place /\ ~ Owed(w))
           /\ \A z \in Place : OnStack(z) => OnStack(z)' \/ z = Top.place
           /\ Len(kills) > 1 => kills'[1] = kills[1]
<1>. DEFINE n == Len(kills)
<1>1. kills \in Seq(Frames) /\ n \in Nat /\ n >= 1 /\ Top = kills[n]
  BY ScanFacts DEF Top
<1>2. Len(kills') = n - 1 /\ \A j \in 1 .. n - 1 : kills'[j] = kills[j]
  <2>1. kills' = SubSeq(kills, 1, n - 1)
    OBVIOUS
  <2>2. n = Len(kills)
    OBVIOUS
  <2>. HIDE DEF n
  <2>3. Len(SubSeq(kills, 1, n - 1)) = n - 1
    BY <1>1, <2>2
  <2>4. \A j \in 1 .. n - 1 : SubSeq(kills, 1, n - 1)[j] = kills[j]
    BY <1>1, <2>2
  <2>. QED
    BY <2>1, <2>3, <2>4
<1>. HIDE DEF n
<1>3. \A j \in 1 .. n : j # n => j \in 1 .. n - 1
  BY <1>1
<1>4. ASSUME NEW z \in Place, NEW w \in Place, Pending(z, w), ~ Pending(z, w)'
      PROVE  z = Top.place /\ ~ Owed(w)
  <2>1. PICK j \in 1 .. n : kills[j].place = z /\ w >= kills[j].i
    BY <1>4 DEF Pending, n
  <2>2. j = n
    BY <1>2, <1>3, <1>4, <2>1 DEF Pending
  <2>3. w \notin Concerned
    OBVIOUS
  <2>. QED
    BY <1>1, <2>1, <2>2, <2>3 DEF Owed, Concerned
<1>5. ASSUME NEW z \in Place, OnStack(z), ~ OnStack(z)' PROVE z = Top.place
  <2>1. PICK j \in 1 .. n : kills[j].place = z
    BY <1>5 DEF OnStack, n
  <2>2. j = n
    BY <1>2, <1>3, <1>5, <2>1 DEF OnStack
  <2>. QED
    BY <1>1, <2>1, <2>2
<1>6. n > 1 => kills'[1] = kills[1]
  BY <1>1, <1>2
<1>. QED
  BY <1>4, <1>5, <1>6 DEF n

\* Once its loop is over, nobody is left to whom the activation owed something.
LEMMA KillDoneOrderly ==
    ASSUME IInv, OInv, KillDone
    PROVE  OInv'
<1>1. /\ mode = "kill" /\ mode' \in {"kill", "exit", "sched"} /\ cur' = cur
      /\ kills' = SubSeq(kills, 1, Len(kills) - 1)
      /\ mode' = "kill" => Len(kills) > 1
      /\ plist'[Top.place].closed
      /\ \A q \in Place :
            /\ plist'[q].pid = plist[q].pid /\ plist'[q].ppid = plist[q].ppid
            /\ plist'[q].state = plist[q].state
            /\ plist'[q].wait_pid = plist[q].wait_pid
            /\ plist'[q].resume = plist[q].resume
            /\ plist'[q].dir = plist[q].dir
            /\ q # Top.place => plist'[q] = plist[q]
  BY KillDoneFields
<1>2. PICK t \in Place, d \in Nat :
         /\ t = Top.place /\ d = Dying.pid
         /\ Dead(t) /\ Used(t) /\ plist[t].pid = d /\ plist[t].ppid = Dying.ppid
         /\ plist[Kernel].resume = "halt"
         /\ \A q \in Place : IsChild(q, d) => q # t
  BY <1>1, DyingFacts DEF Dying
<1>3. /\ \A z, w \in Place : Pending(z, w) => Pending(z, w)' \/ (z = t /\ ~ Owed(w))
      /\ \A z \in Place : OnStack(z) => OnStack(z)' \/ z = t
      /\ Len(kills) > 1 => kills'[1] = kills[1]
  BY <1>1, <1>2, DonePending DEF KillDone
<1>4. \A q \in Place : /\ Alive(q)' <=> Alive(q)
                       /\ Dead(q)' <=> Dead(q)
                       /\ Used(q)' <=> Used(q)
  BY <1>1 DEF Alive, Dead, Used
<1>5. \A q \in Place : q # t => plist'[q].closed = plist[q].closed
  BY <1>1, <1>2
<1>6. plist'[t].closed
  BY <1>1, <1>2
<1>7. Tree'
  <2>. SUFFICES ASSUME NEW p \in Place, Held(p)'
                PROVE  /\ Dead(p)' => plist'[p].ppid # 0
                       /\ \E q \in Place : /\ plist'[q].pid = plist'[p].ppid
                                           /\ Alive(q)' \/ (Used(q)' /\ Pending(q, p)')
    BY DEF Tree
  <2>1. Held(p) /\ Used(p)
    BY <1>1, <1>4, Entries DEF Held
  <2>2. PICK q \in Place : /\ plist[q].pid = plist[p].ppid
                           /\ Alive(q) \/ (Used(q) /\ Pending(q, p))
    BY <2>1 DEF OInv, Tree
  <2>3. Alive(q) \/ (Used(q) /\ Pending(q, p)')
    <3>. SUFFICES ASSUME Used(q), Pending(q, p), ~ Pending(q, p)' PROVE FALSE
      BY <2>2
    <3>1. q = t /\ ~ Owed(p)
      BY <1>3
    <3>2. IsChild(p, d)
      BY <1>2, <2>1, <2>2, <3>1 DEF IsChild
    <3>. QED
      BY <1>2, <3>1, <3>2 DEF Owed
  <2>. QED
    BY <1>1, <1>4, <2>1, <2>2, <2>3 DEF OInv, Tree
<1>8. Announced'
  <2>. SUFFICES ASSUME NEW p \in Place, Dead(p)' PROVE plist'[p].closed \/ OnStack(p)'
    BY DEF Announced
  <2>. QED
    BY <1>3, <1>4, <1>5, <1>6 DEF OInv, Announced
<1>9. WaitersTold'
  <2>. SUFFICES ASSUME NEW z \in Place, NEW w \in Place, Dead(z)', Alive(w)', Awaits(w, z)',
                       ~ Pending(z, w)'
                PROVE  FALSE
    BY DEF WaitersTold
  <2>1. Dead(z) /\ Alive(w) /\ Awaits(w, z)
    BY <1>1, <1>4 DEF Awaits
  <2>2. z = t /\ ~ Owed(w)
    BY <1>3, <2>1 DEF OInv, WaitersTold
  <2>. QED
    BY <1>2, <2>1, <2>2, Entries DEF Owed, Awaits, Notified
<1>10. WaitsForChild'
  <2>1. \A p \in Place : Living(p)' /\ Waiting(p)' => WaitSound(p)
    BY <1>1, <1>4 DEF OInv, WaitsForChild, Living, Waiting
  <2>2. \A p \in Place : WaitSound(p) => WaitSound(p)'
    BY <1>1, <1>4 DEF WaitSound, Child
  <2>. QED
    BY <2>1, <2>2 DEF WaitsForChild
<1>11. Bystanders'
  BY <1>1, <1>2, <1>4, Entries, SMTT(30) DEF OInv, Bystanders
<1>12. CurrentSpared'
  <2>1. \A S \in SUBSET Place : Lineage(S) => Lineage(S)'
    BY <1>1, <1>4 DEF Lineage
  <2>. QED
    BY <1>1, <1>3, <2>1 DEF OInv, CurrentSpared
<1>13. CurrentResumed' /\ NoWaitFatal'
  BY <1>1, Entries DEF OInv, CurrentResumed, NoWaitFatal
<1>. QED
  BY <1>7, <1>8, <1>9, <1>10, <1>11, <1>12, <1>13 DEF OInv

-----------------------------------------------------------------------------
(* Where process_kill begins                                               *)

\* The processes above a living one live.
LEMMA ParentLives ==
    ASSUME IInv, OInv, mode # "kill", NEW c \in Place, Living(c),
           NEW q \in Place, Used(q), plist[q].pid = plist[c].ppid
    PROVE  Living(q)
<1>1. CASE Alive(c)
  <2>1. PICK a \in Place : plist[a].pid = plist[c].ppid /\ Alive(a)
    BY <1>1, NobodyKilled DEF OInv, Tree, Held
  <2>. QED
    BY <2>1, OnePid, Entries DEF Living
<1>2. CASE ~ Alive(c)
  <2>1. c = Idle
    BY <1>2, Entries DEF Living
  <2>2. plist[q].pid = 0
    BY <2>1 DEF OInv, Bystanders
  <2>3. Alive(Kernel) /\ plist[Kernel].pid = 0
    BY DEF IInv, Roles
  <2>. QED
    BY <2>2, <2>3, OnePid, Entries DEF Living
<1>. QED
  BY <1>1, <1>2

\* Killing a process that is not above the running one leaves those that are.
LEMMA LineageSpared ==
    ASSUME IInv, OInv, mode = "user", NEW p \in Place, p # cur, p \notin Above(cur)
    PROVE  \E S \in SUBSET Place : Lineage(S) /\ p \notin S
<1>1. PICK A \in SUBSET Place :
         /\ cur \in A /\ p \notin A
         /\ \A c \in A : \A q \in Place :
               Used(q) /\ plist[q].pid = plist[c].ppid => q \in A
  BY DEF Above
<1>. DEFINE S == {c \in A : Living(c)}
<1>2. cur \in S
  <2>1. Running(cur)
    BY DEF IInv, CurrentRuns, Resumes
  <2>. QED
    BY <1>1, <2>1 DEF Running, Ready, Living, Used, Dead
<1>3. \A c \in S, q \in Place : Used(q) /\ plist[q].pid = plist[c].ppid => q \in S
  BY <1>1, ParentLives
<1>4. S \in SUBSET Place /\ p \notin S /\ \A c \in S : Used(c) /\ ~ Dead(c)
  BY <1>1 DEF Living
<1>. HIDE DEF S
<1>5. Lineage(S)
  BY <1>2, <1>3, <1>4 DEF Lineage
<1>. QED
  BY <1>4, <1>5

\* A call of process_kill begins its scan at the first place.
LEMMA StartPending ==
    ASSUME NEW p \in Place, kills' = <<Frame(p)>>
    PROVE  /\ OnStack(p)' /\ kills'[1].place = p
           /\ \A w \in Place : Pending(p, w)'
<1>1. Len(kills') = 1 /\ kills'[1] = Frame(p) /\ 1 \in 1 .. Len(kills')
  OBVIOUS
<1>2. Frame(p).place = p /\ Frame(p).i = 0
  BY DEF Frame
<1>3. \A w \in Place : w >= 0
  BY DEF Place
<1>. QED
  BY <1>1, <1>2, <1>3 DEF OnStack, Pending

\* process_kill before its loop, on the running process or one not above it.
LEMMA KillStartOrderly ==
    ASSUME IInv, OInv, mode = "user", NEW p \in Place, Alive(p), plist[p].pid # 0,
           p \notin Above(cur) \ {cur}, NEW ret, KillBegin(p, ret),
           kills' = <<Frame(p)>>, cur' = cur
    PROVE  OInv'
<1>1. mode' = "kill" /\ plist' = [plist EXCEPT ![p] = Killed(@, ret)]
  BY DEF KillBegin
<1>2. plist'[p] = Killed(plist[p], ret) /\ \A q \in Place \ {p} : plist'[q] = plist[q]
  BY <1>1, Entries
<1>3. /\ plist'[p].state = "ZMB" /\ plist'[p].pid = plist[p].pid
      /\ plist'[p].ppid = plist[p].ppid /\ plist'[p].resume = plist[p].resume
      /\ plist'[p].dir = plist[p].dir /\ plist'[p].closed = plist[p].closed
  BY <1>2, KilledFields, Entries
<1>4. p # Kernel /\ p # Idle
  BY DEF IInv, Roles, Alive
<1>5. plist[p].dir
  BY Entries DEF IInv, MemoryReclaim
<1>6. OnStack(p)' /\ kills'[1].place = p /\ \A w \in Place : Pending(p, w)'
  BY StartPending
<1>7. \A z, w : ~ Pending(z, w) /\ ~ OnStack(z)
  BY NobodyKilled
<1>8. \A q \in Place : /\ plist'[q].pid = plist[q].pid /\ plist'[q].ppid = plist[q].ppid
                       /\ plist'[q].resume = plist[q].resume
                       /\ Used(q)' <=> Used(q)
                       /\ Dead(q) => Dead(q)'
                       /\ q # p => (Dead(q)' => Dead(q)) /\ (Alive(q)' <=> Alive(q))
  <2>. SUFFICES ASSUME NEW q \in Place
                PROVE  /\ plist'[q].pid = plist[q].pid /\ plist'[q].ppid = plist[q].ppid
                       /\ plist'[q].resume = plist[q].resume
                       /\ Used(q)' <=> Used(q)
                       /\ Dead(q) => Dead(q)'
                       /\ q # p => (Dead(q)' => Dead(q)) /\ (Alive(q)' <=> Alive(q))
    OBVIOUS
  <2>1. CASE q = p
    BY <1>3, <2>1, Entries DEF Used, Dead
  <2>2. CASE q # p
    BY <1>2, <2>2 DEF Used, Dead, Alive
  <2>. QED
    BY <2>1, <2>2
<1>9. Dead(p)' /\ ~ Alive(p)'
  BY <1>3 DEF Dead, Alive
<1>10. Tree'
  <2>. SUFFICES ASSUME NEW q \in Place, Held(q)'
                PROVE  /\ Dead(q)' => plist'[q].ppid # 0
                       /\ \E a \in Place : /\ plist'[a].pid = plist'[q].ppid
                                           /\ Alive(a)' \/ (Used(a)' /\ Pending(a, q)')
    BY DEF Tree
  <2>1. q # p
    BY <1>3, <1>5, <1>9 DEF Held
  <2>2. Held(q)
    BY <1>2, <1>8, <2>1 DEF Held
  <2>3. PICK a \in Place : plist[a].pid = plist[q].ppid /\ Alive(a)
    BY <1>7, <2>2 DEF OInv, Tree
  <2>4. Alive(a)' \/ (Used(a)' /\ Pending(a, q)')
    BY <1>6, <1>8, <2>3, Entries
  <2>. QED
    BY <1>8, <2>1, <2>2, <2>3, <2>4 DEF OInv, Tree
<1>11. Announced'
  <2>. SUFFICES ASSUME NEW q \in Place, Dead(q)', q # p PROVE plist'[q].closed
    BY <1>6 DEF Announced
  <2>. QED
    BY <1>2, <1>7, <1>8 DEF OInv, Announced
<1>12. WaitersTold'
  <2>. SUFFICES ASSUME NEW z \in Place, NEW w \in Place, Dead(z)', Alive(w)', Awaits(w, z)',
                       z # p
                PROVE  FALSE
    BY <1>6 DEF WaitersTold
  <2>1. w # p /\ Dead(z) /\ Alive(w)
    BY <1>8, <1>9
  <2>2. Awaits(w, z)
    BY <1>2, <2>1 DEF Awaits
  <2>. QED
    BY <1>7, <2>1, <2>2 DEF OInv, WaitersTold
<1>13. WaitsForChild'
  <2>. SUFFICES ASSUME NEW q \in Place, Living(q)', Waiting(q)'
                PROVE  WaitSound(q)'
    BY DEF WaitsForChild
  <2>1. q # p /\ Living(q) /\ Waiting(q)
    BY <1>1, <1>8, <1>9 DEF Living, Waiting
  <2>2. WaitSound(q) /\ plist'[q] = plist[q]
    BY <1>2, <2>1 DEF OInv, WaitsForChild
  <2>. QED
    BY <1>8, <2>2 DEF WaitSound, Child
<1>14. Bystanders'
  BY <1>8, KernelSleeps, Entries DEF OInv, Bystanders
<1>15. CurrentSpared'
  <2>1. CASE p = cur
    BY <1>6, <2>1 DEF CurrentSpared
  <2>2. CASE p # cur
    <3>1. PICK S \in SUBSET Place : Lineage(S) /\ p \notin S
      BY <2>2, LineageSpared
    <3>2. Lineage(S)'
      BY <1>8, <3>1 DEF Lineage
    <3>. QED
      BY <3>2 DEF CurrentSpared
  <2>. QED
    BY <2>1, <2>2
<1>16. CurrentResumed' /\ NoWaitFatal'
  BY <1>1, <1>8, Entries DEF OInv, CurrentResumed, NoWaitFatal, Resumes
<1>. QED
  BY <1>10, <1>11, <1>12, <1>13, <1>14, <1>15, <1>16 DEF OInv

\* So the system call and the F2 key.
LEMMA KillOrderly ==
    ASSUME IInv, OInv, Misuse = {}, NEW p \in Place, NEW ret, Kill(p, ret) \/ ExitCurrent
    PROVE  OInv'
<1>1. CASE Kill(p, ret)
  BY <1>1, KillStartOrderly DEF Kill, InUser
<1>2. CASE ExitCurrent
  <2>1. PICK q \in F2Victims : /\ q \in Above(cur) \ {cur} => "kill_ancestor" \in Misuse
                               /\ KillBegin(q, F2RetCode)
                               /\ kills' = <<Frame(q)>>
    BY <1>2 DEF ExitCurrent
  <2>2. q \in Place /\ Alive(q) /\ plist[q].pid # 0
    BY Entries DEF F2Victims, Alive
  <2>3. mode = "user" /\ cur' = cur /\ q \notin Above(cur) \ {cur}
    BY <1>2, <2>1 DEF ExitCurrent
  <2>. QED
    BY <2>1, <2>2, <2>3, KillStartOrderly
<1>. QED
  BY <1>1, <1>2

-----------------------------------------------------------------------------
(* The theorems                                                            *)

\* kernel_main hands over with three processes, none dead.
LEMMA InitOrderly == Init => OInv
<1>. SUFFICES ASSUME Init PROVE OInv
  OBVIOUS
<1>1. IInv
  BY InitIInv
<1>2. /\ Kernel \in Place /\ Idle \in Place /\ 2 \in Place
      /\ plist[Kernel].state = "SLP" /\ plist[Kernel].pid = 0 /\ plist[Kernel].ppid = 0
      /\ plist[Idle].state = "IDL" /\ plist[Idle].pid = 1 /\ plist[Idle].ppid = 0
      /\ plist[2].state = "INQ" /\ plist[2].pid = 2 /\ plist[2].ppid = 0
      /\ \A p \in Place \ {Kernel, Idle, 2} : plist[p] = Free
  BY InitTable
<1>3. mode = "sched" /\ kills = <<>>
  BY DEF Init
<1>4. /\ plist[Kernel] = [Born(0, 0) EXCEPT !.wait_pid = FirstPid, !.resume = "halt"]
      /\ plist[Idle] = [Born(1, 0) EXCEPT !.state = "IDL"]
      /\ plist[2] = [Born(FirstPid, 0) EXCEPT !.state = "INQ"]
  BY <1>2 DEF Init
<1>5. /\ plist[Kernel].resume = "halt"
      /\ plist[Idle].resume = "exit"
      /\ plist[2].resume = "exit"
  BY <1>4 DEF Born, Free
<1>6. Free.state = "FRE" /\ Free.resume = "user"
  BY DEF Free
<1>7. \A p \in Place : /\ ~ Dead(p)
                       /\ Alive(p) => p \in {Kernel, 2}
                       /\ Used(p) => plist[p].ppid = 0
                       /\ plist[p].resume # "wait"
  BY <1>2, <1>5, <1>6 DEF Dead, Alive, Used
<1>8. Alive(Kernel)
  BY <1>2 DEF Alive
<1>9. Bystanders
  BY <1>2, <1>5, <1>7 DEF Bystanders
<1>10. Tree
  <2>1. \A p \in Place : Held(p) => Used(p)
    BY <1>7 DEF Held, Alive, Used
  <2>. QED
    BY <1>2, <1>7, <1>8, <2>1 DEF Tree
<1>11. CurrentResumed /\ CurrentSpared /\ NoWaitFatal
  BY <1>3 DEF CurrentResumed, CurrentSpared, NoWaitFatal, Resumes
<1>12. Announced /\ WaitersTold
  BY <1>7 DEF Announced, WaitersTold
<1>13. WaitsForChild
  BY <1>3, <1>7 DEF WaitsForChild, Waiting
<1>. QED
  BY <1>9, <1>10, <1>11, <1>12, <1>13 DEF OInv

\* Every step of the process manager keeps OInv.
LEMMA StepOrderly == ASSUME IInv, OInv, Misuse = {}, [Next]_vars PROVE OInv'
<1>1. CASE UNCHANGED vars
  BY <1>1 DEF vars, OInv, Bystanders, CurrentResumed, Tree, Announced, WaitersTold,
     WaitsForChild, CurrentSpared, NoWaitFatal, Held, Alive, Dead, Used, Living, Pending,
     OnStack, Awaits, Waiting, WaitSound, Child, Lineage
<1>2. CASE SystemCall
  <2>1. CASE Create \/ Yield
    BY <2>1, CreateOrderly, YieldOrderly
  <2>2. ASSUME NEW p \in Place, NEW d \in Delays \cup {Forever}, Sleep(p, d) PROVE OInv'
    BY <2>2, SleepOrderly
  <2>3. ASSUME NEW p \in Place, Wakeup(p) \/ Handover(p) \/ Reparent(p) PROVE OInv'
    BY <2>3, WakeupOrderly, HandoverOrderly, ReparentOrderly
  <2>4. ASSUME NEW p \in Place, NEW ret \in RetCodes, Kill(p, ret) PROVE OInv'
    BY <2>4, KillOrderly
  <2>5. ASSUME NEW pid \in WaitArgs, WaitReap(pid) \/ WaitBlock(pid) PROVE OInv'
    BY <2>5, WaitReapOrderly, WaitBlockOrderly
  <2>. QED
    BY <1>2, <2>1, <2>2, <2>3, <2>4, <2>5 DEF SystemCall
<1>3. CASE NoEffect \/ ExitKernel
  BY <1>3, NothingOrderly
<1>4. CASE ExitCurrent
  BY <1>4, KillOrderly, Entries
<1>5. CASE KernelStep
  <2>1. ASSUME NEW i \in Place, KillNotify(i) \/ KillReap(i) \/ KillChild(i) PROVE OInv'
    BY <2>1, KillNotifyOrderly, KillReapOrderly, KillChildOrderly
  <2>. QED
    BY <1>3, <1>5, <2>1, WaitReturnOrderly, KernelReturnOrderly, KillDoneOrderly,
       SchedWakeOrderly, SchedPickOrderly DEF KernelStep
<1>6. CASE Tick
  BY <1>6, TickOrderly DEF Tick
<1>. QED
  BY <1>1, <1>2, <1>3, <1>4, <1>5, <1>6 DEF Next

\* With callers that do not misuse it, the process manager stays in OInv.
THEOREM OrderlyInvariant == ASSUME Misuse = {} PROVE Spec => []OInv
<1>1. Init => OInv
  BY InitOrderly
<1>2. IInv /\ OInv /\ [Next]_vars => OInv'
  BY StepOrderly
<1>3. Spec => []IInv
  BY Inductive
<1>. QED
  BY <1>1, <1>2, <1>3, PTL DEF Spec

\* When no process_kill is under way nothing is owed to anybody.
LEMMA OrderlyImplies ==
    ASSUME IInv, OInv
    PROVE  WaitersNotified /\ KillIsComplete /\ NoLostEntry /\ NoWaitFatal
<1>1. NoWaitFatal
  BY DEF OInv
<1>. SUFFICES ASSUME mode # "kill"
              PROVE  WaitersNotified /\ KillIsComplete /\ NoLostEntry
  BY <1>1 DEF WaitersNotified, KillIsComplete, NoLostEntry
<1>2. \A z, w : ~ Pending(z, w) /\ ~ OnStack(z)
  BY NobodyKilled
<1>3. WaitersNotified
  BY <1>2 DEF WaitersNotified, OInv, WaitersTold, Awaits, Alive
<1>4. ASSUME NEW p \in Place, Held(p)
      PROVE  /\ Dead(p) => plist[p].ppid # 0
             /\ \E q \in Place : Alive(q) /\ plist[q].pid = plist[p].ppid
  BY <1>2, <1>4 DEF OInv, Tree
<1>5. KillIsComplete
  BY <1>2, <1>4 DEF KillIsComplete, Held, OInv, Announced
<1>6. NoLostEntry
  BY <1>4 DEF NoLostEntry, Held
<1>. QED
  BY <1>1, <1>3, <1>5, <1>6

\* Once process_kill is over, nobody sleeps waiting for a process that is dead:
\* the loop of process_kill reaches every waiter, also those of the children it
\* kills, and no process falls asleep waiting for a death in the past.
THEOREM WaitersAlwaysNotified == ASSUME Misuse = {} PROVE Spec => []WaitersNotified
<1>1. IInv /\ OInv => WaitersNotified
  BY OrderlyImplies
<1>. QED
  BY <1>1, Inductive, OrderlyInvariant, PTL

\* process_kill takes the whole subtree: every live process has a live parent
\* and the modules were told of every dead one, whatever the recursion met.
THEOREM KillAlwaysComplete == ASSUME Misuse = {} PROVE Spec => []KillIsComplete
<1>1. IInv /\ OInv => KillIsComplete
  BY OrderlyImplies
<1>. QED
  BY <1>1, Inductive, OrderlyInvariant, PTL

\* The entry of a dead process that i_clean_killed has taken the memory of is
\* kept for a living parent: no entry of g_plist is lost for ever.
THEOREM EntriesNeverLost == ASSUME Misuse = {} PROVE Spec => []NoLostEntry
<1>1. IInv /\ OInv => NoLostEntry
  BY OrderlyImplies
<1>. QED
  BY <1>1, Inductive, OrderlyInvariant, PTL

\* process_wait does not stop the machine: a process that it wakes up because
\* of a death has a dead child when it runs again.
THEOREM WaitNeverFatal == ASSUME Misuse = {} PROVE Spec => []NoWaitFatal
<1>1. IInv /\ OInv => NoWaitFatal
  BY OrderlyImplies
<1>. QED
  BY <1>1, Inductive, OrderlyInvariant, PTL
=============================================================================
