------------------------------ MODULE Process ------------------------------
(***************************************************************************)
(* The process manager and scheduler of profanOS                           *)
(* (kernel/system/process.c, with the kernel entry and exit paths of       *)
(* kernel/system/system.c and kernel/cpu/isr.c that call it).              *)
(*                                                                         *)
(* One CPU; the kernel is not preemptive.  While it runs, the only         *)
(* interrupt it takes is the timer, which then just advances TIMER_TICKS.  *)
(* So a system call is one action up to the point where it calls           *)
(* schedule(0), and schedule() itself is two actions (SchedWake and        *)
(* SchedPick): a tick may fall between any of them.  process_kill is       *)
(* recursive; its stack of activations is the variable kills.              *)
(*                                                                         *)
(* Definitions with a suffix, such as Due_OffByOne, are mistakes the code   *)
(* does not make.  No action uses them: they are what the properties are   *)
(* tested against.                                                         *)
(*                                                                         *)
(* Time is relative: a deadline is kept as the ticks left before it, and   *)
(* since is the age of g_last_switch, saturated where it stops mattering.  *)
(***************************************************************************)
EXTENDS Integers, Sequences, FiniteSets, Functions

CONSTANTS
    PROCESS_MAX,     \* size of g_plist
    SCHEDULER_EVRY,  \* ticks a process may run before it is preempted
    MaxPid,          \* bound: the last pid handed out
    Delays,          \* sleep durations that the callers use, in ticks
    RetCodes,        \* exit codes that the callers use
    Misuse           \* which of MisuseKinds the callers may commit

Kernel == 0          \* place of the kernel process in g_plist
Idle == 1            \* place of the idle process
FirstPid == 2        \* the default program, started by kernel_main
F2RetCode == 143     \* exit code of a process killed with the F2 key
Forever == -1        \* process_sleep(pid, -1)
AnyChild == -1       \* process_wait(-1, ...)

\* What a caller can do that the scheduler does not defend itself against:
\* waking a process that is blocked in process_wait (or the kernel's own),
\* killing an ancestor of the running process (process_kill, or the F2 key),
\* and handing a dead child to the kernel with PROC_INFO_SET_PPID.
MisuseKinds == {"wakeup_waiter", "kill_ancestor", "reparent_dead"}

ASSUME ProcessMaxAssumption == PROCESS_MAX \in Nat /\ PROCESS_MAX >= 3
ASSUME EvryAssumption       == SCHEDULER_EVRY \in Nat
ASSUME MaxPidAssumption     == MaxPid \in Nat /\ MaxPid >= FirstPid
ASSUME DelaysAssumption     == Delays \subseteq Nat \ {0}
ASSUME RetCodesAssumption   == RetCodes \subseteq Nat
ASSUME MisuseAssumption     == Misuse \subseteq MisuseKinds

VARIABLES
    plist,    \* g_plist: the process table
    cur,      \* place of g_proc_current
    nextpid,  \* g_pid_incrament
    queue,    \* g_shdlr_queue
    qindex,   \* g_shdlr_queue_index
    tsleep,   \* g_tsleep_list; its order only decides who joins queue first
    clean,    \* g_need_clean
    since,    \* TIMER_TICKS - g_last_switch, at most SCHEDULER_EVRY + 1
    kills,    \* the activations of process_kill, the innermost one last
    mode      \* what the CPU is doing, see Modes

vars == <<plist, cur, nextpid, queue, qindex, tsleep, clean, since, kills, mode>>

Place  == 0 .. PROCESS_MAX - 1
States == {"FRE", "ZMB", "SLP", "INQ", "RUN", "IDL"}

\* Where a switched-out process continues when schedule() returns to it:
\* inside sys_exit_kernel, on the way to it, in the second half of
\* process_wait, or in kernel_main after elf_start.
Resumes == {"user", "exit", "wait", "halt"}

\* What the CPU is doing: user code, one of the above, the scan loop of
\* process_kill, the two halves of schedule(), or nothing any more.
Halts == {"halted", "fatal_queue", "fatal_tsleep", "fatal_wait"}
Modes == Resumes \cup {"kill", "sched", "pick"} \cup Halts

(***************************************************************************)
(* process_t.  val is the union of sleep_to and retcode: for a sleeper 0   *)
(* is "no deadline" and n > 0 a deadline n - 1 ticks ahead; for a zombie   *)
(* it is the exit code.  dir says that scuba_dir is not NULL, i.e. that    *)
(* the process still owns its memory.  req is the pid that process_wait    *)
(* was called with, closed that mod_trigger_atdeath has run.               *)
(***************************************************************************)
Processes == [state: States, pid: Nat, ppid: Nat, wait_pid: Int, val: Nat,
              dir: BOOLEAN, resume: Resumes, req: Int, closed: BOOLEAN]

\* A free entry: nothing of what its last owner left is ever read.
Free == [state |-> "FRE", pid |-> 0, ppid |-> 0, wait_pid |-> 0, val |-> 0,
         dir |-> FALSE, resume |-> "user", req |-> 0, closed |-> FALSE]

Born(pid, ppid) == [Free EXCEPT !.state = "SLP", !.pid = pid, !.ppid = ppid,
                                !.dir = TRUE, !.resume = "exit"]

Used(p)  == plist[p].state # "FRE"
Dead(p)  == plist[p].state = "ZMB"
Alive_OrDead(p) == plist[p].state \in {"ZMB", "SLP", "INQ", "RUN"}
Alive(p) == plist[p].state \in {"SLP", "INQ", "RUN"}
Ready(p) == plist[p].state \in {"INQ", "RUN"}

IsChild(p, pid) == Used(p) /\ plist[p].ppid = pid
Zombies(pid)    == {p \in Place : Dead(p) /\ plist[p].ppid = pid}

\* p is the first of the entries S in the order of the table.
IsFirst(p, S) == p \in S /\ \A q \in S : p <= q

\* Both lists are emptied the same way: the last entry fills the hole.
Without_KeepsLast(q, p) ==
    [j \in 1 .. Len(q) |-> IF q[j] = p THEN q[Len(q)] ELSE q[j]]
Without(q, p) ==
    IF p \notin Range(q) THEN q
    ELSE LET i == CHOOSE j \in 1 .. Len(q) : q[j] = p
         IN  [j \in 1 .. Len(q) - 1 |-> IF j = i THEN q[Len(q)] ELSE q[j]]

\* i_get_free_place searches downwards from pid modulo PROCESS_MAX.
Distance(pid, p) == (pid - p) % PROCESS_MAX
FreePlaces == {p \in Place : ~ Used(p)}
IsFreePlace(p, pid) ==
    /\ p \in FreePlaces
    /\ \A q \in FreePlaces : Distance(pid, p) <= Distance(pid, q)

\* p and every process above it in the tree: the smallest set that holds p
\* and is closed under taking the parent.
Above(p) ==
    {a \in Place : \A S \in SUBSET Place :
        (p \in S /\ \A c \in S : \A q \in Place :
             Used(q) /\ plist[q].pid = plist[c].ppid => q \in S) => a \in S}

(***************************************************************************)
(* The state after kernel_main has run elf_start: the kernel has created   *)
(* the idle process and the default program and handed over to it.         *)
(***************************************************************************)
Init ==
    /\ plist = [p \in Place |->
                  CASE p = Kernel -> [Born(0, 0) EXCEPT !.wait_pid = FirstPid,
                                                        !.resume = "halt"]
                    [] p = Idle -> [Born(1, 0) EXCEPT !.state = "IDL"]
                    [] p = 2 -> [Born(FirstPid, 0) EXCEPT !.state = "INQ"]
                    [] OTHER -> Free]
    /\ cur = Kernel
    /\ nextpid = FirstPid
    /\ queue = <<2>>
    /\ qindex = 0
    /\ tsleep = {}
    /\ clean = FALSE
    /\ since = 0
    /\ kills = <<>>
    /\ mode = "sched"

-----------------------------------------------------------------------------
(* System calls of the running process.                                    *)

InUser == mode = "user" /\ cur # Idle

\* Every kernel entry that leaves the tables alone: other system calls, calls
\* that fail on one of their early checks, the interrupts of other devices.
NoEffect ==
    /\ mode = "user"
    /\ mode' = "exit"
    /\ UNCHANGED <<plist, cur, nextpid, queue, qindex, tsleep, clean, since, kills>>

Create_StalePid ==
    /\ InUser
    /\ nextpid < MaxPid
    /\ \E p \in Place :
          /\ IsFreePlace(p, nextpid)
          /\ plist' = [plist EXCEPT ![p] = Born(nextpid, plist[cur].pid)]
    /\ nextpid' = nextpid + 1
    /\ mode' = "exit"
    /\ UNCHANGED <<cur, queue, qindex, tsleep, clean, since, kills>>

\* process_create, process_create_user and process_fork: the child is born
\* asleep, without a deadline, until somebody wakes it up.
Create ==
    /\ InUser
    /\ nextpid < MaxPid
    /\ \E p \in Place :
          /\ IsFreePlace(p, nextpid + 1)
          /\ plist' = [plist EXCEPT ![p] = Born(nextpid + 1, plist[cur].pid)]
    /\ nextpid' = nextpid + 1
    /\ mode' = "exit"
    /\ UNCHANGED <<cur, queue, qindex, tsleep, clean, since, kills>>

\* process_sleep(cur, 0): give the CPU up.
Yield ==
    /\ InUser
    /\ plist' = [plist EXCEPT ![cur].resume = "exit"]
    /\ mode' = "sched"
    /\ UNCHANGED <<cur, nextpid, queue, qindex, tsleep, clean, since, kills>>

\* A process that only its own event should wake: it is inside process_wait,
\* or it is the kernel, which stops the machine when it wakes up.
Waiter(p) == plist[p].resume \in {"wait", "halt"}

\* process_sleep(pid, ms), on the caller or on any other process.
Sleep(p, d) ==
    /\ InUser
    /\ Alive(p)
    /\ p = Kernel => "wakeup_waiter" \in Misuse
    /\ plist' = [plist EXCEPT ![p].state = "SLP",
                              ![p].val = IF d = Forever THEN 0 ELSE d + 1,
                              ![p].resume = IF p = cur THEN "exit" ELSE @]
    /\ tsleep' = (IF plist[p].state = "SLP" /\ plist[p].val # 0
                  THEN tsleep \ {p} ELSE tsleep)
                 \cup (IF d = Forever THEN {} ELSE {p})
    /\ queue' = Without(queue, p)
    /\ mode' = IF p = cur THEN "sched" ELSE "exit"
    /\ UNCHANGED <<cur, nextpid, qindex, clean, since, kills>>

\* i_add_to_shdlr_queue stops the machine rather than overflow the queue or
\* enter a process twice.
CanEnqueue(p) == Len(queue) < PROCESS_MAX /\ p \notin Range(queue)

Woken(proc) == [proc EXCEPT !.state = "INQ", !.val = 0, !.wait_pid = 0]
StillAsleep_Forgotten(p) == tsleep \cup (IF plist[p].val # 0 THEN {p} ELSE {})
StillAsleep(p) == IF plist[p].val # 0 THEN tsleep \ {p} ELSE tsleep

\* process_wakeup(pid, 0)
Wakeup(p) ==
    /\ InUser
    /\ plist[p].state = "SLP"
    /\ Waiter(p) => "wakeup_waiter" \in Misuse
    /\ plist' = [plist EXCEPT ![p] = Woken(@)]
    /\ tsleep' = StillAsleep(p)
    /\ queue' = IF CanEnqueue(p) THEN Append(queue, p) ELSE queue
    /\ mode' = IF CanEnqueue(p) THEN "exit" ELSE "fatal_queue"
    /\ UNCHANGED <<cur, nextpid, qindex, clean, since, kills>>

\* process_wakeup(pid, 1): the caller leaves the queue and sleeps until the
\* process it woke up dies.
Handover(p) ==
    /\ InUser
    /\ plist[p].state = "SLP"
    /\ Waiter(p) => "wakeup_waiter" \in Misuse
    /\ plist' = [plist EXCEPT ![p] = Woken(@),
                              ![cur].state = "SLP",
                              ![cur].wait_pid = plist[p].pid,
                              ![cur].val = 0,
                              ![cur].resume = "exit"]
    /\ tsleep' = StillAsleep(p)
    /\ queue' = IF CanEnqueue(p) THEN Without(Append(queue, p), cur) ELSE queue
    /\ mode' = IF CanEnqueue(p) THEN "sched" ELSE "fatal_queue"
    /\ UNCHANGED <<cur, nextpid, qindex, clean, since, kills>>

\* PROC_INFO_SET_PPID as the programs use it: give a child to the kernel.
Reparent(p) ==
    /\ InUser
    /\ IsChild(p, plist[cur].pid)
    /\ Dead(p) => "reparent_dead" \in Misuse
    /\ plist' = [plist EXCEPT ![p].ppid = 0]
    /\ mode' = "exit"
    /\ UNCHANGED <<cur, nextpid, queue, qindex, tsleep, clean, since, kills>>

-----------------------------------------------------------------------------
(* process_wait                                                            *)

\* Memory first if the entry still owns any, then the entry itself.
Reap(p) == plist' = [plist EXCEPT ![p] = Free]

\* The child has died already: take its exit code and free its entry.
WaitReap(pid) ==
    /\ InUser
    /\ \E p \in Zombies(plist[cur].pid) :
          /\ IF pid = AnyChild THEN IsFirst(p, Zombies(plist[cur].pid))
                              ELSE plist[p].pid = pid
          /\ Reap(p)
    /\ mode' = "exit"
    /\ UNCHANGED <<cur, nextpid, queue, qindex, tsleep, clean, since, kills>>

\* There is a child to wait for: sleep until process_kill wakes us up.
WaitBlock(pid) ==
    /\ InUser
    /\ \E p \in Place :
          /\ IsChild(p, plist[cur].pid) /\ ~ Dead(p)
          /\ pid # AnyChild => plist[p].pid = pid
    /\ pid = AnyChild => Zombies(plist[cur].pid) = {}
    /\ plist' = [plist EXCEPT ![cur].state = "SLP",
                              ![cur].wait_pid = pid,
                              ![cur].val = 0,
                              ![cur].req = pid,
                              ![cur].resume = "wait"]
    /\ queue' = Without(queue, cur)
    /\ mode' = "sched"
    /\ UNCHANGED <<cur, nextpid, qindex, tsleep, clean, since, kills>>

\* Awake again.  A wait_pid that is still positive, or -1, means that no
\* child died; otherwise the first zombie child of the table is reaped, and
\* the machine stops if there is none.
WaitReturn ==
    LET zombies == Zombies(plist[cur].pid)
        w == plist[cur].wait_pid
        returned == [plist EXCEPT ![cur].wait_pid = 0, ![cur].req = 0]
    IN  /\ mode = "wait"
        /\ \/ /\ w = -1 \/ w > 0
              /\ plist' = returned
              /\ mode' = "exit"
           \/ /\ ~ (w = -1 \/ w > 0)
              /\ \E p \in zombies : /\ IsFirst(p, zombies)
                                    /\ plist' = [returned EXCEPT ![p] = Free]
              /\ mode' = "exit"
           \/ /\ ~ (w = -1 \/ w > 0)
              /\ zombies = {}
              /\ plist' = returned
              /\ mode' = "fatal_wait"
        /\ UNCHANGED <<cur, nextpid, queue, qindex, tsleep, clean, since, kills>>

\* kernel_main comes back from elf_start, which collects the default program,
\* and sys_nothing_todo halts the CPU with interrupts disabled.
KernelReturn ==
    /\ mode = "halt"
    /\ plist' = [p \in Place |->
                    IF Dead(p) /\ plist[p].pid = FirstPid /\ plist[p].ppid = 0
                    THEN Free ELSE plist[p]]
    /\ mode' = "halted"
    /\ UNCHANGED <<cur, nextpid, queue, qindex, tsleep, clean, since, kills>>

-----------------------------------------------------------------------------
(* process_kill: Killed and the frame it pushes are the part before its    *)
(* loop; KillNotify, KillReap and KillChild are the iterations that do     *)
(* something, in the order of the table; KillDone is the part after it.    *)

Killed(proc, ret) ==
    [proc EXCEPT !.state = "ZMB", !.val = ret, !.wait_pid = 0]

KillBegin(p, ret) ==
    /\ plist' = [plist EXCEPT ![p] = Killed(@, ret)]
    /\ tsleep' = IF plist[p].state = "SLP" /\ plist[p].val # 0
                 THEN tsleep \ {p} ELSE tsleep
    /\ queue' = Without(queue, p)
    /\ clean' = TRUE
    /\ mode' = "kill"

Frame_Upwards(p) == [place |-> p, i |-> p]
Frame(p) == [place |-> p, i |-> 0]
Frames   == [place : Place, i : 0 .. PROCESS_MAX]

\* process_kill, on the caller or any other process: exit(), kill(), and the
\* fault handler, which kills the running process.
Kill(p, ret) ==
    /\ InUser
    /\ Alive(p) /\ plist[p].pid # 0
    /\ p \in Above(cur) \ {cur} => "kill_ancestor" \in Misuse
    /\ KillBegin(p, ret)
    /\ kills' = <<Frame(p)>>
    /\ UNCHANGED <<cur, nextpid, qindex, since>>

\* The F2 key (kernel_exit_current): kill the process with the highest pid
\* among those that are queued or asleep.
F2Victims == {p \in Place : plist[p].state \in {"INQ", "SLP"} /\ plist[p].pid >= 2}

ExitCurrent ==
    /\ mode = "user"
    /\ \E p \in F2Victims :
          /\ \A q \in F2Victims : plist[q].pid <= plist[p].pid
          /\ p \in Above(cur) \ {cur} => "kill_ancestor" \in Misuse
          /\ KillBegin(p, F2RetCode)
          /\ kills' = <<Frame(p)>>
    /\ UNCHANGED <<cur, nextpid, qindex, since>>

Top == kills[Len(kills)]
Dying == plist[Top.place]

Notified_OnlyByPid(i) == plist[i].wait_pid = Dying.pid
Notified_AnyWaiter(i) == plist[i].wait_pid \in {Dying.pid, -1}
\* Is entry i waiting for the death of the process being killed?
Notified(i) == \/ plist[i].wait_pid = Dying.pid
               \/ plist[i].wait_pid = -1 /\ plist[i].pid = Dying.ppid

\* The places at which the loop has something to do, and the next of them.
Concerned == {i \in Place : /\ i >= Top.i /\ i # Top.place
                            /\ Notified(i) \/ IsChild(i, Dying.pid)}
Scan(i) == mode = "kill" /\ IsFirst(i, Concerned)
Advanced_Twice(i) == [kills EXCEPT ![Len(kills)].i = i + 2]
Advanced(i) == [kills EXCEPT ![Len(kills)].i = i + 1]

\* A waiter that is no child of the dying process: record whose death it is
\* and wake it up, which fails if it is not asleep any more and otherwise
\* clears wait_pid again.
KillNotify(i) ==
    /\ Scan(i)
    /\ ~ IsChild(i, Dying.pid)
    /\ kills' = Advanced(i)
    /\ \/ /\ plist[i].state # "SLP"
          /\ plist' = [plist EXCEPT ![i].wait_pid = - Dying.pid]
          /\ UNCHANGED <<queue, tsleep, mode>>
       \/ /\ plist[i].state = "SLP"
          /\ plist' = [plist EXCEPT ![i] = Woken(@)]
          /\ tsleep' = StillAsleep(i)
          /\ queue' = IF CanEnqueue(i) THEN Append(queue, i) ELSE queue
          /\ mode' = IF CanEnqueue(i) THEN "kill" ELSE "fatal_queue"
    /\ UNCHANGED <<cur, nextpid, qindex, clean, since>>

\* A child that is dead already has lost its parent: free its entry.
KillReap(i) ==
    /\ Scan(i)
    /\ IsChild(i, Dying.pid) /\ Dead(i)
    /\ Reap(i)
    /\ kills' = Advanced(i)
    /\ UNCHANGED <<cur, nextpid, queue, qindex, tsleep, clean, since, mode>>

\* A child that lives: kill it first, recursively.  (One that also waits for
\* the dying process is woken up just before, and killed out of the queue.)
KillChild(i) ==
    /\ Scan(i)
    /\ IsChild(i, Dying.pid) /\ Alive(i)
    /\ KillBegin(i, 0)
    /\ kills' = Append(Advanced(i), Frame(i))
    /\ UNCHANGED <<cur, nextpid, qindex, since>>

\* The loop is over: the modules forget the process.  If it is the running
\* one, process_kill calls schedule(0), which never returns to a dead process:
\* the activations below it on the stack are lost.
KillDone ==
    /\ mode = "kill"
    /\ Concerned = {}
    /\ plist' = [plist EXCEPT ![Top.place].closed = TRUE]
    /\ IF Top.place = cur
       THEN kills' = <<>> /\ mode' = "sched"
       ELSE /\ kills' = SubSeq(kills, 1, Len(kills) - 1)
            /\ mode' = IF Len(kills) = 1 THEN "exit" ELSE "kill"
    /\ UNCHANGED <<cur, nextpid, queue, qindex, tsleep, clean, since>>

-----------------------------------------------------------------------------
(* schedule()                                                              *)

Due_OffByOne == {p \in tsleep : plist[p].val < 1}
Due == {p \in tsleep : plist[p].val <= 1}

\* i_clean_killed: take the memory of every dead process but the running one,
\* and its entry too if no parent is left that could ask for its exit code.
Unclaimed_NotByKernel(p) ==
    \A q \in Place : Used(q) /\ ~ Dead(q) => plist[q].pid # plist[p].ppid
Unclaimed(p) ==
    \/ plist[p].ppid = 0
    \/ \A q \in Place : Used(q) /\ ~ Dead(q) => plist[q].pid # plist[p].ppid

Cleaned(p) == IF Unclaimed(p) THEN Free ELSE [plist[p] EXCEPT !.dir = FALSE]

Reclaimable_Current(p) == Dead(p) /\ plist[p].dir
Reclaimable(p) == Dead(p) /\ plist[p].dir /\ p # cur

\* First half: i_tsleep_awake and i_clean_killed.
SchedWake ==
    /\ mode = "sched"
    /\ plist' = [p \in Place |->
          CASE p \in Due -> [plist[p] EXCEPT !.state = "INQ"]
            [] clean /\ Reclaimable(p) -> Cleaned(p)
            [] OTHER -> plist[p]]
    /\ clean' = (clean /\ Dead(cur) /\ plist[cur].dir)
    /\ tsleep' = tsleep \ Due
    /\ \E order \in Bijection(1 .. Cardinality(Due), Due) : queue' = queue \o order
    /\ mode' = IF \E p \in Due : plist[p].state # "SLP" THEN "fatal_tsleep"
               ELSE IF \/ Len(queue) + Cardinality(Due) > PROCESS_MAX
                       \/ Due \cap Range(queue) # {} THEN "fatal_queue"
               ELSE "pick"
    /\ since' = 0
    /\ UNCHANGED <<cur, nextpid, qindex, kills>>

NextIndex_Stuck == IF qindex >= Len(queue) THEN 0 ELSE qindex
NextIndex == IF qindex + 1 >= Len(queue) THEN 0 ELSE qindex + 1

\* Second half: the next process of the queue, or the idle process, and
\* i_process_switch.  A process that is its own successor just goes on.
SchedPick ==
    LET i == NextIndex
        p == IF queue = <<>> THEN Idle ELSE queue[i + 1]
        switched == [plist EXCEPT ![cur].state = IF @ = "RUN" THEN "INQ" ELSE @,
                                  ![p].state = IF @ = "IDL" THEN @ ELSE "RUN"]
    IN  /\ mode = "pick"
        /\ qindex' = i
        /\ cur' = p
        /\ plist' = [(IF p = cur THEN plist ELSE switched) EXCEPT ![p].resume = "user"]
        /\ mode' = plist[p].resume
        /\ UNCHANGED <<nextpid, queue, tsleep, clean, since, kills>>

\* sys_exit_kernel, with schedule_if_needed.
ExitKernel ==
    /\ mode = "exit"
    /\ mode' = IF since > SCHEDULER_EVRY THEN "sched" ELSE "user"
    /\ UNCHANGED <<plist, cur, nextpid, queue, qindex, tsleep, clean, since, kills>>

-----------------------------------------------------------------------------
(* The timer interrupt                                                     *)

Ticked == [p \in Place |-> IF p \in tsleep /\ plist[p].val > 1
                           THEN [plist[p] EXCEPT !.val = @ - 1] ELSE plist[p]]
Later == IF since > SCHEDULER_EVRY THEN since ELSE since + 1

\* In the kernel a tick is only counted.  The kernel looks at the clock only
\* when it schedules and when it leaves: ticks before that are counted there.
TickInKernel ==
    /\ mode \in {"sched", "exit"}
    /\ plist' = Ticked
    /\ since' = Later
    /\ UNCHANGED <<cur, nextpid, queue, qindex, tsleep, clean, kills, mode>>

\* The idle process gives way as soon as it need not wait for a sleeper.
TooEarly == /\ Later < SCHEDULER_EVRY
            /\ \/ plist[cur].state # "IDL"
               \/ tsleep # {} /\ \A p \in tsleep : Ticked[p].val > 1

\* In user mode it calls schedule(TIMER_TICKS).
TickInUser ==
    /\ mode = "user"
    /\ since' = Later
    /\ \/ /\ TooEarly
          /\ plist' = Ticked
          /\ mode' = "exit"
       \/ /\ ~ TooEarly
          /\ plist' = [Ticked EXCEPT ![cur].resume = "exit"]
          /\ mode' = "sched"
    /\ UNCHANGED <<cur, nextpid, queue, qindex, tsleep, clean, kills>>

-----------------------------------------------------------------------------
WaitArgs == {AnyChild} \cup 1 .. MaxPid

SystemCall ==
    \/ Create \/ Yield
    \/ \E p \in Place, d \in Delays \cup {Forever} : Sleep(p, d)
    \/ \E p \in Place : Wakeup(p) \/ Handover(p) \/ Reparent(p)
    \/ \E p \in Place, ret \in RetCodes : Kill(p, ret)
    \/ \E pid \in WaitArgs : WaitReap(pid) \/ WaitBlock(pid)

\* What the kernel does once entered: never by choice, always to its end.
KernelStep ==
    \/ WaitReturn \/ KernelReturn \/ ExitKernel
    \/ \E i \in Place : KillNotify(i) \/ KillReap(i) \/ KillChild(i)
    \/ KillDone
    \/ SchedWake \/ SchedPick

Tick == TickInKernel \/ TickInUser

Next == SystemCall \/ NoEffect \/ ExitCurrent \/ KernelStep \/ Tick

Spec == Init /\ [][Next]_vars

\* The kernel runs to completion and the timer never stops.  Nothing obliges a
\* process to make a system call.
FairSpec == Spec /\ WF_vars(KernelStep) /\ WF_vars(Tick)

-----------------------------------------------------------------------------
(* Properties                                                              *)

TypeOK ==
    /\ plist \in [Place -> Processes]
    /\ cur \in Place
    /\ nextpid \in FirstPid .. MaxPid
    /\ queue \in Seq(Place)
    /\ qindex \in Nat
    /\ tsleep \subseteq Place
    /\ clean \in BOOLEAN
    /\ since \in 0 .. SCHEDULER_EVRY + 1
    /\ kills \in Seq(Frames)
    /\ mode \in Modes

\* The scheduler's queue holds every process that can run exactly once and no
\* other, whatever the calls that entered and removed processes (sleep, wakeup,
\* handover, wait, kill, expiry), and only the running one is marked RUN.
QueueConsistent ==
    /\ IsInjective(queue)
    /\ Range(queue) = {p \in Place : Ready(p)}
    /\ \A p \in Place : plist[p].state = "RUN" => p = cur

\* g_tsleep_list holds exactly the sleepers with a deadline: an entry that
\* stayed behind would be woken up in another life, or its exit code, which
\* shares its memory, be read as a deadline.
TsleepConsistent ==
    tsleep = {p \in Place : plist[p].state = "SLP" /\ plist[p].val # 0}

\* The assertions of i_add_to_shdlr_queue and i_tsleep_awake never fail.
NoSchedulerFatal == mode \notin {"fatal_queue", "fatal_tsleep"}

\* Memory of the dead is freed (i_clean_killed, process_wait, process_kill)
\* without ever freeing the address space the CPU is in, and as long as some
\* dead process has memory the next schedule() is told to look for it.
MemoryReclaim ==
    /\ plist[cur].dir
    /\ \A p \in Place : Used(p) /\ ~ Dead(p) => plist[p].dir
    /\ (\E p \in Place : Dead(p) /\ plist[p].dir) => clean

\* Two processes never share a pid, though places are reused: i_pid_to_place
\* would find the wrong one.
UniquePids ==
    \A p, q \in Place :
        Used(p) /\ Used(q) /\ plist[p].pid = plist[q].pid => p = q

\* A dead process never comes back to life, and its exit code stays what it
\* was until its entry is freed.
DeadStayDead ==
    [][\A p \in Place : Dead(p) =>
          \/ plist'[p].state = "FRE"
          \/ /\ plist'[p].state = "ZMB"
             /\ plist'[p].val = plist[p].val]_vars

\* "wake up parent process that is waiting for this one": once process_kill is
\* over nobody sleeps waiting for the death of a process that is dead.
WaitersNotified ==
    mode # "kill" =>
        \A z, w \in Place :
            Dead(z) /\ plist[w].state = "SLP" =>
                /\ plist[w].wait_pid # plist[z].pid
                /\ ~ (plist[w].wait_pid = -1 /\ plist[w].pid = plist[z].ppid)

\* process_kill takes the whole subtree: once it is over every live process
\* has a live parent, and every dead one was announced to the modules.
KillIsComplete ==
    mode # "kill" =>
        /\ \A p \in Place : Alive(p) =>
              \E q \in Place : Alive(q) /\ plist[q].pid = plist[p].ppid
        /\ \A p \in Place : Dead(p) => plist[p].closed

\* A dead process whose memory is gone still has a parent, other than the
\* kernel, that can wait for it: its entry in the table is not lost.
NoLostEntry ==
    mode # "kill" =>
        \A p \in Place : Dead(p) /\ ~ plist[p].dir =>
            \E q \in Place : /\ Alive(q) /\ plist[q].pid # 0
                             /\ plist[q].pid = plist[p].ppid

\* A process that leaves process_wait because of a death finds a dead child.
NoWaitFatal == mode # "fatal_wait"

\* Every queued process gets the CPU, although entries move in the queue when
\* others leave it.
ReadyRuns ==
    \A p \in Place :
        plist[p].state = "INQ" ~> (cur = p \/ ~ Ready(p) \/ mode \in Halts)

\* No sleeper stays asleep past its deadline for ever (unless the deadline is
\* moved by another process_sleep): in the end a schedule() finds it due.
SleepersWake ==
    \A p \in Place :
        (p \in tsleep /\ plist[p].val = 1)
            ~> (p \notin tsleep \/ plist[p].val > 1 \/ mode \in Halts)

=============================================================================
