------------------------------- MODULE Fmopen -------------------------------
(***************************************************************************)
(* File descriptors and pipes of profanOS (zlibs/modules/fmopen.c).        *)
(*                                                                         *)
(* The descriptor table of a process is a page of its own address space:   *)
(* a new process starts with a copy of its parent's.  What descriptors     *)
(* refer to is shared: pipes, the path strings of directories, sockets.    *)
(* A pipe names the processes that may read and write it, one entry per    *)
(* descriptor, at most PIPE_MAX_REF on each side; it is free again when    *)
(* both lists are empty.  The copy of a table is made good by              *)
(* fm_declare_child, a second call of the parent (libc's fork, unistd.c),  *)
(* and the death of a process by __atdeath, which closes its descriptors   *)
(* in the context of the process that kills.                               *)
(*                                                                         *)
(* The kernel is not preempted, so a call is one action; only the read of  *)
(* an empty pipe gives up the CPU, in process_sleep, and holds a pointer   *)
(* to the pipe meanwhile.  Contents, offsets and flags are left out, and   *)
(* files and devices are one type: their descriptors hold nothing that a   *)
(* close gives back.  Definitions with a suffix, such as Popped_All, are   *)
(* mistakes the code does not make: the properties are tested against      *)
(* them.                                                                   *)
(***************************************************************************)
EXTENDS Integers, Sequences, FiniteSets, SequencesExt

CONSTANTS
    MaxPid,        \* processes are 1 .. MaxPid, 1 is there at the start
    MAX_FD,        \* descriptors are 0 .. MAX_FD - 1
    PIPE_MAX,      \* pipes are 1 .. PIPE_MAX
    PIPE_MAX_REF,  \* entries of a pipe on each side
    MaxBytes,      \* bound on the bytes in a pipe not read yet
    Kinds,         \* what the paths lead to: "FILE" (files and devices), "DIR"
    Paths,         \* addresses that malloc gives to the paths of directories
    Socks,         \* identifiers that the socket module gives out
    Misuse         \* subset of Misuses: what the callers do not avoid

\* The premises under which the module keeps its promises:
Misuses == {"orphans",    \* a process exits while it has children
            "kill_other", \* a process is killed by another, not by its exit
            "undeclared", \* a kill reaches a child between fork and fm_declare_child
            "no_entry",   \* more descriptors of a side than PIPE_MAX_REF
            "no_fd",      \* pipe() without two free descriptors
            "fork_dir"}   \* fork with an open directory

ASSUME MisuseAssumption == Misuse \subseteq Misuses
ASSUME SizeAssumption == /\ MaxPid \in Nat \ {0}
                         /\ MAX_FD \in Nat \ {0}
                         /\ PIPE_MAX \in Nat \ {0}
                         /\ PIPE_MAX_REF \in Nat \ {0}
                         /\ MaxBytes \in Nat
                         /\ Kinds \subseteq {"FILE", "DIR"}

Pids == 1 .. MaxPid
Fds == 0 .. MAX_FD - 1
Pipes == 1 .. PIPE_MAX

VARIABLES
    proc,    \* proc[p]: what the process manager makes of p
    parent,  \* parent[p]: ppid, 0 for none
    fds,     \* fds[p][f]: the descriptor table at 0xB0000000 in p
    reading, \* reading[p]: the descriptor that p sleeps in fm_pread for, or -1
    mem      \* what descriptors refer to: open_pipes, the heap, the sockets

vars == <<proc, parent, fds, reading, mem>>

FreeFd == [type |-> "FREE", ref |-> 0]
FdTypes == {"FREE", "FILE", "DIR", "PPRD", "PPWR", "SOCK"}
FreePipe == [used |-> FALSE, data |-> 0, readers |-> <<>>, writers |-> <<>>]

Side(type) == IF type = "PPRD" THEN "readers" ELSE "writers"
IsPipe(d) == d.type \in {"PPRD", "PPWR"}

-----------------------------------------------------------------------------
(* The calls into the process manager. *)

\* process_info(pid, PROC_INFO_STATE) > 1: neither a zombie nor unknown.
IsAlive(p) == proc[p] \in {"new", "ready", "asleep"}

\* The processes above q; process_kill goes down from q to all those below.
Ancestors(q) == LET Above[p \in Pids] == IF parent[p] = 0 THEN {}
                                         ELSE {parent[p]} \cup Above[parent[p]]
                IN  Above[q]

Victims(q) == {p \in Pids : IsAlive(p) /\ (p = q \/ q \in Ancestors(p))}

\* p can make a call: it is not asleep, dead, or between fork and
\* fm_declare_child, where it does nothing else.
Runs(p) == proc[p] = "ready" /\ \A q \in Pids : ~(proc[q] = "new" /\ parent[q] = p)

-----------------------------------------------------------------------------
(* Descriptors and pipes. *)

FreeFds(p) == {f \in Fds : fds[p][f].type = "FREE"}
LowestFd(S) == CHOOSE f \in S : \A g \in S : f <= g
FreePipes == {x \in Pipes : ~mem.pipes[x].used}

\* malloc finds the first block that fits.
NewPath(m) == {a \in Paths \ m.paths : \A b \in Paths \ m.paths : a <= b}

HasEntry(pipe, side) == Len(pipe[side]) < PIPE_MAX_REF

\* fm_pipe_push_reader and fm_pipe_push_writer.
Pushed(m, x, side, p) ==
    IF HasEntry(m.pipes[x], side)
    THEN [m EXCEPT !.pipes[x][side] = Append(@, p)]
    ELSE m

\* The buffer is freed when nobody is left on either side; what the pipe
\* still says of it is not read before fm_pipe sets it again.
Freed(pipe) == IF pipe.readers = <<>> /\ pipe.writers = <<>> THEN FreePipe ELSE pipe

Popped_NotFreed(pipe, side, p) == [pipe EXCEPT ![side] = RemoveFirst(@, p)]

Popped_All(pipe, side, p) == Freed([pipe EXCEPT ![side] = SelectSeq(@, LAMBDA e : e # p)])

\* One entry of p goes, those behind it move up.
Popped(pipe, side, p) == Freed([pipe EXCEPT ![side] = RemoveFirst(@, p)])

\* fm_close_data of a descriptor d that is not free, by process p.
Closed(m, d, p) ==
    CASE d.type = "DIR"  -> [m EXCEPT !.paths = @ \ {d.ref}]
      [] d.type = "SOCK" -> [m EXCEPT !.refs[d.ref] = @ - 1]
      [] IsPipe(d)       -> [m EXCEPT !.pipes[d.ref] = Popped(@, Side(d.type), p)]
      [] OTHER           -> m

ClosedAt(m, p, f) == Closed(m, fds[p][f], p)

Close(p, f) ==
    /\ Runs(p)
    /\ fds[p][f].type # "FREE"
    /\ mem' = ClosedAt(mem, p, f)
    /\ fds' = [fds EXCEPT ![p][f] = FreeFd]
    /\ UNCHANGED <<proc, parent, reading>>

\* A fresh descriptor of that kind, with the memory it takes.
Opened(m, kind) ==
    IF kind = "DIR" THEN {<<[m EXCEPT !.paths = @ \cup {a}], [type |-> "DIR", ref |-> a]>> : a \in NewPath(m)}
                    ELSE {<<m, [type |-> kind, ref |-> 0]>>}

\* fm_reopen: the descriptor is closed before anything else is looked at.
\* Then the path may not exist, may not be what the flags ask for, or there
\* may be no descriptor left (f = -1 asks for any).
Reopen(p, f) ==
    /\ Runs(p)
    /\ LET m == IF f >= 0 THEN ClosedAt(mem, p, f) ELSE mem
           t == IF f >= 0 THEN [fds[p] EXCEPT ![f] = FreeFd] ELSE fds[p]
           g == IF f >= 0 THEN f ELSE LowestFd(FreeFds(p))
       IN  \/ /\ mem' = m
              /\ fds' = [fds EXCEPT ![p] = t]
           \/ /\ f = -1 => FreeFds(p) # {}
              /\ \E kind \in Kinds : \E c \in Opened(m, kind) :
                    /\ mem' = c[1]
                    /\ fds' = [fds EXCEPT ![p] = [t EXCEPT ![g] = c[2]]]
    /\ UNCHANGED <<proc, parent, reading>>

Copies_SamePath(m, d, p) ==
    CASE d.type = "SOCK" -> {<<[m EXCEPT !.refs[d.ref] = @ + 1], d>>}
      [] IsPipe(d)       -> {<<Pushed(m, d.ref, Side(d.type), p), d>>}
      [] OTHER           -> {<<m, d>>}

\* What the new descriptor shares with d: (m, n) is the memory and the copy.
Copies(m, d, p) ==
    CASE d.type = "DIR"  -> {<<[m EXCEPT !.paths = @ \cup {a}], [d EXCEPT !.ref = a]>> : a \in NewPath(m)}
      [] d.type = "SOCK" -> {<<[m EXCEPT !.refs[d.ref] = @ + 1], d>>}
      [] IsPipe(d)       -> {<<Pushed(m, d.ref, Side(d.type), p), d>>}
      [] OTHER           -> {<<m, d>>}

\* A descriptor d can be copied with an entry of its own.
Room(m, d) == "no_entry" \notin Misuse /\ IsPipe(d) => HasEntry(m.pipes[d.ref], Side(d.type))

\* fm_dup2: the target is closed first, the source when it is the same.
Dup2(p, f, g) ==
    /\ Runs(p)
    /\ fds[p][f].type # "FREE"
    /\ LET m == ClosedAt(mem, p, g)
       IN  IF f = g
           THEN /\ mem' = m
                /\ fds' = [fds EXCEPT ![p][g] = FreeFd]
           ELSE /\ Room(m, fds[p][f])
                /\ \E c \in Copies(m, fds[p][f], p) :
                      /\ mem' = c[1]
                      /\ fds' = [fds EXCEPT ![p][g] = c[2]]
    /\ UNCHANGED <<proc, parent, reading>>

\* fm_dup: any free descriptor.
Dup(p, f) == FreeFds(p) # {} /\ Dup2(p, f, LowestFd(FreeFds(p)))

\* fm_fcntl(F_DUPFD): the lowest free descriptor from f, whatever its argument.
DupFd(p, f) ==
    LET S == {g \in FreeFds(p) : g >= f}
    IN  S # {} /\ Dup2(p, f, LowestFd(S))

\* fm_pipe: the pipe is taken before the descriptors, and kept if one lacks.
Pipe(p) ==
    /\ Runs(p)
    /\ FreePipes # {}
    /\ "no_fd" \notin Misuse => Cardinality(FreeFds(p)) >= 2
    /\ LET x == LowestFd(FreePipes)
           r == LowestFd(FreeFds(p))
           w == LowestFd(FreeFds(p) \ {r})
       IN  /\ mem' = [mem EXCEPT !.pipes[x] = [used |-> TRUE, data |-> 0,
                                               readers |-> <<p>>, writers |-> <<p>>]]
           /\ fds' = IF Cardinality(FreeFds(p)) < 2 THEN fds
                     ELSE [fds EXCEPT ![p][r] = [type |-> "PPRD", ref |-> x],
                                      ![p][w] = [type |-> "PPWR", ref |-> x]]
    /\ UNCHANGED <<proc, parent, reading>>

\* socket_socket, in the socket module, takes a descriptor here.
OpenSocket(p) ==
    /\ Runs(p)
    /\ FreeFds(p) # {}
    /\ \E s \in Socks \ mem.socks :
          /\ mem' = [mem EXCEPT !.socks = @ \cup {s}, !.refs[s] = 1]
          /\ fds' = [fds EXCEPT ![p][LowestFd(FreeFds(p))] = [type |-> "SOCK", ref |-> s]]
    /\ UNCHANGED <<proc, parent, reading>>

-----------------------------------------------------------------------------
(* Reading and writing a pipe. *)

\* current_size - rd_offset is data; both only grow.
Empty(pipe) == pipe.data = 0

Taken_Unchecked(pipe, n) == [pipe EXCEPT !.data = @ - n]

\* At most n bytes are read.
Taken(pipe, n) == [pipe EXCEPT !.data = IF @ < n THEN 0 ELSE @ - n]

FirstDead(pipe) == {i \in 1 .. Len(pipe.writers) :
                      /\ ~IsAlive(pipe.writers[i])
                      /\ \A j \in 1 .. i - 1 : IsAlive(pipe.writers[j])}

Purged_Never(pipe) == pipe

\* Each time round, the first writer found dead is taken out.
Purged(pipe) == IF FirstDead(pipe) = {} THEN pipe
                ELSE [pipe EXCEPT !.writers = RemoveAt(@, CHOOSE i \in FirstDead(pipe) : TRUE)]

\* fm_pread of a pipe with data, or whose writers are all gone.
Pread(p, f, n) ==
    /\ Runs(p)
    /\ fds[p][f].type = "PPRD"
    /\ LET x == fds[p][f].ref
       IN  /\ Empty(mem.pipes[x]) => mem.pipes[x].writers = <<>>
           /\ mem' = [mem EXCEPT !.pipes[x] = Taken(@, n)]
    /\ UNCHANGED <<proc, parent, fds, reading>>

\* fm_pread of an empty pipe: process_sleep.
PreadSleep(p, f) ==
    /\ Runs(p)
    /\ fds[p][f].type = "PPRD"
    /\ Empty(mem.pipes[fds[p][f].ref])
    /\ mem.pipes[fds[p][f].ref].writers # <<>>
    /\ proc' = [proc EXCEPT ![p] = "asleep"]
    /\ reading' = [reading EXCEPT ![p] = f]
    /\ UNCHANGED <<parent, fds, mem>>

\* process_sleep returns, in time or because somebody woke p up.
PreadWake(p, n) ==
    /\ proc[p] = "asleep"
    /\ LET x == fds[p][reading[p]].ref
           pipe == Purged(mem.pipes[x])
       IN  IF Empty(pipe) /\ pipe.writers # <<>>
           THEN /\ mem' = [mem EXCEPT !.pipes[x] = pipe]
                /\ UNCHANGED <<proc, reading>>
           ELSE /\ mem' = [mem EXCEPT !.pipes[x] = Taken(pipe, n)]
                /\ proc' = [proc EXCEPT ![p] = "ready"]
                /\ reading' = [reading EXCEPT ![p] = -1]
    /\ UNCHANGED <<parent, fds>>

\* fm_pwrite of a pipe never waits: the buffer grows.
Pwrite(p, f) ==
    /\ Runs(p)
    /\ fds[p][f].type = "PPWR"
    /\ mem.pipes[fds[p][f].ref].data < MaxBytes
    /\ mem' = [mem EXCEPT !.pipes[fds[p][f].ref].data = @ + 1]
    /\ UNCHANGED <<proc, parent, fds, reading>>

-----------------------------------------------------------------------------
(* Birth and death of processes. *)

\* process_fork, or process_create in run_ifexist: the table is copied.
Fork(p) ==
    /\ Runs(p)
    /\ "fork_dir" \notin Misuse => \A f \in Fds : fds[p][f].type # "DIR"
    /\ \E q \in Pids :
          /\ proc[q] = "none"
          /\ \A o \in 1 .. q - 1 : proc[o] # "none"
          /\ proc' = [proc EXCEPT ![q] = "new"]
          /\ parent' = [parent EXCEPT ![q] = p]
          /\ fds' = [fds EXCEPT ![q] = fds[p]]
    /\ UNCHANGED <<reading, mem>>

Declared_NoSocket(acc, d, q) ==
    IF acc.ok /\ IsPipe(d)
    THEN [m |-> Pushed(acc.m, d.ref, Side(d.type), q), ok |-> HasEntry(acc.m.pipes[d.ref], Side(d.type))]
    ELSE acc

\* One round of the loop of fm_declare_child; it ends at the first full pipe.
Declared(acc, d, q) ==
    IF ~acc.ok THEN acc
    ELSE IF IsPipe(d)
    THEN IF HasEntry(acc.m.pipes[d.ref], Side(d.type))
         THEN [m |-> Pushed(acc.m, d.ref, Side(d.type), q), ok |-> TRUE]
         ELSE [m |-> acc.m, ok |-> FALSE]
    ELSE IF d.type = "SOCK"
    THEN [m |-> [acc.m EXCEPT !.refs[d.ref] = @ + 1], ok |-> TRUE]
    ELSE acc

\* fm_declare_child and process_wakeup, the parent's next calls.
DeclareChild(p, q) ==
    /\ proc[p] = "ready"
    /\ proc[q] = "new"
    /\ parent[q] = p
    /\ LET Loop[n \in 0 .. MAX_FD] == IF n = 0 THEN [m |-> mem, ok |-> TRUE]
                                      ELSE Declared(Loop[n - 1], fds[p][n - 1], q)
       IN  /\ "no_entry" \notin Misuse => Loop[MAX_FD].ok
           /\ mem' = Loop[MAX_FD].m
    /\ proc' = [proc EXCEPT ![q] = "ready"]
    /\ UNCHANGED <<parent, fds, reading>>

\* __atdeath of p, called by process_kill of k: process_get_pid() is k.
ClosedAll(m, p, k) ==
    LET Loop[n \in 0 .. MAX_FD] == IF n = 0 THEN m ELSE Closed(Loop[n - 1], fds[p][n - 1], k)
    IN  Loop[MAX_FD]

\* One __atdeath for each victim; in which order makes no difference.
AtDeath(m, victims, k) ==
    LET Loop[n \in 0 .. MaxPid] == IF n = 0 THEN m
                                   ELSE IF n \in victims THEN ClosedAll(Loop[n - 1], n, k)
                                   ELSE Loop[n - 1]
    IN  Loop[MaxPid]

\* process_kill(q) by the running process k, its own exit when q = k.
Kill(k, q) ==
    /\ proc[k] = "ready"
    /\ IsAlive(q)
    /\ IF k = q THEN Runs(k) /\ ("orphans" \notin Misuse => Victims(k) = {k})
                ELSE "kill_other" \in Misuse /\ k \notin Victims(q)
    /\ "undeclared" \notin Misuse => \A p \in Victims(q) : proc[p] # "new"
    /\ mem' = AtDeath(mem, Victims(q), k)
    /\ proc' = [p \in Pids |-> IF p \notin Victims(q) THEN proc[p]
                               ELSE IF p = k THEN "dead" ELSE "victim"]
    /\ fds' = [p \in Pids |-> IF p \in Victims(q) THEN [f \in Fds |-> FreeFd] ELSE fds[p]]
    /\ reading' = [p \in Pids |-> IF p \in Victims(q) THEN -1 ELSE reading[p]]
    /\ UNCHANGED parent

-----------------------------------------------------------------------------
\* __init, and process 1 without descriptors.
Init ==
    /\ proc = [p \in Pids |-> IF p = 1 THEN "ready" ELSE "none"]
    /\ parent = [p \in Pids |-> 0]
    /\ fds = [p \in Pids |-> [f \in Fds |-> FreeFd]]
    /\ reading = [p \in Pids |-> -1]
    /\ mem = [pipes |-> [x \in Pipes |-> FreePipe], paths |-> {}, socks |-> {},
              refs |-> [s \in Socks |-> 0]]

Next ==
    \E p \in Pids :
        \/ Pipe(p)
        \/ OpenSocket(p)
        \/ Fork(p)
        \/ \E n \in 1 .. MaxBytes : PreadWake(p, n)
        \/ \E q \in Pids : DeclareChild(p, q)
        \/ \E q \in Pids : Kill(p, q)
        \/ \E f \in Fds \cup {-1} : Reopen(p, f)
        \/ \E f \in Fds :
              \/ Close(p, f)
              \/ Dup(p, f)
              \/ DupFd(p, f)
              \/ PreadSleep(p, f)
              \/ Pwrite(p, f)
              \/ \E n \in 1 .. MaxBytes : Pread(p, f, n)
              \/ \E g \in Fds : Dup2(p, f, g)

Spec == Init /\ [][Next]_vars

\* A sleeper whose 10 ms have passed is woken and gets the CPU: SleepersWake
\* and ReadyRuns of Process.
FairSpec == Spec /\ \A p \in Pids : WF_vars(\E n \in 1 .. MaxBytes : PreadWake(p, n))

-----------------------------------------------------------------------------
(* Properties. *)

ProcStates == {"none", "new", "ready", "asleep", "dead", "victim"}

PipeType == [used : BOOLEAN, data : 0 .. MaxBytes,
             readers : BoundedSeq(Pids, PIPE_MAX_REF), writers : BoundedSeq(Pids, PIPE_MAX_REF)]

Holders(type, x) == {p \in Pids : IsAlive(p) /\ \E f \in Fds : fds[p][f] = [type |-> type, ref |-> x]}

\* The type of the state; no list grows past its array, and a sleeper sleeps
\* for a descriptor to read (fm_pread holds on to its pipe).
TypeOK ==
    /\ proc \in [Pids -> ProcStates]
    /\ parent \in [Pids -> 0 .. MaxPid]
    /\ fds \in [Pids -> [Fds -> [type : FdTypes, ref : Pipes \cup Paths \cup Socks \cup {0}]]]
    /\ reading \in [Pids -> Fds \cup {-1}]
    /\ mem.pipes \in [Pipes -> PipeType]
    /\ \A p \in Pids : proc[p] = "asleep" => fds[p][reading[p]].type = "PPRD"

Entries(x, side, p) == LET list == mem.pipes[x][side]
                       IN  Cardinality({i \in DOMAIN list : list[i] = p})

\* A process has one entry in a pipe for each of its descriptors of that
\* side, in a pipe that is in use; a process that exited has none.  The lists
\* are kept by pid, in other calls than the descriptors (fm_dup2,
\* fm_declare_child, fm_close_data, __atdeath).
EntriesMatch ==
    \A p \in Pids : proc[p] \in {"ready", "asleep", "dead"} =>
        \A x \in Pipes : \A type \in {"PPRD", "PPWR"} :
            LET n == Cardinality({f \in Fds : fds[p][f] = [type |-> type, ref |-> x]})
            IN  Entries(x, Side(type), p) = n /\ (n > 0 => mem.pipes[x].used)

\* A pipe is taken only while a living process has a descriptor for it; one
\* that is lost for ever has an entry of a process that died in the context
\* of another (fm_close_data takes process_get_pid() out of the lists).
NoPipeLost ==
    \A x \in Pipes : mem.pipes[x].used =>
        \/ Holders("PPRD", x) \cup Holders("PPWR", x) # {}
        \/ \E p \in Pids : proc[p] = "victim" /\ Entries(x, "readers", p) + Entries(x, "writers", p) > 0

\* The path of a directory belongs to one descriptor and is freed with it
\* (fm_reopen and fm_dup2 allocate it, fm_close_data frees it).
PathsOwned ==
    LET Dirs == {d \in Pids \X Fds : fds[d[1]][d[2]].type = "DIR"}
    IN  /\ mem.paths = {fds[d[1]][d[2]].ref : d \in Dirs}
        /\ Cardinality(mem.paths) = Cardinality(Dirs)

\* The reference count of a socket is the number of descriptors of it, over
\* fork, dup and death (socket_inc_ref and socket_close_id are called here).
SocketRefs ==
    \A s \in mem.socks :
        mem.refs[s] = Cardinality({d \in Pids \X Fds :
                                     /\ proc[d[1]] # "new"
                                     /\ fds[d[1]][d[2]] = [type |-> "SOCK", ref |-> s]})

\* A process that reads a pipe nobody can write any more gets its answer,
\* also when writers died in another's context and left entries behind.
ReadersReturn ==
    \A p \in Pids : \A x \in Pipes :
        (proc[p] = "asleep" /\ fds[p][reading[p]].ref = x /\ Holders("PPWR", x) = {})
            ~> proc[p] # "asleep"

\* The two ends that a living process has open are listed: a reader sees no
\* end of file while there is a writer, and the pipe is not freed under
\* either (fm_declare_child: "add pid to all pipes").
OpenEndsListed ==
    \A x \in Pipes : \A type \in {"PPRD", "PPWR"} :
        {p \in Holders(type, x) : proc[p] # "new"} # {} =>
            mem.pipes[x].used /\ mem.pipes[x][Side(type)] # <<>>
=============================================================================
