----------------------------- MODULE Snowflake -----------------------------
(***************************************************************************)
(* The physical memory allocator of profanOS (kernel/system/snowflake.c).  *)
(*                                                                         *)
(* Blocks are described by records in the table MEM_PARTS, linked by their *)
(* next field from record 0 in the order of their addresses; the next of   *)
(* the last block is a free record, which ends the list and will describe  *)
(* the next block appended.  The table lies in a block of the memory it    *)
(* describes, and is moved to a larger one when few records are free.      *)
(*                                                                         *)
(* Nothing in the allocator calls schedule(), so a call is one action;     *)
(* only mem_free_all and mem_free_dir, which go along the list while they  *)
(* take blocks out of it, are one action per block they visit (Sweep).     *)
(*                                                                         *)
(* The searches along the list are stated by what they find.  That the     *)
(* list visits the blocks in the order of their addresses is ListSorted.   *)
(*                                                                         *)
(* Addresses are in units of a table record; arithmetic on them is modulo  *)
(* Word, as that of uint32_t.  Definitions with a suffix, such as          *)
(* Gap_Full, are mistakes the code does not make: the properties are       *)
(* tested against them.                                                    *)
(***************************************************************************)
EXTENDS Integers, FiniteSets

CONSTANTS
    BaseAddr,     \* MEM_BASE_ADDR: the block before all others, of size 1
    PhysSize,     \* phys_size
    Word,         \* 2^32: sums of addresses and sizes are modulo Word
    PARTS_COUNT,  \* records in the first table
    GROW_SIZE,    \* records added when it moves
    RecordSize,   \* sizeof(allocated_part_t)
    Sizes,        \* sizes that callers ask for
    Aligns,       \* alignments that callers ask for, 0 for none
    Kinds,        \* the states that callers ask for
    Pids,         \* pids of the processes that allocate
    Dirs,         \* page directories
    NoDir         \* a null directory

Spare == 4                \* the literal of dynamize_mem
KernelPid == 0            \* sys_error kills any process but the kernel
NoReturn == -2            \* sys_error killed the caller

\* phys_size is capped at 256 MB (SCUBA_MAP_MAX) and the first table has a few
\* kilobytes, so only what a caller asks for could make a sum of addresses and
\* sizes overflow; the requests considered do not.  The kernel has no pid of a
\* process, and no page directory is null.
ASSUME ConstantsAssumption ==
    /\ {BaseAddr, PhysSize, Word, PARTS_COUNT, GROW_SIZE, RecordSize} \subseteq Nat
    /\ PARTS_COUNT >= Spare + 2
    /\ RecordSize >= 1 /\ GROW_SIZE >= 1 /\ GROW_SIZE <= PARTS_COUNT
    /\ BaseAddr + 1 + RecordSize * PARTS_COUNT <= PhysSize
    /\ 3 * PhysSize < Word
    /\ Sizes \subseteq Nat /\ Aligns \subseteq Nat
    /\ \A size \in Sizes, align \in Aligns \cup {0} : PhysSize + size + align < Word
    /\ Pids \subseteq Nat \ {KernelPid}
    /\ NoDir \notin Dirs

Callers == {KernelPid} \cup Pids

\* SNOW_MM and SNOW_BASE are the allocator's, SNOW_SCUBA that of mem_alloc_dir.
CallerStates == {"SIMPLE", "KERNEL", "MOD", "ARGS", "SCUBA"}
States == CallerStates \cup {"FREE", "MM", "BASE"}

\* mem_free_all(pid, 0) when a process dies, mem_free_all(pid, SNOW_SIMPLE)
\* when it executes another program.
SweptStates == {"FREE", "SIMPLE"}

ASSUME KindsAssumption == Kinds \subseteq CallerStates

VARIABLES
    parts,    \* MEM_PARTS[0 .. part_size - 1]
    tableAt,  \* the address MEM_PARTS
    sweep,    \* the loop of mem_free_all or mem_free_dir, or NoSweep
    last,     \* arguments and result of the last call
    fatal     \* "no", or why sys_fatal stopped the machine

vars == <<parts, tableAt, sweep, last, fatal>>

NoCall == [size |-> 0, align |-> 0, addr |-> 0, ret |-> 0]
NoSweep == [on |-> FALSE, index |-> 0, by |-> "pid", pid |-> 0,
            state |-> "FREE", dir |-> NoDir, count |-> 0]

\* A free record: only its state is ever read.
FreePart == [state |-> "FREE", size |-> 0, addr |-> 0, next |-> 0,
             pid |-> 0, dir |-> NoDir]

-----------------------------------------------------------------------------
\* The table.  t stands for MEM_PARTS at some point of a call.

Used(t)   == {i \in DOMAIN t : t[i].state # "FREE"}
Unused(t) == DOMAIN t \ Used(t)

PartSize(t) == Cardinality(DOMAIN t)

Lowest(S) == CHOOSE i \in S : \A j \in S : i <= j

\* get_unused_index
UnusedIndex(t, not) == Lowest(Unused(t) \ {not})
NoIndex == -1

DelOccurence_None(t, index) == t

\* del_occurence: if the list ends at the record index, let it end at another.
DelOccurence(t, index) ==
    [i \in DOMAIN t |->
        IF i \in Used(t) /\ t[i].next = index
        THEN [t[i] EXCEPT !.next = UnusedIndex(t, index)]
        ELSE t[i]]

\* sums of uint32_t
Plus(a, b) == (a + b) % Word

End(p) == Plus(p.addr, p.size)

Gap_Full(addr, align) == IF align = 0 THEN 0 ELSE align - (addr % align)

\* what is lost before an aligned address
Gap(addr, align) == IF align = 0 THEN 0 ELSE (align - (addr % align)) % align

\* The search of mem_alloc_func stops after the used record i: it is the last
\* one, or the next block is far enough.
StopsAfter(t, i, size, align) ==
    LET n    == t[i].next
        need == Plus(size, Gap(End(t[i]), align))
    IN  n \in Used(t) => t[n].addr - End(t[i]) >= need

\* old_index: the record in the order of addresses after which it stops
StopIndex(t, size, align) ==
    LET stops == {i \in Used(t) : StopsAfter(t, i, size, align)}
    IN  CHOOSE i \in stops : \A j \in stops : t[i].addr <= t[j].addr

\* exit_mode 1 or 2: the list ends there
AtTail(t, i) == t[i].next \in Unused(t)

\* exit_mode 2: no room behind the last block
OutOfMemory(t, i, size, align) ==
    /\ AtTail(t, i)
    /\ Plus(Plus(End(t[i]), size), Gap(End(t[i]), align)) > PhysSize

\* get_unused_index is called without a free record to return.
OutOfRecords(t, i) ==
    IF AtTail(t, i)
    THEN Unused(t) = {t[i].next}
    ELSE \/ Unused(t) = {}
         \/ \E j \in Used(t) : Unused(t) = {t[j].next}

\* The last part of mem_alloc_func: record p after record i.
Insert(t, i, p) ==
    IF AtTail(t, i)
    THEN [t EXCEPT ![t[i].next] = [p EXCEPT !.next = UnusedIndex(t, t[i].next)]]
    ELSE LET new == UnusedIndex(t, NoIndex)
             d   == DelOccurence(t, new)
         IN  [d EXCEPT ![i].next = new, ![new] = [p EXCEPT !.next = t[i].next]]

\* The block that mem_alloc_func makes for the request r after record i.
NewPart(t, i, r) ==
    [state |-> r.state, size |-> r.size,
     addr |-> Plus(End(t[i]), Gap(End(t[i]), r.align)),
     next |-> 0, pid |-> r.pid, dir |-> r.dir]

\* mem_free_addr: the first block of the list is never the one it finds.
Holders(t, addr) ==
    {i \in Used(t) : t[i].next \in Used(t) /\ t[t[i].next].addr = addr}

Remove(t, addr) ==
    LET prev  == CHOOSE i \in Holders(t, addr) : TRUE
        index == t[prev].next
    IN  [t EXCEPT ![prev].next = t[index].next, ![index] = FreePart]

-----------------------------------------------------------------------------
\* dynamize_mem

Grows_Late == Unused(parts) = {}

Grows == Cardinality(Unused(parts)) <= Spare

NewTableSize == RecordSize * (PartSize(parts) + GROW_SIZE)
NewTableStop == StopIndex(parts, NewTableSize, 0)
NewTable     == NewPart(parts, NewTableStop,
                        [size |-> NewTableSize, align |-> 0, state |-> "MM",
                         pid |-> 0, dir |-> NoDir])

\* mem_set and mem_copy into the new table, once it has a record of its own
Grown(t) ==
    [i \in 0 .. PartSize(t) + GROW_SIZE - 1 |-> IF i \in DOMAIN t THEN t[i] ELSE FreePart]

Dynamized_CopyFirst ==
    IF Grows
    THEN Remove(Grown(parts), tableAt)
    ELSE parts

\* The table in which the block is allocated, and its address.
Dynamized ==
    IF Grows
    THEN Remove(Grown(Insert(parts, NewTableStop, NewTable)), tableAt)
    ELSE parts

DynamizedAt == IF Grows THEN NewTable.addr ELSE tableAt

GrowFails   == Grows /\ OutOfMemory(parts, NewTableStop, NewTableSize, 0)
GrowStarves == Grows /\ OutOfRecords(parts, NewTableStop)

-----------------------------------------------------------------------------
\* mem_alloc and mem_alloc_dir

Init ==
    /\ parts = [i \in 0 .. PARTS_COUNT - 1 |->
                    CASE i = 0 -> [FreePart EXCEPT !.state = "BASE", !.size = 1,
                                                   !.addr = BaseAddr, !.next = 1]
                      [] i = 1 -> [FreePart EXCEPT !.state = "MM", !.addr = BaseAddr + 1,
                                                   !.size = RecordSize * PARTS_COUNT,
                                                   !.next = 2]
                      [] OTHER -> FreePart]
    /\ tableAt = BaseAddr + 1
    /\ sweep = NoSweep
    /\ last = NoCall
    /\ fatal = "no"

Ready == ~sweep.on /\ fatal = "no"

MemAlloc_PidIsArg(cur, size, state, arg) ==
    [size |-> size, state |-> state, dir |-> NoDir, align |-> arg, pid |-> arg]

\* mem_alloc: the third argument is a pid for SNOW_ARGS, an alignment otherwise.
MemAlloc(cur, size, state, arg) ==
    [size |-> size, state |-> state, dir |-> NoDir,
     align |-> IF state = "ARGS" THEN 0 ELSE arg,
     pid |-> CASE state = "SIMPLE" -> cur
               [] state = "ARGS"   -> IF arg = 0 THEN cur ELSE arg
               [] OTHER            -> 0]

MemAllocDir(size, align, pid, dir) ==
    [size |-> size, state |-> "SCUBA", dir |-> dir, align |-> align, pid |-> pid]

\* The pages of an address space are tagged with it; the directory itself has
\* a null dir.
PageDirs == IF "SCUBA" \in Kinds THEN Dirs \cup {NoDir} ELSE {}

Requests(cur) ==
    {MemAlloc(cur, size, state, align) :
        size \in Sizes, state \in Kinds \ {"ARGS", "SCUBA"}, align \in Aligns}
    \cup {MemAlloc(cur, size, state, pid) :
        size \in Sizes, state \in Kinds \cap {"ARGS"}, pid \in {0} \cup Pids}
    \cup {MemAllocDir(size, align, pid, dir) :
        size \in Sizes, align \in Aligns, pid \in Callers, dir \in PageDirs}

Returns(r, value) == [size |-> r.size, align |-> r.align, addr |-> 0, ret |-> value]

\* sys_error does not return to a process; it does to the kernel.
NotAvailable(cur, r) == Returns(r, IF cur # KernelPid THEN NoReturn ELSE 0)

AllocNothing(r) ==
    /\ Ready
    /\ r.size = 0
    /\ last' = Returns(r, 0)
    /\ UNCHANGED <<parts, tableAt, sweep, fatal>>

\* A process is killed before dynamize_mem sees the failure; the kernel stops.
AllocNoTable(cur, r) ==
    /\ Ready
    /\ r.size # 0
    /\ GrowFails
    /\ IF cur # KernelPid
       THEN last' = NotAvailable(cur, r) /\ UNCHANGED fatal
       ELSE fatal' = "dynamize" /\ UNCHANGED last
    /\ UNCHANGED <<parts, tableAt, sweep>>

\* The table has been moved if that was due, whether there is room or not.
AllocFails(cur, r) ==
    /\ Ready
    /\ r.size # 0
    /\ ~GrowFails /\ ~GrowStarves
    /\ OutOfMemory(Dynamized, StopIndex(Dynamized, r.size, r.align), r.size, r.align)
    /\ parts' = Dynamized
    /\ tableAt' = DynamizedAt
    /\ last' = NotAvailable(cur, r)
    /\ UNCHANGED <<sweep, fatal>>

AllocBlock(r) ==
    LET t == Dynamized
        i == StopIndex(t, r.size, r.align)
        p == NewPart(t, i, r)
    IN  /\ Ready
        /\ r.size # 0
        /\ ~GrowFails
        /\ ~GrowStarves => ~OutOfMemory(t, i, r.size, r.align)
        /\ IF GrowStarves \/ OutOfRecords(t, i)
           THEN fatal' = "records" /\ UNCHANGED <<parts, tableAt, last>>
           ELSE /\ parts' = Insert(t, i, p)
                /\ tableAt' = DynamizedAt
                /\ last' = Returns(r, p.addr)
                /\ UNCHANGED fatal
        /\ UNCHANGED sweep

-----------------------------------------------------------------------------
\* mem_free_addr, called with the address of a block or with any other, but
\* not with that of the table, which nobody is given.

FreeAddr(addr) ==
    /\ Ready
    /\ IF Holders(parts, addr) # {}
       THEN parts' = Remove(parts, addr) /\ last' = [NoCall EXCEPT !.addr = addr, !.ret = 0]
       ELSE UNCHANGED parts /\ last' = [NoCall EXCEPT !.addr = addr, !.ret = 1]
    /\ UNCHANGED <<tableAt, sweep, fatal>>

\* mem_alloc_fetch; arg 0 asks for the size
Fetch(addr, arg) ==
    LET found == {i \in Used(parts) : parts[i].addr = addr}
        answer(value) == last' = [NoCall EXCEPT !.addr = addr, !.ret = value]
    IN  /\ Ready
        /\ \/ found = {} /\ answer(-1) /\ UNCHANGED parts
           \/ \E i \in found :
                IF arg = 0
                THEN answer(parts[i].size) /\ UNCHANGED parts
                ELSE IF parts[i].state \notin {"SIMPLE", "ARGS"}
                     THEN answer(-1) /\ UNCHANGED parts
                     ELSE answer(0) /\ parts' = [parts EXCEPT ![i].pid = arg]
        /\ UNCHANGED <<tableAt, sweep, fatal>>

-----------------------------------------------------------------------------
\* mem_free_all and mem_free_dir

FreeAll(pid, state) ==
    /\ Ready
    /\ sweep' = [NoSweep EXCEPT !.on = TRUE, !.by = "pid", !.pid = pid, !.state = state]
    /\ UNCHANGED <<parts, tableAt, last, fatal>>

FreeDir(dir) ==
    /\ Ready
    /\ sweep' = [NoSweep EXCEPT !.on = TRUE, !.by = "dir", !.dir = dir]
    /\ UNCHANGED <<parts, tableAt, last, fatal>>

Selected_Pages(p) ==
    IF sweep.by = "dir" THEN p.dir = sweep.dir ELSE p.pid = sweep.pid

Selected(p) ==
    IF sweep.by = "dir"
    THEN p.dir = sweep.dir
    ELSE /\ p.pid = sweep.pid
         /\ \/ sweep.state = "FREE" /\ p.state # "SCUBA"
            \/ p.state = sweep.state

SweepStep_FromHead ==
    LET p == parts[sweep.index]
    IN  /\ sweep.on
        /\ p.state # "FREE"
        /\ sweep' = [sweep EXCEPT !.index = IF Selected(p) THEN p.next ELSE 0,
                                  !.count = @ + IF Selected(p) THEN 1 ELSE 0]
        /\ parts' = IF Selected(p) THEN Remove(parts, p.addr) ELSE parts
        /\ UNCHANGED <<tableAt, last, fatal>>

\* The loop goes on from the record it has just freed.
SweepStep ==
    LET p == parts[sweep.index]
    IN  /\ sweep.on
        /\ p.state # "FREE"
        /\ sweep' = [sweep EXCEPT !.index = p.next,
                                  !.count = @ + IF Selected(p) THEN 1 ELSE 0]
        /\ parts' = IF Selected(p) THEN Remove(parts, p.addr) ELSE parts
        /\ UNCHANGED <<tableAt, last, fatal>>

SweepEnd ==
    /\ sweep.on
    /\ parts[sweep.index].state = "FREE"
    /\ last' = [NoCall EXCEPT !.ret = sweep.count]
    /\ sweep' = NoSweep
    /\ UNCHANGED <<parts, tableAt, fatal>>

-----------------------------------------------------------------------------

\* The addresses that callers pass: those of their blocks, and a wrong one.
Addresses ==
    {parts[i].addr : i \in {j \in Used(parts) : parts[j].state \notin {"BASE", "MM"}}}
    \cup {PhysSize}

Next ==
    \/ \E cur \in Callers : \E r \in Requests(cur) :
        \/ AllocNothing(r)
        \/ AllocNoTable(cur, r)
        \/ AllocFails(cur, r)
        \/ AllocBlock(r)
    \/ \E addr \in Addresses : FreeAddr(addr)
    \/ \E addr \in Addresses, arg \in {0} \cup Pids : Fetch(addr, arg)
    \/ \E pid \in Pids, state \in SweptStates : FreeAll(pid, state)
    \/ \E dir \in Dirs : FreeDir(dir)
    \/ SweepStep
    \/ SweepEnd

\* The kernel finishes the loop it is in.
Spec == Init /\ [][Next]_vars /\ WF_vars(SweepStep) /\ WF_vars(SweepEnd)

-----------------------------------------------------------------------------
(***************************************************************************)
(* Properties                                                              *)
(***************************************************************************)

Part == [state : States, size : Nat, addr : Nat, next : Nat,
         pid : Callers, dir : Dirs \cup {NoDir}]

\* Every record has the fields of allocated_part_t, and next and the loop
\* index of a sweep are indices of the table.
TypeOK ==
    /\ parts \in [0 .. PartSize(parts) - 1 -> Part]
    /\ \A i \in Used(parts) : parts[i].next \in DOMAIN parts
    /\ tableAt \in Nat
    /\ sweep.on \in BOOLEAN /\ sweep.index \in DOMAIN parts /\ sweep.count \in Nat
    /\ last.ret \in Int
    /\ fatal \in {"no", "records", "dynamize"}

\* next leads to the block that comes next in memory, and the two do not
\* overlap; the next of the last block is free.
InOrder(t) ==
    \A i \in Used(t) :
        LET n == t[i].next IN
        IF n \in Used(t)
        THEN /\ t[i].addr + t[i].size <= t[n].addr
             /\ \A j \in Used(t) \ {i, n} :
                    t[j].addr < t[i].addr \/ t[j].addr > t[n].addr
        ELSE /\ n \in Unused(t)
             /\ \A j \in Used(t) \ {i} : t[j].addr < t[i].addr

\* The list that mem_alloc_func and mem_free_addr follow visits every block
\* in the order of the addresses and ends at a free record.
ListSorted == InOrder(parts)

\* The table describes itself: MEM_PARTS is the address of the only block of
\* state SNOW_MM, which is as large as the table, so growing it loses neither
\* the new block nor the old one.
TableInOwnBlock ==
    \E i \in Used(parts) :
        /\ parts[i].state = "MM" /\ parts[i].addr = tableAt
        /\ parts[i].size = RecordSize * PartSize(parts)
        /\ \A j \in Used(parts) \ {i} : parts[j].state # "MM"

\* dynamize_mem keeps enough free records in reserve that get_unused_index
\* always finds one, for the new table and for the block after it ("No more
\* memory, dynamizing do not work" is never reached).
RecordsSuffice == fatal # "records"

\* mem_free_all and mem_free_dir come to the end of the list although they
\* continue from the records they free.
SweepsEnd == sweep.on ~> ~sweep.on

(***************************************************************************)
(* The allocator implements the abstract Heap.  A sweep takes effect when  *)
(* it begins: what it selects is no block of the heap any more, and is     *)
(* counted already.  If it left a block behind, that block would come back *)
(* at its end, which no step of the Heap allows.                           *)
(***************************************************************************)
AsBlock(i) == [addr |-> parts[i].addr, size |-> parts[i].size,
               state |-> parts[i].state, pid |-> parts[i].pid, dir |-> parts[i].dir]

Clients == {i \in Used(parts) : parts[i].state \notin {"BASE", "MM"}}

ToSweep == {i \in Clients : sweep.on /\ Selected(parts[i])}

Heap == INSTANCE Heap WITH
    First  <- BaseAddr + 1,
    blocks <- {AsBlock(i) : i \in Clients \ ToSweep},
    table  <- AsBlock(CHOOSE i \in Used(parts) : parts[i].state = "MM"),
    last   <- IF sweep.on
              THEN [NoCall EXCEPT !.ret = sweep.count + Cardinality(ToSweep)]
              ELSE last

\* Blocks are apart and inside the memory, requests are refused only when
\* there is no room for them, and a free takes exactly what it names.
ImplementsHeap == Heap!HeapSpec
=============================================================================
