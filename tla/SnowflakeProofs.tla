-------------------------- MODULE SnowflakeProofs --------------------------
(***************************************************************************)
(* The invariants of the allocator, for every size of the memory and every *)
(* set of requests that the assumptions of Snowflake allow.                *)
(*                                                                         *)
(* The properties that are checked are not inductive: that the list stays  *)
(* in order depends on every block ending inside the memory (or the sums   *)
(* of uint32_t would wrap), that free records suffice depends on the       *)
(* reserve that the last call left, and that a sweep only frees what may   *)
(* be freed on the blocks of the allocator having no owner.  Inv adds      *)
(* these to them; SweepAhead is what the refinement in SnowflakeHeap needs *)
(* of a sweep.                                                             *)
(***************************************************************************)
EXTENDS SnowflakeTable

\* The loop of mem_free_all or mem_free_dir stands at a record of the table;
\* it is called with the pid of a process or a directory, never with 0.
SweepType ==
    /\ sweep \in [on : BOOLEAN, index : Nat, by : {"pid", "dir"}, pid : {0} \cup Pids,
                  state : SweptStates, dir : Dirs \cup {NoDir}, count : Nat]
    /\ IF sweep.on
       THEN /\ sweep.index \in DOMAIN parts
            /\ IF sweep.by = "dir" THEN sweep.dir \in Dirs ELSE sweep.pid \in Pids
       ELSE sweep = NoSweep

\* What a sweep still has to free lies ahead of it: not below the block it
\* looks at, and nowhere when it has come to the end of the list.
SweepAhead ==
    sweep.on => IF sweep.index \in Used(parts)
                THEN \A k \in ToSweep : parts[sweep.index].addr <= parts[k].addr
                ELSE ToSweep = {}

\* The inductive invariant: between two calls, and between two blocks that a
\* sweep visits, the table is healthy and the machine is not out of records.
Inv ==
    /\ Healthy(parts, tableAt)
    /\ SweepType
    /\ SweepAhead
    /\ last.ret \in Int
    /\ fatal \in {"no", "dynamize"}

\* The addresses of a table lie in the memory, from that of the first block.
LEMMA HealthyAddresses ==
    ASSUME NEW t, NEW at, Healthy(t, at)
    PROVE  /\ at \in Nat
           /\ 0 \in Used(t) /\ 0 \in DOMAIN t /\ t[0].addr = BaseAddr
           /\ \A i \in Used(t) : t[i].addr \in Nat /\ t[i].addr < PhysSize
           /\ \A i \in Used(t) : t[i].addr >= BaseAddr
<1>1. Sound(t)
  BY DEF Healthy
<1>2. PICK i \in DOMAIN t : TableIs(t, i, at)
  BY DEF Healthy
<1>3. at \in Nat
  BY <1>1, <1>2, Fields DEF TableIs
<1>4. 0 \in Used(t) /\ 0 \in DOMAIN t /\ t[0].addr = BaseAddr
  BY <1>1 DEF Sound, Used
<1>5. ASSUME NEW k \in Used(t)
      PROVE  t[k].addr \in Nat /\ t[k].addr < PhysSize /\ t[k].addr >= BaseAddr
  <2>1. t[k].addr \in Nat /\ t[k].size \in Nat /\ t[k].size >= 1
        /\ t[k].addr + t[k].size <= PhysSize
    BY <1>1, Fields
  <2>2. t[k].addr >= BaseAddr
    BY <1>1, <2>1, Sizing DEF Sound
  <2>. QED
    BY <2>1, <2>2, Sizing
<1>. QED
  BY <1>3, <1>4, <1>5

\* While nothing is swept the invariant is about the table alone.
LEMMA InvWhenReady ==
    ASSUME ~sweep.on, SweepType, UNCHANGED sweep, Healthy(parts', tableAt'),
           last'.ret \in Int, fatal' \in {"no", "dynamize"}
    PROVE  Inv'
<1>1. ~sweep'.on /\ SweepType'
  BY DEF SweepType
<1>2. SweepAhead'
  BY <1>1 DEF SweepAhead
<1>. QED
  BY <1>1, <1>2 DEF Inv

-----------------------------------------------------------------------------
\* mem_init makes a healthy table: the block before all others, then that of
\* the table itself, which the free record 2 ends.
LEMMA InitHealthy ==
    ASSUME Init
    PROVE  Healthy(parts, tableAt)
<1>. DEFINE base  == [FreePart EXCEPT !.state = "BASE", !.size = 1,
                                      !.addr = BaseAddr, !.next = 1]
            n == PARTS_COUNT
<1>1. RecordSize * PARTS_COUNT \in Nat /\ RecordSize * PARTS_COUNT >= 1
  <2>1. RecordSize * 1 <= RecordSize * PARTS_COUNT /\ RecordSize * PARTS_COUNT \in Nat
    BY Product, Sizing, ConstantsAssumption DEF Spare
  <2>. QED
    BY <2>1, Sizing
<1>2. PICK s \in Nat : s = RecordSize * PARTS_COUNT
  BY <1>1
<1>0. PICK first \in Nat : first = BaseAddr + 1
  BY Sizing
<1>. DEFINE table == [FreePart EXCEPT !.state = "MM", !.addr = first,
                                      !.size = s, !.next = 2]
<1>3. /\ s >= 1 /\ BaseAddr + 1 + s <= PhysSize
      /\ n \in Nat /\ n >= 6
  BY <1>1, <1>2, ConstantsAssumption DEF Spare
<1>4. /\ base \in Part /\ base.state = "BASE" /\ base.size = 1 /\ base.addr = BaseAddr
      /\ base.next = 1 /\ base.pid = 0 /\ base.dir = NoDir
  BY Sizing DEF Part, FreePart, States, Callers, KernelPid
<1>5. /\ table \in Part /\ table.state = "MM" /\ table.size = s
      /\ table.addr = first /\ table.next = 2 /\ table.pid = 0 /\ table.dir = NoDir
  BY <1>3 DEF Part, FreePart, States, Callers, KernelPid
<1>6. parts = [i \in 0 .. n - 1 |-> CASE i = 0 -> base [] i = 1 -> table [] OTHER -> FreePart]
  BY <1>0, <1>2 DEF Init
<1>. HIDE DEF base, table, n
<1>7. parts[0] = base /\ parts[1] = table /\ \A i \in 2 .. n - 1 : parts[i] = FreePart
  BY <1>3, <1>6
<1>8. DOMAIN parts = 0 .. n - 1 /\ 0 \in DOMAIN parts /\ 1 \in DOMAIN parts /\ 2 \in 2 .. n - 1
      /\ \A i \in DOMAIN parts : i = 0 \/ i = 1 \/ i \in 2 .. n - 1
  BY <1>3, <1>6
<1>9. PartSize(parts) = n
  BY <1>3, <1>8, FS_Interval DEF PartSize
<1>10. IsTable(parts)
  <2>1. \A i \in DOMAIN parts : parts[i] \in Part
    BY <1>4, <1>5, <1>7, <1>8, FreePartType
  <2>. QED
    BY <2>1, <1>3, <1>6, <1>8, <1>9 DEF IsTable
<1>11. Used(parts) = {0, 1} /\ Unused(parts) = 2 .. n - 1
  <2>1. Used(parts) = {0, 1}
    BY <1>0, <1>3, <1>4, <1>5, <1>7, <1>8, FreePartType DEF Used
  <2>. QED
    BY <2>1, <1>3, <1>8 DEF Unused
<1>12. Cardinality(Unused(parts)) >= Spare
  <2>1. Cardinality(2 .. n - 1) = n - 1 - 2 + 1
    BY <1>3, FS_Interval
  <2>. QED
    BY <2>1, <1>3, <1>11 DEF Spare
<1>13. InOrder(parts)
  BY <1>0, <1>3, <1>4, <1>5, <1>7, <1>8, <1>11, Sizing DEF InOrder
<1>14. Sound(parts)
  BY <1>0, <1>3, <1>4, <1>5, <1>7, <1>8, <1>11, <1>13, Sizing DEF Sound
<1>15. TableIs(parts, 1, tableAt)
  BY <1>0, <1>2, <1>4, <1>5, <1>7, <1>9, <1>11 DEF TableIs, Init, n
<1>16. Untagged(parts)
  BY <1>4, <1>5, <1>7, <1>11 DEF Untagged
<1>. QED
  BY <1>8, <1>10, <1>12, <1>14, <1>15, <1>16 DEF Healthy

\* The invariant holds when mem_init has run.
LEMMA InitInv ==
    Init => Inv
<1>. SUFFICES ASSUME Init PROVE Inv
  OBVIOUS
<1>1. Healthy(parts, tableAt)
  BY InitHealthy
<1>2. sweep = NoSweep /\ last = NoCall /\ fatal = "no"
  BY DEF Init
<1>3. SweepType
  BY <1>2 DEF SweepType, NoSweep, SweptStates
<1>4. SweepAhead
  BY <1>2 DEF SweepAhead, NoSweep
<1>. QED
  BY <1>1, <1>2, <1>3, <1>4 DEF Inv, NoCall

-----------------------------------------------------------------------------
\* A request of size 0 changes nothing.
LEMMA NothingInv ==
    ASSUME Inv, NEW cur \in Callers, NEW r \in Requests(cur), AllocNothing(r)
    PROVE  Inv'
BY InvWhenReady DEF Inv, AllocNothing, Ready, Returns

\* A request that finds no room for a larger table changes nothing, whether it
\* kills the caller or stops the kernel.
LEMMA NoTableInv ==
    ASSUME Inv, NEW cur \in Callers, NEW r \in Requests(cur), AllocNoTable(cur, r)
    PROVE  Inv'
BY InvWhenReady DEF Inv, AllocNoTable, Ready, Returns, NotAvailable, NoReturn

\* A request that finds no room may have moved the table; it is healthy.
LEMMA FailsInv ==
    ASSUME Inv, NEW cur \in Callers, NEW r \in Requests(cur), AllocFails(cur, r)
    PROVE  Inv'
<1>1. Healthy(Dynamized, DynamizedAt)
  BY DynamizedHealthy DEF Inv, AllocFails
<1>. QED
  BY <1>1, InvWhenReady DEF Inv, AllocFails, Ready, Returns, NotAvailable, NoReturn

\* The records that dynamize_mem keeps always suffice, so the block is made.
LEMMA BlockMade ==
    ASSUME Inv, NEW cur \in Callers, NEW r \in Requests(cur), AllocBlock(r),
           NEW i, i = StopIndex(Dynamized, r.size, r.align),
           NEW p, p = NewPart(Dynamized, i, r)
    PROVE  /\ ~sweep.on /\ UNCHANGED <<sweep, fatal>>
           /\ ~GrowFails /\ ~OutOfMemory(Dynamized, i, r.size, r.align)
           /\ Moderate(r.size, r.align) /\ r.size >= 1
           /\ parts' = Insert(Dynamized, i, p) /\ tableAt' = DynamizedAt
           /\ last' = Returns(r, p.addr)
           /\ Healthy(Dynamized, DynamizedAt) /\ SameClients(parts, Dynamized)
           /\ Healthy(parts', tableAt') /\ PartSize(parts') = PartSize(Dynamized)
           /\ \E new \in Unused(Dynamized) :
                /\ Mine(parts') = Mine(Dynamized) \cup {new} /\ Same(parts'[new], p)
                /\ \A k \in Used(Dynamized) : k \in Used(parts') /\ Same(parts'[k], Dynamized[k])
<1>1. ~sweep.on /\ r.size # 0 /\ ~GrowFails /\ UNCHANGED sweep
  BY DEF AllocBlock, Ready
<1>2. /\ ~GrowStarves /\ Healthy(Dynamized, DynamizedAt)
      /\ Cardinality(Unused(Dynamized)) >= Spare + 1
      /\ SameClients(parts, Dynamized)
  BY <1>1, DynamizedHealthy DEF Inv
<1>3. ~OutOfMemory(Dynamized, i, r.size, r.align)
  BY <1>2 DEF AllocBlock
<1>4. /\ Moderate(r.size, r.align) /\ r.size >= 1
      /\ r.state \in CallerStates /\ r.pid \in Callers /\ r.dir \in Dirs \cup {NoDir}
  BY <1>1, RequestType DEF Moderate
<1>. DEFINE t == Dynamized
            u == Insert(Dynamized, i, p)
<1>. HIDE DEF t, u
<1>5. /\ ~OutOfRecords(t, i)
      /\ Healthy(u, DynamizedAt)
      /\ \E new \in Unused(t) : /\ Mine(u) = Mine(t) \cup {new} /\ Same(u[new], p)
                                /\ \A k \in Used(t) : k \in Used(u) /\ Same(u[k], t[k])
      /\ PartSize(u) = PartSize(t)
  BY <1>2, <1>3, <1>4, AllocHealthy DEF t, u
<1>6. /\ parts' = u /\ tableAt' = DynamizedAt
      /\ last' = Returns(r, p.addr) /\ UNCHANGED fatal
  BY <1>2, <1>5 DEF AllocBlock, t, u
<1>. QED
  BY <1>1, <1>2, <1>3, <1>4, <1>5, <1>6 DEF t, u

\* An allocation, with or without a move of the table, keeps the invariant.
LEMMA BlockInv ==
    ASSUME Inv, NEW cur \in Callers, NEW r \in Requests(cur), AllocBlock(r)
    PROVE  Inv'
<1>. DEFINE i == StopIndex(Dynamized, r.size, r.align)
            p == NewPart(Dynamized, i, r)
<1>. HIDE DEF i, p
<1>1. /\ ~sweep.on /\ UNCHANGED <<sweep, fatal>> /\ last' = Returns(r, p.addr)
      /\ ~OutOfMemory(Dynamized, i, r.size, r.align)
      /\ Moderate(r.size, r.align)
      /\ Healthy(Dynamized, DynamizedAt) /\ Healthy(parts', tableAt')
  BY BlockMade DEF i, p
<1>2. p.addr \in Nat
  BY <1>1, NewPartFits DEF i, p, Healthy
<1>3. last'.ret \in Int
  BY <1>1, <1>2 DEF Returns
<1>. QED
  BY <1>1, <1>3, InvWhenReady DEF Inv

\* A free by address takes out a block of a caller, or nothing.
LEMMA FreeAddrBlock ==
    ASSUME Healthy(parts, tableAt), NEW addr \in Addresses
    PROVE  IF Holders(parts, addr) = {}
           THEN \A i \in Mine(parts) : parts[i].addr # addr
           ELSE \E j \in Mine(parts) : parts[j].addr = addr
<1>1. Sound(parts) /\ IsTable(parts)
  BY DEF Healthy
<1>2. \A i \in Used(parts) : parts[i].addr # PhysSize
  <2>. SUFFICES ASSUME NEW i \in Used(parts) PROVE parts[i].addr # PhysSize
    OBVIOUS
  <2>1. parts[i].addr \in Nat /\ parts[i].addr < PhysSize
    BY HealthyAddresses
  <2>. QED
    BY <2>1, Sizing
<1>3. ASSUME NEW j \in Mine(parts), parts[j].addr = addr
      PROVE  Holders(parts, addr) # {}
  <2>1. j \in Used(parts) /\ j # 0
    BY <1>1 DEF Mine, Sound
  <2>2. PICK i \in Used(parts) : parts[i].next = j
    BY <1>1, <2>1, HolderExists
  <2>. QED
    BY <2>1, <2>2, <1>3 DEF Holders
<1>4. CASE addr = PhysSize
  <2>1. Holders(parts, addr) = {}
    BY <1>2, <1>4 DEF Holders
  <2>. QED
    BY <2>1, <1>2, <1>4 DEF Mine
<1>5. CASE \E j \in Mine(parts) : parts[j].addr = addr
  BY <1>3, <1>5
<1>. QED
  BY <1>4, <1>5 DEF Addresses, Mine

\* A free by address keeps the invariant, of a block or of a wrong address.
LEMMA FreeAddrInv ==
    ASSUME Inv, NEW a \in Addresses, FreeAddr(a)
    PROVE  Inv'
<1>1. Healthy(parts, tableAt) /\ ~sweep.on /\ SweepType
  BY DEF Inv, FreeAddr, Ready
<1>2. UNCHANGED <<tableAt, sweep, fatal>> /\ last'.ret \in Int
  <2>1. \/ last' = [NoCall EXCEPT !.addr = a, !.ret = 0]
        \/ last' = [NoCall EXCEPT !.addr = a, !.ret = 1]
    BY DEF FreeAddr
  <2>2. CASE last' = [NoCall EXCEPT !.addr = a, !.ret = 0]
    BY <2>2 DEF NoCall, FreeAddr
  <2>3. CASE last' = [NoCall EXCEPT !.addr = a, !.ret = 1]
    BY <2>3 DEF NoCall, FreeAddr
  <2>. QED
    BY <2>1, <2>2, <2>3 DEF FreeAddr
<1>3. Healthy(parts', tableAt')
  <2>1. CASE Holders(parts, a) = {}
    BY <1>1, <1>2, <2>1 DEF FreeAddr
  <2>2. CASE Holders(parts, a) # {}
    <3>1. PICK j \in Mine(parts) : parts[j].addr = a
      BY <1>1, <2>2, FreeAddrBlock
    <3>2. parts' = Remove(parts, parts[j].addr)
      BY <2>2, <3>1 DEF FreeAddr
    <3>. QED
      BY <1>1, <1>2, <3>2, FreeHealthy
  <2>. QED
    BY <2>1, <2>2
<1>. QED
  BY <1>1, <1>2, <1>3, InvWhenReady DEF Inv

\* mem_alloc_fetch changes at most the owner of a block of a caller.
LEMMA FetchInv ==
    ASSUME Inv, NEW addr \in Addresses, NEW arg \in {0} \cup Pids, Fetch(addr, arg)
    PROVE  Inv'
<1>1. Healthy(parts, tableAt) /\ ~sweep.on /\ SweepType
  BY DEF Inv, Fetch, Ready
<1>2. UNCHANGED <<tableAt, sweep, fatal>>
  BY DEF Fetch
<1>3. \/ last'.ret = -1 /\ UNCHANGED parts
      \/ \E i \in Used(parts) : last'.ret = parts[i].size /\ UNCHANGED parts
      \/ \E i \in Mine(parts) : /\ last'.ret = 0 /\ parts' = [parts EXCEPT ![i].pid = arg]
                                /\ arg \in Pids
  BY DEF Fetch, NoCall, Mine
<1>4. Healthy(parts', tableAt') /\ last'.ret \in Int
  <2>1. CASE last'.ret = -1 /\ UNCHANGED parts
    BY <2>1, <1>1, <1>2
  <2>2. CASE \E i \in Used(parts) : last'.ret = parts[i].size /\ UNCHANGED parts
    BY <2>2, <1>1, <1>2, Fields DEF Healthy
  <2>3. CASE \E i \in Mine(parts) : /\ last'.ret = 0 /\ parts' = [parts EXCEPT ![i].pid = arg]
                                    /\ arg \in Pids
    <3>1. PICK i \in Mine(parts) : last'.ret = 0 /\ parts' = [parts EXCEPT ![i].pid = arg]
      BY <2>3
    <3>2. arg \in Callers
      BY <2>3 DEF Callers
    <3>3. Healthy(parts', tableAt)
      BY <3>1, <3>2, <1>1, OwnerHealthy
    <3>. QED
      BY <3>1, <3>3, <1>2
  <2>. QED
    BY <1>3, <2>1, <2>2, <2>3
<1>. QED
  BY <1>1, <1>2, <1>4, InvWhenReady DEF Inv

-----------------------------------------------------------------------------
\* Only blocks of callers are ever selected: those of the allocator have no
\* owner that a sweep is called with.
LEMMA SelectedMine ==
    ASSUME Healthy(parts, tableAt), SweepType, sweep.on, NEW i \in Used(parts),
           Selected(parts[i])
    PROVE  i \in Mine(parts) /\ i \in ToSweep
<1>1. CASE parts[i].state \in {"BASE", "MM"}
  <2>1. parts[i].pid = 0 /\ parts[i].dir = NoDir
    BY <1>1 DEF Healthy, Untagged
  <2>2. 0 \notin Pids /\ NoDir \notin Dirs
    BY ConstantsAssumption DEF KernelPid
  <2>. QED
    BY <2>1, <2>2 DEF Selected, SweepType
<1>2. CASE parts[i].state \notin {"BASE", "MM"}
  BY <1>2 DEF Mine, ToSweep, Clients
<1>. QED
  BY <1>1, <1>2

\* mem_free_all and mem_free_dir begin at the lowest block, so all that they
\* select lies ahead.
LEMMA SweepBegins ==
    ASSUME Inv, NEW pid, NEW state, NEW dir,
           \/ FreeAll(pid, state) /\ pid \in Pids /\ state \in SweptStates
           \/ FreeDir(dir) /\ dir \in Dirs
    PROVE  Inv'
<1>1. Healthy(parts, tableAt) /\ UNCHANGED <<parts, tableAt, last, fatal>>
  BY DEF Inv, FreeAll, FreeDir
<1>2. /\ sweep'.on /\ sweep'.index = 0 /\ SweepType'
  <2>1. CASE FreeAll(pid, state) /\ pid \in Pids /\ state \in SweptStates
    <3>1. sweep' = [NoSweep EXCEPT !.on = TRUE, !.by = "pid", !.pid = pid, !.state = state]
      BY <2>1 DEF FreeAll
    <3>2. 0 \in DOMAIN parts'
      BY <1>1, HealthyAddresses
    <3>. QED
      BY <2>1, <3>1, <3>2 DEF SweepType, NoSweep
  <2>2. CASE FreeDir(dir) /\ dir \in Dirs
    <3>1. sweep' = [NoSweep EXCEPT !.on = TRUE, !.by = "dir", !.dir = dir]
      BY <2>2 DEF FreeDir
    <3>2. 0 \in DOMAIN parts'
      BY <1>1, HealthyAddresses
    <3>. QED
      BY <2>2, <3>1, <3>2 DEF SweepType, NoSweep, SweptStates
  <2>. QED
    BY <2>1, <2>2
<1>3. SweepAhead'
  <2>1. \A k \in Used(parts) : parts[0].addr <= parts[k].addr
    BY <1>1, HealthyAddresses
  <2>2. ToSweep' \subseteq Used(parts')
    BY DEF ToSweep, Clients
  <2>3. 0 \in Used(parts)
    BY <1>1, HealthyAddresses
  <2>. QED
    BY <1>1, <1>2, <2>1, <2>2, <2>3 DEF SweepAhead
<1>. QED
  BY <1>1, <1>2, <1>3 DEF Inv

\* One step of a sweep: the block it looks at goes if it is selected, and
\* nothing else that is selected changes.
LEMMA SweepStepMoves ==
    ASSUME Inv, SweepStep
    PROVE  /\ sweep.on /\ sweep.index \in Used(parts)
           /\ sweep' = [sweep EXCEPT !.index = parts[sweep.index].next,
                                     !.count = @ + IF Selected(parts[sweep.index]) THEN 1 ELSE 0]
           /\ UNCHANGED <<tableAt, last, fatal>>
           /\ Healthy(parts', tableAt') /\ DOMAIN parts' = DOMAIN parts
           /\ IF Selected(parts[sweep.index])
              THEN /\ sweep.index \in Mine(parts) /\ sweep.index \in ToSweep
                   /\ Used(parts') = Used(parts) \ {sweep.index}
                   /\ Mine(parts') = Mine(parts) \ {sweep.index}
              ELSE UNCHANGED parts
           /\ \A k \in Used(parts') : k \in Used(parts) /\ Same(parts'[k], parts[k])
<1>. DEFINE x == sweep.index
<1>1. /\ sweep.on /\ x \in DOMAIN parts /\ Healthy(parts, tableAt)
  BY DEF SweepStep, Inv, SweepType
<1>2. x \in Used(parts)
  BY <1>1 DEF SweepStep, Used
<1>3. /\ UNCHANGED <<tableAt, last, fatal>>
      /\ parts' = IF Selected(parts[x]) THEN Remove(parts, parts[x].addr) ELSE parts
      /\ sweep' = [sweep EXCEPT !.index = parts[x].next,
                                !.count = @ + IF Selected(parts[x]) THEN 1 ELSE 0]
  BY DEF SweepStep
<1>4. CASE Selected(parts[x])
  <2>1. x \in Mine(parts) /\ x \in ToSweep
    BY <1>1, <1>2, <1>4, SelectedMine DEF Inv
  <2>2. /\ Healthy(parts', tableAt)
        /\ DOMAIN parts' = DOMAIN parts /\ Mine(parts') = Mine(parts) \ {x}
        /\ Used(parts') = Used(parts) \ {x}
        /\ \A k \in Used(parts') : Same(parts'[k], parts[k])
    BY <1>1, <1>3, <1>4, <2>1, FreeHealthy
  <2>. QED
    BY <1>1, <1>2, <1>3, <1>4, <2>1, <2>2
<1>5. CASE ~Selected(parts[x])
  <2>1. parts' = parts /\ tableAt' = tableAt
    BY <1>3, <1>5
  <2>2. \A k \in Used(parts') : k \in Used(parts) /\ Same(parts'[k], parts[k])
    BY <2>1 DEF Same
  <2>3. Healthy(parts', tableAt')
    BY <1>1, <2>1
  <2>. QED
    BY <1>1, <1>2, <1>3, <1>5, <2>1, <2>2, <2>3
<1>. QED
  BY <1>4, <1>5

\* A step of a sweep takes the block it visits out of what is selected.
LEMMA SweepStepSelects ==
    ASSUME Inv, SweepStep
    PROVE  ToSweep' = ToSweep \ {sweep.index}
<1>. DEFINE x == sweep.index
<1>1. /\ sweep.on /\ x \in Used(parts)
      /\ sweep' = [sweep EXCEPT !.index = parts[x].next,
                                !.count = @ + IF Selected(parts[x]) THEN 1 ELSE 0]
      /\ IF Selected(parts[x])
         THEN Mine(parts') = Mine(parts) \ {x} /\ Used(parts') = Used(parts) \ {x}
         ELSE UNCHANGED parts
      /\ \A k \in Used(parts') : k \in Used(parts) /\ Same(parts'[k], parts[k])
  BY SweepStepMoves
<1>2. /\ sweep'.on = sweep.on /\ sweep'.by = sweep.by /\ sweep'.dir = sweep.dir
      /\ sweep'.pid = sweep.pid /\ sweep'.state = sweep.state
  BY <1>1 DEF Inv, SweepType
<1>3. Clients = Mine(parts) /\ Clients' = Mine(parts')
  BY DEF Clients, Mine
<1>4. \A k \in Mine(parts') : k \in Mine(parts) /\ (Selected(parts[k])' <=> Selected(parts[k]))
  <2>. SUFFICES ASSUME NEW k \in Mine(parts')
                PROVE  k \in Mine(parts) /\ (Selected(parts[k])' <=> Selected(parts[k]))
    OBVIOUS
  <2>1. k \in Used(parts') /\ k \in Used(parts) /\ Same(parts'[k], parts[k])
    BY <1>1 DEF Mine
  <2>2. k \in Mine(parts)
    BY <2>1 DEF Mine, Same
  <2>3. Selected(parts[k])' <=> Selected(parts[k])
    BY <2>1, <1>2 DEF Selected, Same
  <2>. QED
    BY <2>2, <2>3
<1>5. CASE Selected(parts[x])
  <2>1. Mine(parts') = Mine(parts) \ {x}
    BY <1>1, <1>5
  <2>. QED
    BY <2>1, <1>1, <1>2, <1>3, <1>4 DEF ToSweep
<1>6. CASE ~Selected(parts[x])
  <2>1. parts' = parts /\ x \notin ToSweep
    BY <1>1, <1>6 DEF ToSweep
  <2>2. Mine(parts') = Mine(parts)
    BY <2>1
  <2>. QED
    BY <2>1, <2>2, <1>1, <1>2, <1>3, <1>4 DEF ToSweep
<1>. QED
  BY <1>5, <1>6

\* A sweep continues from the record it has just freed: its next still leads to
\* the block behind, so nothing selected is left behind.
LEMMA SweepStepInv ==
    ASSUME Inv, SweepStep
    PROVE  Inv'
<1>. DEFINE x == sweep.index
            n == parts[sweep.index].next
<1>1. /\ sweep.on /\ x \in Used(parts)
      /\ sweep' = [sweep EXCEPT !.index = n,
                                !.count = @ + IF Selected(parts[x]) THEN 1 ELSE 0]
      /\ UNCHANGED <<tableAt, last, fatal>>
      /\ Healthy(parts', tableAt') /\ DOMAIN parts' = DOMAIN parts
      /\ Used(parts) \ {x} \subseteq Used(parts')
      /\ \A k \in Used(parts') : k \in Used(parts) /\ Same(parts'[k], parts[k])
  BY SweepStepMoves
<1>2. Sound(parts) /\ IsTable(parts) /\ n \in DOMAIN parts /\ n \in Nat
  BY <1>1, Fields, Records DEF Inv, Healthy
<1>3. sweep'.index = n /\ sweep'.on
  BY <1>1 DEF Inv, SweepType
<1>4. SweepType'
  <2>1. PICK c \in Nat : sweep' = [sweep EXCEPT !.index = n, !.count = c]
    <3>1. sweep.count \in Nat /\ sweep.count + (IF Selected(parts[x]) THEN 1 ELSE 0) \in Nat
      BY DEF Inv, SweepType
    <3>. HIDE DEF x, n
    <3>. QED
      BY <3>1, <1>1
  <2>. QED
    BY <2>1, <1>1, <1>2 DEF Inv, SweepType
<1>5. \A k \in ToSweep' : k \in Used(parts) /\ k # x /\ parts[x].addr <= parts[k].addr
  <2>1. ToSweep' = ToSweep \ {x}
    BY SweepStepSelects
  <2>2. \A k \in ToSweep : parts[x].addr <= parts[k].addr /\ k \in Used(parts)
    BY <1>1 DEF Inv, SweepAhead, ToSweep, Clients
  <2>. QED
    BY <2>1, <2>2
<1>6. \A k \in Used(parts) : parts[k].addr \in Nat
  BY <1>2, Fields
<1>7. CASE n \in Used(parts)
  <2>1. n # x
    BY <1>1, <1>2, <1>7, NextAbove
  <2>2. n \in Used(parts') /\ parts'[n].addr = parts[n].addr
    BY <1>1, <1>7, <2>1 DEF Same
  <2>3. ASSUME NEW k \in ToSweep' PROVE parts[n].addr <= parts[k].addr
    <3>1. k = n \/ parts[k].addr < parts[x].addr \/ parts[k].addr > parts[n].addr
      BY <1>1, <1>2, <1>5, <1>7, Order
    <3>. QED
      BY <3>1, <1>1, <1>5, <1>6, <1>7
  <2>4. \A k \in ToSweep' : parts'[k].addr = parts[k].addr
    BY <1>1 DEF ToSweep, Clients, Same
  <2>. QED
    BY <2>2, <2>3, <2>4, <1>1, <1>3, <1>4 DEF Inv, SweepAhead
<1>8. CASE n \notin Used(parts)
  <2>1. \A k \in Used(parts) \ {x} : parts[k].addr < parts[x].addr
    BY <1>1, <1>2, <1>8, Order
  <2>2. ToSweep' = {}
    BY <2>1, <1>1, <1>5, <1>6
  <2>3. n \notin Used(parts')
    BY <1>1, <1>8
  <2>. QED
    BY <2>2, <2>3, <1>1, <1>3, <1>4 DEF Inv, SweepAhead
<1>. QED
  BY <1>7, <1>8

\* A sweep ends at the free record that ends the list.
LEMMA SweepEndInv ==
    ASSUME Inv, SweepEnd
    PROVE  Inv'
<1>1. /\ UNCHANGED <<parts, tableAt, fatal>> /\ sweep' = NoSweep
      /\ last' = [NoCall EXCEPT !.ret = sweep.count]
  BY DEF SweepEnd
<1>2. last'.ret \in Int
  BY <1>1 DEF NoCall, Inv, SweepType
<1>3. SweepType' /\ SweepAhead'
  BY <1>1 DEF SweepType, SweepAhead, NoSweep, SweptStates
<1>. QED
  BY <1>1, <1>2, <1>3 DEF Inv

\* Every step preserves the invariant.
LEMMA NextInv ==
    Inv /\ [Next]_vars => Inv'
<1>. SUFFICES ASSUME Inv, [Next]_vars PROVE Inv'
  OBVIOUS
<1>1. ASSUME NEW cur \in Callers, NEW r \in Requests(cur),
             AllocNothing(r) \/ AllocNoTable(cur, r) \/ AllocFails(cur, r) \/ AllocBlock(r)
      PROVE  Inv'
  BY <1>1, NothingInv, NoTableInv, FailsInv, BlockInv
<1>2. ASSUME NEW addr \in Addresses, FreeAddr(addr)
      PROVE  Inv'
  BY <1>2, FreeAddrInv
<1>3. ASSUME NEW addr \in Addresses, NEW arg \in {0} \cup Pids, Fetch(addr, arg)
      PROVE  Inv'
  BY <1>3, FetchInv
<1>4. ASSUME NEW pid \in Pids, NEW state \in SweptStates, FreeAll(pid, state)
      PROVE  Inv'
  BY <1>4, SweepBegins
<1>5. ASSUME NEW dir \in Dirs, FreeDir(dir)
      PROVE  Inv'
  BY <1>5, SweepBegins
<1>6. CASE SweepStep
  BY <1>6, SweepStepInv
<1>7. CASE SweepEnd
  BY <1>7, SweepEndInv
<1>8. CASE UNCHANGED vars
  BY <1>8 DEF vars, Inv, SweepType, SweepAhead, ToSweep, Clients, Selected
<1>. QED
  BY <1>1, <1>2, <1>3, <1>4, <1>5, <1>6, <1>7, <1>8 DEF Next

\* Inv holds in every reachable state, whatever is asked of mem_alloc,
\* mem_free_addr, mem_alloc_fetch, mem_free_all and mem_free_dir.
THEOREM Invariant == Spec => []Inv
<1>1. Init => Inv
  BY InitInv
<1>2. Inv /\ [Next]_vars => Inv'
  BY NextInv
<1>. QED
  BY <1>1, <1>2, PTL DEF Spec

\* The list that mem_alloc_func and mem_free_addr follow visits the blocks in
\* the order of their addresses, without overlap, and ends at a free record.
THEOREM ListAlwaysSorted == Spec => []ListSorted
<1>1. Inv => ListSorted
  BY DEF Inv, Healthy, Sound, ListSorted
<1>. QED
  BY <1>1, Invariant, PTL

\* Moving the table (dynamize_mem) never loses it: MEM_PARTS always lies in the
\* one block of state SNOW_MM, which is as large as the table.
THEOREM TableAlwaysOwned == Spec => []TableInOwnBlock
<1>1. Inv => TableInOwnBlock
  BY DEF Inv, Healthy, TableIs, TableInOwnBlock
<1>. QED
  BY <1>1, Invariant, PTL

\* The reserve that dynamize_mem keeps is enough for the table's own new block
\* and the block asked for: get_unused_index never fails.
THEOREM RecordsAlwaysSuffice == Spec => []RecordsSuffice
<1>1. Inv => RecordsSuffice
  BY DEF Inv, RecordsSuffice
<1>. QED
  BY <1>1, Invariant, PTL

\* Every record keeps the fields of allocated_part_t, and next and the index of
\* a sweep stay inside the table although it moves.
THEOREM TypeCorrect == Spec => []TypeOK
<1>1. Inv => TypeOK
  <2>. SUFFICES ASSUME Inv PROVE TypeOK
    OBVIOUS
  <2>1. parts \in [0 .. PartSize(parts) - 1 -> Part]
    BY DEF Inv, Healthy, IsTable
  <2>2. \A i \in Used(parts) : parts[i].next \in DOMAIN parts
    BY DEF Inv, Healthy, Sound
  <2>3. tableAt \in Nat /\ 0 \in DOMAIN parts
    BY HealthyAddresses DEF Inv
  <2>4. sweep.on \in BOOLEAN /\ sweep.index \in DOMAIN parts /\ sweep.count \in Nat
    BY <2>3 DEF Inv, SweepType, NoSweep
  <2>. QED
    BY <2>1, <2>2, <2>3, <2>4 DEF Inv, TypeOK
<1>. QED
  BY <1>1, Invariant, PTL
=============================================================================
