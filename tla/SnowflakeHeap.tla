--------------------------- MODULE SnowflakeHeap ---------------------------
(***************************************************************************)
(* The allocator implements the Heap: a call on the table is one step of   *)
(* an abstract set of blocks, or none.  A sweep is one step when it begins *)
(* and none later, so it frees all that it selects and nothing else.       *)
(***************************************************************************)
EXTENDS SnowflakeProofs

\* The mapping of Snowflake!Heap: what its variables stand for here.
HeapBlocks == {AsBlock(i) : i \in Clients \ ToSweep}
HeapTable  == AsBlock(CHOOSE i \in Used(parts) : parts[i].state = "MM")
HeapLast   == IF sweep.on
              THEN [NoCall EXCEPT !.ret = sweep.count + Cardinality(ToSweep)]
              ELSE last

\* A record of the table without the list.
BlockOf(p) == [addr |-> p.addr, size |-> p.size, state |-> p.state,
               pid |-> p.pid, dir |-> p.dir]

\* The blocks of callers in a table, and the block of the table itself.
BlocksOf(t) == {BlockOf(t[i]) : i \in Mine(t)}
TableOf(t)  == BlockOf(t[CHOOSE i \in Used(t) : t[i].state = "MM"])

\* The fields of a block are those of its record.
LEMMA BlockFields ==
    ASSUME NEW p
    PROVE  /\ BlockOf(p).addr = p.addr /\ BlockOf(p).size = p.size
           /\ BlockOf(p).state = p.state /\ BlockOf(p).pid = p.pid /\ BlockOf(p).dir = p.dir
BY DEF BlockOf

\* Records that differ in next only describe the same block.
LEMMA SameBlock ==
    ASSUME NEW p, NEW q, Same(p, q)
    PROVE  BlockOf(p) = BlockOf(q)
BY DEF BlockOf, Same

\* The mapped state in terms of the table, before a step,
LEMMA HeapView ==
    /\ HeapBlocks = {BlockOf(parts[i]) : i \in Mine(parts) \ ToSweep}
    /\ HeapTable = TableOf(parts)
    /\ ~sweep.on => HeapBlocks = BlocksOf(parts) /\ HeapLast = last
<1>1. \A i : AsBlock(i) = BlockOf(parts[i])
  BY DEF AsBlock, BlockOf
<1>2. Clients = Mine(parts)
  BY DEF Clients, Mine
<1>3. ~sweep.on => ToSweep = {}
  BY DEF ToSweep
<1>. QED
  BY <1>1, <1>2, <1>3 DEF HeapBlocks, HeapTable, HeapLast, TableOf, BlocksOf

\* and after it.
LEMMA HeapView2 ==
    /\ HeapBlocks' = {BlockOf(parts'[i]) : i \in Mine(parts') \ ToSweep'}
    /\ HeapTable' = TableOf(parts')
    /\ ~sweep'.on => HeapBlocks' = BlocksOf(parts') /\ HeapLast' = last'
<1>1. \A i : AsBlock(i)' = BlockOf(parts'[i])
  BY DEF AsBlock, BlockOf
<1>2. Clients' = Mine(parts')
  BY DEF Clients, Mine
<1>3. ~sweep'.on => ToSweep' = {}
  BY DEF ToSweep
<1>. QED
  BY <1>1, <1>2, <1>3 DEF HeapBlocks, HeapTable, HeapLast, TableOf, BlocksOf, AsBlock, BlockOf

\* The one block of state SNOW_MM is that of the table.
LEMMA TableFound ==
    ASSUME NEW t, NEW i, NEW at, TableIs(t, i, at)
    PROVE  TableOf(t) = BlockOf(t[i]) /\ TableOf(t).size = RecordSize * PartSize(t)
<1>1. i = CHOOSE k \in Used(t) : t[k].state = "MM"
  BY DEF TableIs
<1>2. TableOf(t) = BlockOf(t[i])
  BY <1>1 DEF TableOf
<1>. QED
  BY <1>2, BlockFields DEF TableIs

\* The blocks of callers and that of the table are all but the first.
LEMMA AllBlocks ==
    ASSUME NEW t, NEW at, Healthy(t, at)
    PROVE  BlocksOf(t) \cup {TableOf(t)} = {BlockOf(t[i]) : i \in Used(t) \ {0}}
<1>1. PICK i0 \in DOMAIN t : TableIs(t, i0, at)
  BY DEF Healthy
<1>2. TableOf(t) = BlockOf(t[i0]) /\ i0 \in Used(t) /\ i0 # 0
  BY <1>1, TableFound DEF TableIs, Healthy, Sound
<1>3. Used(t) \ {0} = Mine(t) \cup {i0}
  BY <1>1, <1>2 DEF Mine, TableIs, Healthy, Sound
<1>. QED
  BY <1>2, <1>3 DEF BlocksOf

-----------------------------------------------------------------------------
\* Two blocks are apart when one ends before the other begins.
LEMMA ApartNoOverlap ==
    ASSUME NEW a, NEW b, a.addr \in Nat, a.size \in Nat, b.addr \in Nat, b.size \in Nat,
           a.addr + a.size <= b.addr \/ b.addr + b.size <= a.addr
    PROVE  ~Heap!Overlap(a, b)
BY DEF Heap!Overlap

\* The place found for a request overlaps no block.
LEMMA NewPartApart ==
    ASSUME NEW t, NEW at, Healthy(t, at), NEW r, Moderate(r.size, r.align), r.size >= 1,
           NEW i, i = StopIndex(t, r.size, r.align),
           ~OutOfMemory(t, i, r.size, r.align),
           NEW p, p = NewPart(t, i, r)
    PROVE  Heap!Fits(BlockOf(p), BlocksOf(t) \cup {TableOf(t)})
<1>1. Sound(t) /\ i \in Used(t)
  BY StopsFirst DEF Healthy
<1>2. /\ p.addr \in Nat
      /\ p.addr >= t[i].addr + t[i].size /\ p.addr + r.size <= PhysSize
      /\ ~AtTail(t, i) => p.addr + r.size <= t[t[i].next].addr
      /\ p.size = r.size
  BY <1>1, NewPartFits
<1>3. p.size \in Nat /\ r.size \in Nat
  BY <1>2 DEF Moderate
<1>4. ASSUME NEW k \in Used(t)
      PROVE  ~Heap!Overlap(BlockOf(p), BlockOf(t[k]))
  <2>1. /\ t[k].addr \in Nat /\ t[k].size \in Nat
        /\ t[i].addr \in Nat /\ t[i].size \in Nat
    BY <1>1, Fields
  <2>2. p.addr + p.size <= t[k].addr \/ t[k].addr + t[k].size <= p.addr
    <3>1. CASE k = i
      BY <3>1, <1>2
    <3>2. CASE k # i /\ t[k].addr < t[i].addr
      <4>1. t[k].addr + t[k].size <= t[i].addr
        BY <3>2, <1>1, Apart
      <4>. QED
        BY <4>1, <1>2, <2>1
    <3>3. CASE k # i /\ t[k].addr >= t[i].addr
      <4>1. ~AtTail(t, i)
        BY <3>3, <1>1, <2>1, TailUnique
      <4>2. t[i].next \in Used(t) /\ t[t[i].next].addr \in Nat
        BY <4>1, <1>1, Fields DEF AtTail
      <4>3. k = t[i].next \/ t[k].addr > t[t[i].next].addr
        BY <3>3, <4>2, <1>1, <2>1, Order
      <4>. QED
        BY <4>1, <4>2, <4>3, <1>2, <1>3, <2>1
    <3>. QED
      BY <3>1, <3>2, <3>3, <2>1
  <2>. QED
    BY <2>1, <2>2, <1>2, <1>3, BlockFields, ApartNoOverlap
<1>5. p.addr >= BaseAddr + 1
  <2>1. t[i].addr \in Nat /\ t[i].size \in Nat /\ t[i].size >= 1 /\ t[i].addr >= BaseAddr
    BY <1>1, Fields, HealthyAddresses
  <2>. QED
    BY <2>1, <1>2, Sizing
<1>6. \A o \in BlocksOf(t) \cup {TableOf(t)} : ~Heap!Overlap(BlockOf(p), o)
  BY <1>4, AllBlocks
<1>. QED
  BY <1>2, <1>5, <1>6, BlockFields DEF Heap!Fits

\* When the search ends at the end of the list and the memory there does not
\* suffice, there is no room anywhere: a gap that would do would have stopped it.
LEMMA RefusedForWantOfRoom ==
    ASSUME NEW t, NEW at, Healthy(t, at), NEW size, NEW align, Moderate(size, align), size >= 1,
           NEW i, i = StopIndex(t, size, align), OutOfMemory(t, i, size, align)
    PROVE  Heap!NoRoom(size, align, BlocksOf(t) \cup {TableOf(t)})
<1>1. /\ Sound(t) /\ i \in Used(t) /\ AtTail(t, i) /\ size \in Nat /\ align \in Nat
      /\ \A j \in Used(t) : StopsAfter(t, j, size, align) => t[i].addr <= t[j].addr
  BY StopsFirst DEF Healthy, OutOfMemory, Moderate
<1>. SUFFICES ASSUME NEW a \in BaseAddr + 1 .. PhysSize - size, Heap!Aligned(a, align),
                     Heap!Fits([addr |-> a, size |-> size], BlocksOf(t) \cup {TableOf(t)})
              PROVE  FALSE
  BY DEF Heap!NoRoom
<1>2. a \in Nat /\ a >= BaseAddr + 1 /\ a + size <= PhysSize
  BY <1>1, Sizing
<1>3. ASSUME NEW k \in Used(t), k # 0
      PROVE  t[k].addr + t[k].size <= a \/ a + size <= t[k].addr
  <2>1. t[k].addr \in Nat /\ t[k].size \in Nat
    BY <1>1, Fields
  <2>2. BlockOf(t[k]) \in BlocksOf(t) \cup {TableOf(t)}
    BY <1>3, AllBlocks
  <2>3. ~Heap!Overlap([addr |-> a, size |-> size], BlockOf(t[k]))
    BY <2>2 DEF Heap!Fits
  <2>. QED
    BY <2>1, <2>3, <1>1, <1>2, BlockFields DEF Heap!Overlap
<1>. DEFINE below == {k \in Used(t) : t[k].addr <= a}
<1>4. 0 \in below
  BY <1>1, <1>2, Sizing DEF Sound
<1>5. PICK k \in below : \A j \in below : t[j].addr <= t[k].addr
  BY <1>1, <1>4, GreatestAddr
<1>. DEFINE end == t[k].addr + t[k].size
            gap == Gap(end, align)
<1>6. k \in Used(t) /\ t[k].addr \in Nat /\ t[k].size \in Nat /\ t[k].addr <= a /\ end \in Nat
  BY <1>1, <1>5, Fields
<1>7. end <= a
  <2>1. CASE k = 0
    BY <2>1, <1>1, <1>2, Sizing DEF Sound
  <2>2. CASE k # 0
    BY <2>2, <1>1, <1>2, <1>3, <1>6
  <2>. QED
    BY <2>1, <2>2
<1>8. /\ end \in Nat /\ gap \in Nat
      /\ End(t[k]) = end
      /\ Plus(size, gap) = size + gap
      /\ Plus(Plus(end, size), gap) = end + size + gap
  BY <1>1, <1>6, NoOverflow
<1>. HIDE DEF end
<1>9. a >= end + gap
  <2>1. align = 0 \/ a % align = 0
    BY DEF Heap!Aligned
  <2>. QED
    BY <2>1, <1>1, <1>2, <1>6, <1>7, GapAligns
<1>. HIDE DEF gap
<1>10. CASE t[k].next \in Used(t)
  <2>1. t[t[k].next].addr \in Nat /\ t[k].addr < t[t[k].next].addr /\ t[k].next # 0
    BY <1>1, <1>6, <1>10, Fields, NextAbove
  <2>2. t[t[k].next].addr > a
    BY <1>2, <1>5, <1>6, <1>10, <2>1
  <2>3. a + size <= t[t[k].next].addr
    <3>1. t[t[k].next].size \in Nat
      BY <1>1, <1>10, Fields
    <3>. QED
      BY <3>1, <2>1, <2>2, <1>1, <1>2, <1>3, <1>10
  <2>4. StopsAfter(t, k, size, align)
    BY <1>1, <1>2, <1>8, <1>9, <2>1, <2>3 DEF StopsAfter, end, gap
  <2>5. t[i].addr <= t[k].addr /\ k # i /\ t[i].addr \in Nat
    BY <1>1, <1>6, <1>10, <2>4, Fields DEF AtTail, Unused
  <2>. QED
    BY <2>5, <1>1, <1>6, TailUnique
<1>11. CASE t[k].next \notin Used(t)
  <2>1. k = i
    BY <1>1, <1>6, <1>11, TailUnique
  <2>2. end + size + gap > PhysSize
    BY <1>1, <1>8, <2>1 DEF OutOfMemory, end, gap
  <2>. QED
    BY <2>2, <1>1, <1>2, <1>8, <1>9, Sizing
<1>. QED
  BY <1>10, <1>11

\* Blocks at different records are different blocks.
LEMMA BlocksDistinct ==
    ASSUME NEW t, Sound(t), NEW i \in Used(t), NEW j \in Used(t),
           BlockOf(t[i]).addr = BlockOf(t[j]).addr
    PROVE  i = j
BY BlockFields, Distinct

\* A sweep counts blocks as it counts their records.
LEMMA CountBlocks ==
    ASSUME NEW t, IsTable(t), Sound(t), NEW S, S \subseteq Used(t)
    PROVE  Cardinality({BlockOf(t[i]) : i \in S}) = Cardinality(S)
<1>. DEFINE T == {BlockOf(t[i]) : i \in S}
            f == [i \in S |-> BlockOf(t[i])]
<1>1. IsFiniteSet(S)
  BY Records, FS_Subset
<1>2. \A i, j \in S : f[i] = f[j] => i = j
  BY BlocksDistinct
<1>3. f \in [S -> T] /\ \A b \in T : \E i \in S : f[i] = b
  OBVIOUS
<1>4. f \in Bijection(S, T)
  BY <1>2, <1>3 DEF Bijection, Injection, Surjection, IsInjective
<1>5. ExistsBijection(S, T)
  BY <1>4 DEF ExistsBijection
<1>. QED
  BY <1>1, <1>5, FS_Bijection

-----------------------------------------------------------------------------
\* Each kind of step of the heap, from what it does to the mapped state.
LEMMA MapsInit ==
    ASSUME HeapBlocks = {}, Heap!Fits(HeapTable, {}), HeapLast = NoCall
    PROVE  Heap!HeapInit
BY DEF Heap!HeapInit, HeapBlocks, HeapTable, HeapLast, Heap!NoCall, NoCall

\* dynamize_mem keeps the table, or a larger one is put where no block is.
TableStays == UNCHANGED HeapTable
TableGrows == /\ HeapTable'.size > HeapTable.size
              /\ Heap!Fits(HeapTable', HeapBlocks \cup {HeapTable})

\* mem_alloc_func returns the address of a new block.
LEMMA MapsAlloc ==
    ASSUME TableStays \/ TableGrows, NEW b, b \notin HeapBlocks,
           HeapBlocks' = HeapBlocks \cup {b},
           Heap!Fits(b, HeapBlocks \cup {HeapTable'}),
           b.size = HeapLast'.size, b.size > 0,
           Heap!Aligned(b.addr, HeapLast'.align), HeapLast'.ret = b.addr
    PROVE  Heap!Alloc
<1>1. b \in HeapBlocks' \ HeapBlocks
  OBVIOUS
<1>. QED
  BY <1>1 DEF Heap!Alloc, Heap!TableMayMove, TableStays, TableGrows,
              HeapBlocks, HeapTable, HeapLast

\* It refuses a request of size 0,
LEMMA MapsRefuseNothing ==
    ASSUME UNCHANGED <<HeapBlocks, HeapTable>>, HeapLast'.size = 0, HeapLast'.ret = 0
    PROVE  Heap!Refuse
BY DEF Heap!Refuse, HeapBlocks, HeapTable, HeapLast

\* one that there is no room for,
LEMMA MapsRefuse ==
    ASSUME UNCHANGED HeapBlocks, TableStays \/ TableGrows,
           HeapLast'.ret \in {0, NoReturn},
           Heap!NoRoom(HeapLast'.size, HeapLast'.align, HeapBlocks \cup {HeapTable'})
    PROVE  Heap!Refuse
BY DEF Heap!Refuse, Heap!TableMayMove, TableStays, TableGrows, HeapBlocks, HeapTable, HeapLast

\* and one before which the table cannot grow.
LEMMA MapsRefuseTable ==
    ASSUME UNCHANGED <<HeapBlocks, HeapTable>>, HeapLast'.ret = NoReturn,
           NEW size \in HeapTable.size + 1 .. 2 * PhysSize,
           Heap!NoRoom(size, 0, HeapBlocks \cup {HeapTable})
    PROVE  Heap!Refuse
BY DEF Heap!Refuse, HeapBlocks, HeapTable, HeapLast

\* mem_free_addr frees the block of its address, or answers 1.
LEMMA MapsFreeAddr ==
    ASSUME UNCHANGED HeapTable, NEW S, S = {b \in HeapBlocks : b.addr = HeapLast'.addr},
           HeapBlocks' = HeapBlocks \ S, HeapLast'.ret = IF S = {} THEN 1 ELSE 0
    PROVE  Heap!FreeAddr
BY DEF Heap!FreeAddr, Heap!At, HeapBlocks, HeapTable, HeapLast

\* mem_alloc_fetch answers the size of a block or -1,
LEMMA MapsFetch ==
    ASSUME UNCHANGED HeapTable, UNCHANGED HeapBlocks,
           \/ HeapLast'.ret = -1
           \/ \E b \in HeapBlocks : b.addr = HeapLast'.addr /\ HeapLast'.ret = b.size
    PROVE  Heap!Fetch
BY DEF Heap!Fetch, Heap!At, HeapBlocks, HeapTable, HeapLast

\* or gives the block another owner.
LEMMA MapsOwner ==
    ASSUME UNCHANGED HeapTable, NEW b \in HeapBlocks, b.addr = HeapLast'.addr, NEW pid \in Pids,
           HeapBlocks' = (HeapBlocks \ {b}) \cup {[b EXCEPT !.pid = pid]}, HeapLast'.ret = 0
    PROVE  Heap!Fetch
BY DEF Heap!Fetch, Heap!At, HeapBlocks, HeapTable, HeapLast

\* mem_free_all frees what a process owns,
LEMMA MapsFreeAll ==
    ASSUME UNCHANGED HeapTable, NEW pid \in Pids, NEW state \in SweptStates,
           NEW S, S = {b \in HeapBlocks : /\ b.pid = pid
                                          /\ IF state = "FREE" THEN b.state # "SCUBA"
                                                               ELSE b.state = state},
           HeapBlocks' = HeapBlocks \ S, HeapLast' = [NoCall EXCEPT !.ret = Cardinality(S)]
    PROVE  \E q \in Pids, s \in SweptStates : Heap!FreeSet(Heap!OwnedBy(q, s))
<1>1. Heap!NoCall = NoCall /\ Heap!Cardinality(S) = Cardinality(S)
  BY DEF Heap!NoCall, NoCall, Heap!Cardinality, Cardinality
<1>2. S = Heap!OwnedBy(pid, state)
  BY DEF Heap!OwnedBy, HeapBlocks
<1>3. Heap!FreeSet(S)
  BY <1>1 DEF Heap!FreeSet, HeapBlocks, HeapTable, HeapLast
<1>. QED
  BY <1>2, <1>3

\* and mem_free_dir the pages of an address space.
LEMMA MapsFreeDir ==
    ASSUME UNCHANGED HeapTable, NEW dir \in Dirs,
           NEW S, S = {b \in HeapBlocks : b.dir = dir},
           HeapBlocks' = HeapBlocks \ S, HeapLast' = [NoCall EXCEPT !.ret = Cardinality(S)]
    PROVE  \E d \in Dirs : Heap!FreeSet(Heap!PagesOf(d))
<1>1. Heap!NoCall = NoCall /\ Heap!Cardinality(S) = Cardinality(S)
  BY DEF Heap!NoCall, NoCall, Heap!Cardinality, Cardinality
<1>2. S = Heap!PagesOf(dir)
  BY DEF Heap!PagesOf, HeapBlocks
<1>3. Heap!FreeSet(S)
  BY <1>1 DEF Heap!FreeSet, HeapBlocks, HeapTable, HeapLast
<1>. QED
  BY <1>2, <1>3

-----------------------------------------------------------------------------
\* While the records of the allocator keep their blocks, the table is where it
\* was.
LEMMA TableKept ==
    ASSUME NEW t, NEW at, Healthy(t, at), NEW u, NEW to, Healthy(u, to),
           \A k \in Used(t) \ Mine(t) : k \in Used(u) /\ Same(u[k], t[k])
    PROVE  TableOf(u) = TableOf(t)
<1>1. PICK i \in DOMAIN t : TableIs(t, i, at)
  BY DEF Healthy
<1>2. PICK j \in DOMAIN u : TableIs(u, j, to)
  BY DEF Healthy
<1>3. i \in Used(t) \ Mine(t) /\ t[i].state = "MM"
  BY <1>1 DEF TableIs, Mine
<1>4. i \in Used(u) /\ Same(u[i], t[i])
  BY <1>3
<1>5. i = j
  BY <1>2, <1>3, <1>4 DEF TableIs, Same
<1>. QED
  BY <1>1, <1>2, <1>4, <1>5, TableFound, SameBlock

\* Tables that list the same blocks of callers map to the same blocks.
LEMMA SameClientBlocks ==
    ASSUME NEW t, NEW u, SameClients(t, u)
    PROVE  BlocksOf(u) = BlocksOf(t)
<1>1. Mine(u) = Mine(t) /\ \A k \in Mine(t) : BlockOf(u[k]) = BlockOf(t[k])
  BY SameBlock DEF SameClients
<1>. QED
  BY <1>1 DEF BlocksOf

\* dynamize_mem keeps the table or puts a larger one where nothing is.
LEMMA GrowthMaps ==
    ASSUME Healthy(parts, tableAt), ~GrowFails
    PROVE  /\ BlocksOf(Dynamized) = BlocksOf(parts)
           /\ \/ TableOf(Dynamized) = TableOf(parts)
              \/ /\ TableOf(Dynamized).size > TableOf(parts).size
                 /\ Heap!Fits(TableOf(Dynamized), BlocksOf(parts) \cup {TableOf(parts)})
<1>1. BlocksOf(Dynamized) = BlocksOf(parts)
  BY DynamizedHealthy, SameClientBlocks
<1>2. CASE ~Grows
  <2>1. Dynamized = parts
    BY <1>2 DEF Dynamized
  <2>. QED
    BY <1>1, <2>1
<1>3. CASE Grows
  <2>. DEFINE r == NewTableRequest
  <2>1. /\ r.size = NewTableSize /\ r.align = 0
        /\ NewTableStop = StopIndex(parts, r.size, r.align)
        /\ NewTable = NewPart(parts, NewTableStop, r)
    BY DEF NewTableRequest, NewTableStop, NewTable
  <2>2. Moderate(r.size, r.align) /\ r.size >= 1
    BY <2>1, TableModerate
  <2>3. ~OutOfMemory(parts, NewTableStop, r.size, r.align)
    BY <1>3, <2>1 DEF GrowFails
  <2>. HIDE DEF r
  <2>4. Heap!Fits(BlockOf(NewTable), BlocksOf(parts) \cup {TableOf(parts)})
    BY <2>1, <2>2, <2>3, NewPartApart
  <2>5. PICK new \in Used(Dynamized) :
          /\ TableIs(Dynamized, new, DynamizedAt) /\ Same(Dynamized[new], NewTable)
          /\ NewTable.size > RecordSize * PartSize(parts)
    BY <1>3, DynamizedHealthy
  <2>6. TableOf(Dynamized) = BlockOf(NewTable)
    BY <2>5, TableFound, SameBlock
  <2>7. TableOf(parts).size = RecordSize * PartSize(parts)
    BY TableFound DEF Healthy
  <2>. QED
    BY <1>1, <2>4, <2>5, <2>6, <2>7, BlockFields
<1>. QED
  BY <1>2, <1>3

\* A request of size 0 is refused.
LEMMA NothingMaps ==
    ASSUME Inv, NEW cur \in Callers, NEW r \in Requests(cur), AllocNothing(r)
    PROVE  Heap!Refuse
<1>1. /\ ~sweep.on /\ UNCHANGED <<parts, tableAt, sweep, fatal>>
      /\ last'.size = 0 /\ last'.ret = 0
  BY DEF AllocNothing, Ready, Returns
<1>2. UNCHANGED <<HeapBlocks, HeapTable>> /\ HeapLast' = last'
  <2>1. HeapBlocks = BlocksOf(parts) /\ HeapTable = TableOf(parts)
    BY <1>1, HeapView
  <2>2. HeapBlocks' = BlocksOf(parts') /\ HeapTable' = TableOf(parts') /\ HeapLast' = last'
    BY <1>1, HeapView2
  <2>. QED
    BY <1>1, <2>1, <2>2
<1>. QED
  BY <1>1, <1>2, MapsRefuseNothing

\* A caller killed for want of a larger table was refused for a reason: there
\* is no room for one.  The kernel stops, which the heap does not see.
LEMMA NoTableMaps ==
    ASSUME Inv, NEW cur \in Callers, NEW r \in Requests(cur), AllocNoTable(cur, r)
    PROVE  Heap!Refuse \/ UNCHANGED <<HeapBlocks, HeapTable, HeapLast>>
<1>1. /\ ~sweep.on /\ UNCHANGED <<parts, tableAt, sweep>> /\ GrowFails
      /\ \/ UNCHANGED last
         \/ last'.ret = NoReturn
  BY DEF AllocNoTable, Ready, NotAvailable, Returns
<1>2. HeapBlocks = BlocksOf(parts) /\ HeapTable = TableOf(parts) /\ HeapLast = last
  BY <1>1, HeapView
<1>3. HeapBlocks' = BlocksOf(parts') /\ HeapTable' = TableOf(parts') /\ HeapLast' = last'
  BY <1>1, HeapView2
<1>4. UNCHANGED <<HeapBlocks, HeapTable>>
  BY <1>1, <1>2, <1>3
<1>5. CASE UNCHANGED last
  BY <1>2, <1>3, <1>4, <1>5
<1>6. CASE last'.ret = NoReturn
  <2>1. Healthy(parts, tableAt)
    BY DEF Inv
  <2>2. /\ NewTableSize > RecordSize * PartSize(parts) /\ NewTableSize <= 2 * PhysSize
        /\ Moderate(NewTableSize, 0) /\ NewTableSize >= 1
        /\ RecordSize * PartSize(parts) \in Nat /\ NewTableSize \in Nat
    BY <2>1, TableModerate DEF Moderate
  <2>3. HeapTable.size = RecordSize * PartSize(parts)
    BY <1>2, <2>1, TableFound DEF Healthy
  <2>4. NewTableSize \in HeapTable.size + 1 .. 2 * PhysSize
    BY <2>2, <2>3, Sizing
  <2>5. Heap!NoRoom(NewTableSize, 0, BlocksOf(parts) \cup {TableOf(parts)})
    BY <1>1, <2>1, <2>2, RefusedForWantOfRoom DEF GrowFails, NewTableStop
  <2>. QED
    BY <1>2, <1>3, <1>4, <1>6, <2>4, <2>5, MapsRefuseTable
<1>. QED
  BY <1>1, <1>5, <1>6

\* A request for which the search reached the end of the memory is refused for
\* a reason, and if the table had to grow it did.
LEMMA FailsMaps ==
    ASSUME Inv, NEW cur \in Callers, NEW r \in Requests(cur), AllocFails(cur, r)
    PROVE  Heap!Refuse
<1>1. /\ ~sweep.on /\ UNCHANGED <<sweep, fatal>> /\ ~GrowFails /\ r.size # 0
      /\ parts' = Dynamized
      /\ OutOfMemory(Dynamized, StopIndex(Dynamized, r.size, r.align), r.size, r.align)
      /\ last'.ret \in {0, NoReturn} /\ last'.size = r.size /\ last'.align = r.align
  BY DEF AllocFails, Ready, NotAvailable, Returns
<1>2. HeapBlocks = BlocksOf(parts) /\ HeapTable = TableOf(parts)
  BY <1>1, HeapView
<1>3. HeapBlocks' = BlocksOf(Dynamized) /\ HeapTable' = TableOf(Dynamized) /\ HeapLast' = last'
  BY <1>1, HeapView2
<1>4. Healthy(parts, tableAt) /\ Healthy(Dynamized, DynamizedAt)
  BY <1>1, DynamizedHealthy DEF Inv
<1>5. UNCHANGED HeapBlocks /\ (TableStays \/ TableGrows)
  BY <1>1, <1>2, <1>3, <1>4, GrowthMaps DEF TableStays, TableGrows
<1>6. Moderate(r.size, r.align) /\ r.size >= 1
  BY <1>1, RequestType DEF Moderate
<1>7. Heap!NoRoom(r.size, r.align, BlocksOf(Dynamized) \cup {TableOf(Dynamized)})
  BY <1>1, <1>4, <1>6, RefusedForWantOfRoom
<1>. QED
  BY <1>1, <1>2, <1>3, <1>5, <1>7, MapsRefuse

\* A new block is apart from all others and aligned, whether the table has
\* moved before it or not.
LEMMA BlockMaps ==
    ASSUME Inv, NEW cur \in Callers, NEW r \in Requests(cur), AllocBlock(r)
    PROVE  Heap!Alloc
<1>. DEFINE t == Dynamized
            i == StopIndex(Dynamized, r.size, r.align)
            p == NewPart(Dynamized, i, r)
            b == BlockOf(p)
<1>. HIDE DEF i, p
<1>1. /\ ~sweep.on /\ UNCHANGED <<sweep, fatal>>
      /\ ~GrowFails /\ ~OutOfMemory(t, i, r.size, r.align)
      /\ Moderate(r.size, r.align) /\ r.size >= 1
      /\ last' = Returns(r, p.addr)
      /\ Healthy(t, DynamizedAt) /\ SameClients(parts, t)
      /\ Healthy(parts', tableAt')
      /\ \E new \in Unused(t) :
            /\ Mine(parts') = Mine(t) \cup {new} /\ Same(parts'[new], p)
            /\ \A k \in Used(t) : k \in Used(parts') /\ Same(parts'[k], t[k])
  BY BlockMade DEF i, p
<1>2. PICK new \in Unused(t) :
            /\ Mine(parts') = Mine(t) \cup {new} /\ Same(parts'[new], p)
            /\ \A k \in Used(t) : k \in Used(parts') /\ Same(parts'[k], t[k])
  BY <1>1
<1>. HIDE DEF t
<1>3. HeapBlocks = BlocksOf(parts) /\ HeapTable = TableOf(parts)
  BY <1>1, HeapView
<1>4. HeapBlocks' = BlocksOf(parts') /\ HeapTable' = TableOf(parts') /\ HeapLast' = last'
  BY <1>1, HeapView2
<1>5. /\ p.addr \in Nat /\ p.size = r.size
      /\ r.align # 0 => p.addr % r.align = 0
  BY <1>1, NewPartFits DEF i, p, t, Healthy
<1>6. Heap!Fits(b, BlocksOf(t) \cup {TableOf(t)})
  BY <1>1, NewPartApart DEF i, p, t
<1>7. BlocksOf(parts') = BlocksOf(t) \cup {b}
  <2>1. \A k \in Mine(t) : BlockOf(parts'[k]) = BlockOf(t[k])
    BY <1>2, SameBlock DEF Mine
  <2>2. BlockOf(parts'[new]) = b
    BY <1>2, SameBlock
  <2>. QED
    BY <1>2, <2>1, <2>2 DEF BlocksOf
<1>8. b \notin BlocksOf(t)
  <2>. SUFFICES ASSUME b \in BlocksOf(t) PROVE FALSE
    OBVIOUS
  <2>1. ~Heap!Overlap(b, b)
    BY <1>6 DEF Heap!Fits
  <2>2. b.addr = p.addr /\ b.size = r.size /\ r.size \in Nat
    BY <1>1, <1>5, BlockFields DEF Moderate
  <2>. QED
    BY <1>1, <1>5, <2>1, <2>2 DEF Heap!Overlap
<1>9. TableOf(parts') = TableOf(t)
  BY <1>1, <1>2, TableKept
<1>10. BlocksOf(t) = BlocksOf(parts) /\ (TableStays \/ TableGrows)
  BY <1>1, <1>3, <1>4, <1>9, GrowthMaps DEF Inv, TableStays, TableGrows, t
<1>11. HeapLast'.size = r.size /\ HeapLast'.align = r.align /\ HeapLast'.ret = p.addr
  BY <1>1, <1>4 DEF Returns
<1>12. b.size = HeapLast'.size /\ b.size > 0 /\ b.addr = HeapLast'.ret
       /\ Heap!Aligned(b.addr, HeapLast'.align)
  BY <1>1, <1>5, <1>11, BlockFields DEF Moderate, Heap!Aligned
<1>. QED
  BY <1>3, <1>4, <1>6, <1>7, <1>8, <1>9, <1>10, <1>12, MapsAlloc

\* Exactly the block that is named goes.
LEMMA FreeAddrMaps ==
    ASSUME Inv, NEW a \in Addresses, FreeAddr(a)
    PROVE  Heap!FreeAddr
<1>1. Healthy(parts, tableAt) /\ ~sweep.on /\ UNCHANGED <<tableAt, sweep, fatal>>
  BY DEF Inv, FreeAddr, Ready
<1>2. HeapBlocks = BlocksOf(parts) /\ HeapTable = TableOf(parts)
  BY <1>1, HeapView
<1>3. HeapBlocks' = BlocksOf(parts') /\ HeapTable' = TableOf(parts') /\ HeapLast' = last'
  BY <1>1, HeapView2
<1>. DEFINE S == {b \in BlocksOf(parts) : b.addr = a}
<1>4. CASE Holders(parts, a) = {}
  <2>1. parts' = parts /\ last' = [NoCall EXCEPT !.addr = a, !.ret = 1]
    BY <1>4 DEF FreeAddr
  <2>2. last'.addr = a /\ last'.ret = 1
    BY <2>1 DEF NoCall
  <2>3. S = {}
    BY <1>1, <1>4, FreeAddrBlock, BlockFields DEF BlocksOf
  <2>. QED
    BY <1>2, <1>3, <2>1, <2>2, <2>3, MapsFreeAddr
<1>5. CASE Holders(parts, a) # {}
  <2>1. PICK j \in Mine(parts) : parts[j].addr = a
    BY <1>1, <1>5, FreeAddrBlock
  <2>2. /\ parts' = Remove(parts, parts[j].addr)
        /\ last' = [NoCall EXCEPT !.addr = a, !.ret = 0]
    BY <1>5, <2>1 DEF FreeAddr
  <2>3. last'.addr = a /\ last'.ret = 0
    BY <2>2 DEF NoCall
  <2>4. /\ Healthy(parts', tableAt) /\ Mine(parts') = Mine(parts) \ {j}
        /\ Used(parts') = Used(parts) \ {j}
        /\ \A k \in Used(parts') : Same(parts'[k], parts[k])
    BY <1>1, <2>2, FreeHealthy
  <2>5. TableOf(parts') = TableOf(parts)
    BY <1>1, <2>4, TableKept
  <2>6. Mine(parts) \subseteq Used(parts) /\ Sound(parts)
    BY <1>1 DEF Mine, Healthy
  <2>7. S = {BlockOf(parts[j])}
    <3>1. \A k \in Mine(parts) : BlockOf(parts[k]).addr = a => k = j
      BY <2>1, <2>6, BlockFields, BlocksDistinct
    <3>. QED
      BY <2>1, <3>1, BlockFields DEF BlocksOf
  <2>8. BlocksOf(parts') = BlocksOf(parts) \ S
    <3>1. \A k \in Mine(parts') : BlockOf(parts'[k]) = BlockOf(parts[k])
      BY <2>4, SameBlock DEF Mine
    <3>2. BlocksOf(parts') = {BlockOf(parts[k]) : k \in Mine(parts) \ {j}}
      BY <2>4, <3>1 DEF BlocksOf
    <3>3. \A k \in Mine(parts) \ {j} : BlockOf(parts[k]) # BlockOf(parts[j])
      BY <2>6, BlocksDistinct
    <3>. QED
      BY <2>7, <3>2, <3>3 DEF BlocksOf
  <2>. QED
    BY <1>2, <1>3, <2>3, <2>5, <2>7, <2>8, MapsFreeAddr
<1>. QED
  BY <1>4, <1>5

\* Exactly the block that is named is answered for.
LEMMA FetchMaps ==
    ASSUME Inv, NEW a \in Addresses, NEW arg \in {0} \cup Pids, Fetch(a, arg)
    PROVE  Heap!Fetch
<1>1. Healthy(parts, tableAt) /\ ~sweep.on /\ UNCHANGED <<tableAt, sweep, fatal>>
  BY DEF Inv, Fetch, Ready
<1>2. HeapBlocks = BlocksOf(parts) /\ HeapTable = TableOf(parts)
  BY <1>1, HeapView
<1>3. HeapBlocks' = BlocksOf(parts') /\ HeapTable' = TableOf(parts') /\ HeapLast' = last'
  BY <1>1, HeapView2
<1>4. last'.addr = a
  BY DEF Fetch, NoCall
<1>5. \/ last'.ret = -1 /\ UNCHANGED parts
      \/ \E i \in Used(parts) : /\ parts[i].addr = a
                                /\ last'.ret = parts[i].size /\ UNCHANGED parts
      \/ \E i \in Mine(parts) : /\ parts[i].addr = a /\ last'.ret = 0
                                /\ parts' = [parts EXCEPT ![i].pid = arg] /\ arg \in Pids
  BY DEF Fetch, NoCall, Mine
<1>6. CASE last'.ret = -1 /\ UNCHANGED parts
  BY <1>2, <1>3, <1>6, MapsFetch
<1>7. CASE \E i \in Used(parts) : /\ parts[i].addr = a
                                  /\ last'.ret = parts[i].size /\ UNCHANGED parts
  <2>1. PICK i \in Used(parts) : /\ parts[i].addr = a
                                 /\ last'.ret = parts[i].size /\ UNCHANGED parts
    BY <1>7
  <2>2. i \in Mine(parts)
    <3>1. \A k \in Used(parts) : parts[k].addr = PhysSize => FALSE
      <4>. SUFFICES ASSUME NEW k \in Used(parts), parts[k].addr = PhysSize PROVE FALSE
        OBVIOUS
      <4>1. parts[k].addr \in Nat /\ parts[k].addr < PhysSize
        BY <1>1, HealthyAddresses
      <4>. QED
        BY <4>1, Sizing
    <3>2. PICK j \in Mine(parts) : parts[j].addr = a
      BY <2>1, <3>1 DEF Addresses, Mine
    <3>3. i = j
      BY <1>1, <2>1, <3>2, Distinct DEF Healthy, Mine
    <3>. QED
      BY <3>2, <3>3
  <2>3. BlockOf(parts[i]) \in BlocksOf(parts)
    BY <2>2 DEF BlocksOf
  <2>. QED
    BY <1>2, <1>3, <1>4, <2>1, <2>3, BlockFields, MapsFetch
<1>8. CASE \E i \in Mine(parts) : /\ parts[i].addr = a /\ last'.ret = 0
                                  /\ parts' = [parts EXCEPT ![i].pid = arg] /\ arg \in Pids
  <2>1. PICK i \in Mine(parts) : /\ parts[i].addr = a /\ last'.ret = 0
                                 /\ parts' = [parts EXCEPT ![i].pid = arg] /\ arg \in Pids
    BY <1>8
  <2>2. arg \in Callers
    BY <2>1 DEF Callers
  <2>3. /\ Healthy(parts', tableAt)
        /\ DOMAIN parts' = DOMAIN parts /\ Used(parts') = Used(parts)
        /\ Mine(parts') = Mine(parts)
        /\ \A k \in DOMAIN parts \ {i} : parts'[k] = parts[k]
        /\ parts'[i] = [parts[i] EXCEPT !.pid = arg]
    <3>. DEFINE u == [parts EXCEPT ![i].pid = arg]
    <3>1. u = [parts EXCEPT ![i].pid = arg]
      OBVIOUS
    <3>2. parts' = u
      BY <2>1
    <3>. HIDE DEF u
    <3>3. /\ Healthy(u, tableAt)
          /\ DOMAIN u = DOMAIN parts /\ Used(u) = Used(parts) /\ Mine(u) = Mine(parts)
          /\ \A k \in DOMAIN parts \ {i} : u[k] = parts[k]
          /\ u[i] = [parts[i] EXCEPT !.pid = arg]
      <4>1. Healthy(parts, tableAt) /\ i \in Mine(parts)
        BY <1>1, <2>1
      <4>2. Healthy(u, tableAt)
        BY <2>2, <3>1, <4>1, OwnerHealthy
      <4>3. DOMAIN u = DOMAIN parts
        BY <3>1
      <4>5. \A k \in DOMAIN parts \ {i} : u[k] = parts[k]
        BY <3>1
      <4>6. u[i] = [parts[i] EXCEPT !.pid = arg]
        BY <3>1, <4>1 DEF Mine, Used
      <4>7. i \in DOMAIN parts /\ parts[i] \in Part
        BY <4>1, Records DEF Mine, Used, Healthy
      <4>8. u[i].state = parts[i].state
        BY <4>6, <4>7 DEF Part
      <4>9. \A k \in DOMAIN parts : u[k].state = parts[k].state
        BY <4>5, <4>8
      <4>4. Used(u) = Used(parts) /\ Mine(u) = Mine(parts)
        BY <4>3, <4>9 DEF Used, Mine
      <4>. QED
        BY <4>2, <4>3, <4>4, <4>5, <4>6
    <3>. QED
      BY <3>2, <3>3
  <2>4. i \in Used(parts) /\ Used(parts) \subseteq DOMAIN parts /\ parts[i] \in Part
        /\ Mine(parts) \subseteq Used(parts) /\ Sound(parts)
    BY <1>1, <2>1, Records DEF Mine, Used, Healthy
  <2>5. TableOf(parts') = TableOf(parts)
    <3>1. \A k \in Used(parts) \ Mine(parts) : Same(parts'[k], parts[k])
      BY <2>1, <2>3, <2>4 DEF Same
    <3>. QED
      BY <1>1, <2>3, <3>1, TableKept
  <2>. DEFINE b == BlockOf(parts[i])
  <2>6. BlockOf(parts'[i]) = [b EXCEPT !.pid = arg]
    BY <2>3, <2>4 DEF BlockOf, Part
  <2>. HIDE DEF b
  <2>7. \A k \in Mine(parts) \ {i} : BlockOf(parts[k]) # b /\ BlockOf(parts'[k]) = BlockOf(parts[k])
    BY <2>3, <2>4, BlocksDistinct DEF b
  <2>8. BlocksOf(parts') = (BlocksOf(parts) \ {b}) \cup {[b EXCEPT !.pid = arg]}
    <3>1. BlocksOf(parts) = {BlockOf(parts[k]) : k \in Mine(parts) \ {i}} \cup {b}
      BY <2>1 DEF BlocksOf, b
    <3>2. BlocksOf(parts') = {BlockOf(parts[k]) : k \in Mine(parts) \ {i}}
                              \cup {[b EXCEPT !.pid = arg]}
      BY <2>1, <2>3, <2>6, <2>7 DEF BlocksOf
    <3>3. b \notin {BlockOf(parts[k]) : k \in Mine(parts) \ {i}}
      BY <2>7
    <3>. QED
      BY <3>1, <3>2, <3>3
  <2>9. b \in BlocksOf(parts) /\ b.addr = a
    BY <2>1, BlockFields DEF BlocksOf, b
  <2>. QED
    BY <1>2, <1>3, <1>4, <2>1, <2>5, <2>8, <2>9, MapsOwner
<1>. QED
  BY <1>5, <1>6, <1>7, <1>8

\* A sweep takes effect in the heap when it begins.
LEMMA SweepBeginsMaps ==
    ASSUME Inv, UNCHANGED <<parts, tableAt>>, ~sweep.on, sweep'.on, sweep'.count = 0
    PROVE  LET S == {BlockOf(parts[i]) : i \in ToSweep'}
           IN  /\ UNCHANGED HeapTable
               /\ HeapBlocks = BlocksOf(parts) /\ HeapBlocks' = HeapBlocks \ S
               /\ HeapLast' = [NoCall EXCEPT !.ret = Cardinality(S)]
<1>. DEFINE S == {BlockOf(parts[i]) : i \in ToSweep'}
<1>1. /\ HeapBlocks = BlocksOf(parts) /\ HeapTable = TableOf(parts)
      /\ HeapBlocks' = {BlockOf(parts'[i]) : i \in Mine(parts') \ ToSweep'}
      /\ HeapTable' = TableOf(parts')
  BY HeapView, HeapView2
<1>2. Sound(parts) /\ IsTable(parts) /\ Mine(parts) \subseteq Used(parts)
  BY DEF Inv, Healthy, Mine
<1>3. ToSweep' \subseteq Mine(parts)
  BY DEF ToSweep, Clients, Mine
<1>4. Cardinality(S) = Cardinality(ToSweep') /\ Cardinality(S) \in Nat
  <2>1. ToSweep' \subseteq Used(parts)
    BY <1>2, <1>3
  <2>2. IsFiniteSet(ToSweep')
    BY <1>2, <2>1, Records, FS_Subset
  <2>. QED
    BY <1>2, <2>1, <2>2, CountBlocks, FS_CardinalityType
<1>5. HeapLast' = [NoCall EXCEPT !.ret = sweep'.count + Cardinality(ToSweep')]
  BY DEF HeapLast
<1>6. HeapBlocks' = HeapBlocks \ S
  <2>1. \A i, j \in Mine(parts) : BlockOf(parts[i]) = BlockOf(parts[j]) => i = j
    BY <1>2, BlocksDistinct
  <2>. QED
    BY <1>1, <1>3, <2>1 DEF BlocksOf
<1>7. sweep'.count + Cardinality(ToSweep') = Cardinality(S)
  BY <1>4
<1>. QED
  BY <1>1, <1>5, <1>6, <1>7

\* What mem_free_all selects is what the process owns,
LEMMA FreeAllMaps ==
    ASSUME Inv, NEW pid \in Pids, NEW state \in SweptStates, FreeAll(pid, state)
    PROVE  \E q \in Pids, s \in SweptStates : Heap!FreeSet(Heap!OwnedBy(q, s))
<1>1. /\ ~sweep.on /\ UNCHANGED <<parts, tableAt, last, fatal>>
      /\ sweep' = [NoSweep EXCEPT !.on = TRUE, !.by = "pid", !.pid = pid, !.state = state]
  BY DEF FreeAll, Ready
<1>2. /\ sweep'.on /\ sweep'.by = "pid" /\ sweep'.pid = pid /\ sweep'.state = state
      /\ sweep'.count = 0
  BY <1>1 DEF NoSweep
<1>. DEFINE S == {BlockOf(parts[i]) : i \in ToSweep'}
            T == {b \in HeapBlocks : /\ b.pid = pid
                                     /\ IF state = "FREE" THEN b.state # "SCUBA"
                                                          ELSE b.state = state}
<1>3. /\ UNCHANGED HeapTable
      /\ HeapBlocks = BlocksOf(parts) /\ HeapBlocks' = HeapBlocks \ S
      /\ HeapLast' = [NoCall EXCEPT !.ret = Cardinality(S)]
  BY <1>1, <1>2, SweepBeginsMaps
<1>4. ASSUME NEW i \in Mine(parts)
      PROVE  i \in ToSweep' <=> /\ parts[i].pid = pid
                                /\ IF state = "FREE" THEN parts[i].state # "SCUBA"
                                                     ELSE parts[i].state = state
  <2>1. i \in Clients' /\ parts[i].state # "FREE"
    BY <1>1 DEF Clients, Mine, Used
  <2>2. i \in ToSweep' <=> Selected(parts[i])'
    BY <1>2, <2>1 DEF ToSweep
  <2>3. Selected(parts[i])' <=> /\ parts[i].pid = pid
                                /\ \/ state = "FREE" /\ parts[i].state # "SCUBA"
                                   \/ parts[i].state = state
    BY <1>1, <1>2 DEF Selected
  <2>. QED
    BY <2>1, <2>2, <2>3
<1>5. ToSweep' \subseteq Mine(parts)
  BY <1>1 DEF ToSweep, Clients, Mine
<1>6. S = T
  BY <1>3, <1>4, <1>5, BlockFields DEF BlocksOf
<1>. HIDE DEF S, T
<1>. QED
  BY <1>3, <1>6, MapsFreeAll DEF T

\* and what mem_free_dir selects the pages of the directory.
LEMMA FreeDirMaps ==
    ASSUME Inv, NEW dir \in Dirs, FreeDir(dir)
    PROVE  \E d \in Dirs : Heap!FreeSet(Heap!PagesOf(d))
<1>1. /\ ~sweep.on /\ UNCHANGED <<parts, tableAt, last, fatal>>
      /\ sweep' = [NoSweep EXCEPT !.on = TRUE, !.by = "dir", !.dir = dir]
  BY DEF FreeDir, Ready
<1>2. /\ sweep'.on /\ sweep'.by = "dir" /\ sweep'.dir = dir /\ sweep'.count = 0
  BY <1>1 DEF NoSweep
<1>. DEFINE S == {BlockOf(parts[i]) : i \in ToSweep'}
            T == {b \in HeapBlocks : b.dir = dir}
<1>3. /\ UNCHANGED HeapTable
      /\ HeapBlocks = BlocksOf(parts) /\ HeapBlocks' = HeapBlocks \ S
      /\ HeapLast' = [NoCall EXCEPT !.ret = Cardinality(S)]
  BY <1>1, <1>2, SweepBeginsMaps
<1>4. ASSUME NEW i \in Mine(parts)
      PROVE  i \in ToSweep' <=> parts[i].dir = dir
  <2>1. i \in Clients'
    BY <1>1 DEF Clients, Mine
  <2>. QED
    BY <1>1, <1>2, <2>1 DEF ToSweep, Selected
<1>5. ToSweep' \subseteq Mine(parts)
  BY <1>1 DEF ToSweep, Clients, Mine
<1>6. S = T
  BY <1>3, <1>4, <1>5, BlockFields DEF BlocksOf
<1>. HIDE DEF S, T
<1>. QED
  BY <1>3, <1>6, MapsFreeDir DEF T

\* The steps of a sweep are not seen in the heap.
LEMMA SweepStepMaps ==
    ASSUME Inv, SweepStep
    PROVE  UNCHANGED <<HeapBlocks, HeapTable, HeapLast>>
<1>. DEFINE x == sweep.index
<1>1. /\ sweep.on /\ x \in Used(parts)
      /\ sweep' = [sweep EXCEPT !.index = parts[x].next,
                                !.count = @ + IF Selected(parts[x]) THEN 1 ELSE 0]
      /\ UNCHANGED <<tableAt, last, fatal>>
      /\ Healthy(parts', tableAt')
      /\ IF Selected(parts[x])
         THEN /\ x \in Mine(parts) /\ x \in ToSweep
              /\ Used(parts') = Used(parts) \ {x}
              /\ Mine(parts') = Mine(parts) \ {x}
         ELSE UNCHANGED parts
      /\ \A k \in Used(parts') : k \in Used(parts) /\ Same(parts'[k], parts[k])
  BY SweepStepMoves
<1>2. ToSweep' = ToSweep \ {x}
  BY SweepStepSelects
<1>3. Healthy(parts, tableAt) /\ sweep.count \in Nat
  BY DEF Inv, SweepType
<1>4. /\ HeapBlocks = {BlockOf(parts[i]) : i \in Mine(parts) \ ToSweep}
      /\ HeapTable = TableOf(parts)
      /\ HeapBlocks' = {BlockOf(parts'[i]) : i \in Mine(parts') \ ToSweep'}
      /\ HeapTable' = TableOf(parts')
  BY HeapView, HeapView2
<1>5. sweep'.on /\ sweep'.count = sweep.count + IF Selected(parts[x]) THEN 1 ELSE 0
  BY <1>1 DEF Inv, SweepType
<1>6. /\ HeapLast = [NoCall EXCEPT !.ret = sweep.count + Cardinality(ToSweep)]
      /\ HeapLast' = [NoCall EXCEPT !.ret = sweep'.count + Cardinality(ToSweep')]
  BY <1>1, <1>5 DEF HeapLast
<1>7. IsFiniteSet(ToSweep) /\ Cardinality(ToSweep) \in Nat
  <2>1. ToSweep \subseteq Used(parts)
    BY DEF ToSweep, Clients
  <2>2. IsFiniteSet(Used(parts))
    BY <1>3, Records DEF Healthy
  <2>. QED
    BY <2>1, <2>2, FS_Subset, FS_CardinalityType
<1>8. CASE Selected(parts[x])
  <2>1. Mine(parts') \ ToSweep' = Mine(parts) \ ToSweep
    BY <1>1, <1>2, <1>8
  <2>2. \A k \in Mine(parts') : BlockOf(parts'[k]) = BlockOf(parts[k])
    BY <1>1, SameBlock DEF Mine
  <2>3. HeapBlocks' = HeapBlocks
    BY <1>4, <2>1, <2>2
  <2>4. TableOf(parts') = TableOf(parts)
    <3>1. \A k \in Used(parts) \ Mine(parts) : k \in Used(parts') /\ Same(parts'[k], parts[k])
      BY <1>1, <1>8
    <3>. QED
      BY <1>1, <1>3, <3>1, TableKept
  <2>5. sweep'.count + Cardinality(ToSweep') = sweep.count + Cardinality(ToSweep)
    <3>1. Cardinality(ToSweep') = Cardinality(ToSweep) - 1
      BY <1>1, <1>2, <1>7, <1>8, FS_RemoveElement
    <3>2. sweep'.count = sweep.count + 1
      BY <1>5, <1>8
    <3>. QED
      BY <3>1, <3>2, <1>3, <1>7
  <2>. QED
    BY <1>4, <1>6, <2>3, <2>4, <2>5
<1>9. CASE ~Selected(parts[x])
  <2>1. parts' = parts /\ ToSweep' = ToSweep
    BY <1>1, <1>2, <1>9 DEF ToSweep
  <2>2. sweep'.count = sweep.count
    BY <1>3, <1>5, <1>9
  <2>. QED
    BY <1>4, <1>6, <2>1, <2>2
<1>. QED
  BY <1>8, <1>9

\* When a sweep ends nothing of what it had to free is left, and it answers how
\* many blocks that was.
LEMMA SweepEndMaps ==
    ASSUME Inv, SweepEnd
    PROVE  UNCHANGED <<HeapBlocks, HeapTable, HeapLast>>
<1>1. /\ sweep.on /\ UNCHANGED <<parts, tableAt, fatal>> /\ sweep' = NoSweep
      /\ last' = [NoCall EXCEPT !.ret = sweep.count]
      /\ sweep.index \notin Used(parts)
  BY DEF SweepEnd, Used
<1>2. ToSweep = {} /\ sweep.count \in Nat
  BY <1>1 DEF Inv, SweepAhead, SweepType
<1>3. ~sweep'.on
  BY <1>1 DEF NoSweep
<1>4. HeapBlocks = BlocksOf(parts) /\ HeapTable = TableOf(parts)
  BY <1>2, HeapView DEF BlocksOf
<1>5. HeapBlocks' = BlocksOf(parts') /\ HeapTable' = TableOf(parts') /\ HeapLast' = last'
  BY <1>3, HeapView2
<1>6. HeapLast = [NoCall EXCEPT !.ret = sweep.count + Cardinality(ToSweep)]
  BY <1>1 DEF HeapLast
<1>7. sweep.count + Cardinality(ToSweep) = sweep.count
  BY <1>2, FS_EmptySet
<1>. QED
  BY <1>1, <1>4, <1>5, <1>6, <1>7

-----------------------------------------------------------------------------
\* mem_init leaves an empty heap.
LEMMA InitMaps ==
    ASSUME Init
    PROVE  Heap!HeapInit
<1>1. ~sweep.on /\ last = NoCall /\ Healthy(parts, tableAt)
  BY InitHealthy DEF Init, NoSweep
<1>2. HeapBlocks = BlocksOf(parts) /\ HeapTable = TableOf(parts) /\ HeapLast = NoCall
  BY <1>1, HeapView
<1>3. Mine(parts) = {}
  BY DEF Init, Mine, Used, FreePart
<1>4. PICK i \in DOMAIN parts : TableIs(parts, i, tableAt)
  BY <1>1 DEF Healthy
<1>5. HeapTable = BlockOf(parts[i]) /\ i \in Used(parts) /\ i # 0
  BY <1>1, <1>2, <1>4, TableFound DEF TableIs, Healthy, Sound
<1>6. /\ parts[i].addr \in Nat /\ parts[i].size \in Nat /\ parts[i].addr > BaseAddr
      /\ parts[i].addr + parts[i].size <= PhysSize
  BY <1>1, <1>5 DEF Healthy, Sound
<1>7. Heap!Fits(HeapTable, {})
  BY <1>5, <1>6, BlockFields, Sizing DEF Heap!Fits
<1>. QED
  BY <1>2, <1>3, <1>7, MapsInit DEF BlocksOf

\* Every step of the allocator is a step of the heap, or changes nothing there.
LEMMA StepMaps ==
    ASSUME Inv, [Next]_vars
    PROVE  Heap!HeapNext \/ UNCHANGED <<HeapBlocks, HeapTable, HeapLast>>
<1>1. ASSUME NEW cur \in Callers, NEW r \in Requests(cur),
             AllocNothing(r) \/ AllocNoTable(cur, r) \/ AllocFails(cur, r) \/ AllocBlock(r)
      PROVE  Heap!Refuse \/ Heap!Alloc \/ UNCHANGED <<HeapBlocks, HeapTable, HeapLast>>
  BY <1>1, NothingMaps, NoTableMaps, FailsMaps, BlockMaps
<1>2. ASSUME NEW a \in Addresses, FreeAddr(a)
      PROVE  Heap!FreeAddr
  BY <1>2, FreeAddrMaps
<1>3. ASSUME NEW a \in Addresses, NEW arg \in {0} \cup Pids, Fetch(a, arg)
      PROVE  Heap!Fetch
  BY <1>3, FetchMaps
<1>4. ASSUME NEW pid \in Pids, NEW state \in SweptStates, FreeAll(pid, state)
      PROVE  \E q \in Pids, s \in SweptStates : Heap!FreeSet(Heap!OwnedBy(q, s))
  BY <1>4, FreeAllMaps
<1>5. ASSUME NEW dir \in Dirs, FreeDir(dir)
      PROVE  \E d \in Dirs : Heap!FreeSet(Heap!PagesOf(d))
  BY <1>5, FreeDirMaps
<1>6. CASE SweepStep
  BY <1>6, SweepStepMaps
<1>7. CASE SweepEnd
  BY <1>7, SweepEndMaps
<1>8. CASE UNCHANGED vars
  <2>1. UNCHANGED <<HeapBlocks, HeapTable, HeapLast>>
    BY <1>8 DEF vars, HeapBlocks, HeapTable, HeapLast, AsBlock, Clients, ToSweep, Selected
  <2>. QED
    BY <2>1
<1>. QED
  BY <1>1, <1>2, <1>3, <1>4, <1>5, <1>6, <1>7, <1>8 DEF Next, Heap!HeapNext

\* The allocator implements the abstract heap: blocks never overlap and lie in
\* the memory, a request is refused only when nothing fits, mem_free_addr frees
\* the block it names and no other, and mem_free_all and mem_free_dir all that
\* they select although they walk a list they take apart.
THEOREM AllocatorIsHeap == Spec => ImplementsHeap
<1>1. Init => Heap!HeapInit
  BY InitMaps
<1>2. Inv /\ [Next]_vars => [Heap!HeapNext]_(Heap!heapVars)
  <2>. SUFFICES ASSUME Inv, [Next]_vars
                PROVE  Heap!HeapNext \/ UNCHANGED Heap!heapVars
    OBVIOUS
  <2>1. Heap!heapVars = <<HeapBlocks, HeapTable, HeapLast>>
    BY DEF Heap!heapVars, HeapBlocks, HeapTable, HeapLast
  <2>2. CASE Heap!HeapNext
    BY <2>2
  <2>3. CASE UNCHANGED <<HeapBlocks, HeapTable, HeapLast>>
    BY <2>3 DEF Heap!heapVars, HeapBlocks, HeapTable, HeapLast
  <2>. QED
    BY <2>2, <2>3, StepMaps
<1>3. Spec => []Inv
  BY Invariant
<1>. QED
  BY <1>1, <1>2, <1>3, PTL DEF Spec, ImplementsHeap, Heap!HeapSpec
=============================================================================
