--------------------------- MODULE SnowflakeTable ---------------------------
(***************************************************************************)
(* The table of the allocator, for every number of records and every       *)
(* memory: that taking a block out of the list, putting one in after the   *)
(* record where a search stops, and moving the table leave a table that is *)
(* in the order of the addresses, inside the memory and described by one   *)
(* record of its own.  SnowflakeProofs and SnowflakeHeap use these lemmas. *)
(*                                                                         *)
(* In the lemmas t is the table before a change and u the table after it,  *)
(* at and to are their addresses; i, j and k are records.                  *)
(***************************************************************************)
EXTENDS Snowflake, FiniteSetTheorems, WellFoundedInduction, TLAPS

\* A set of numbers has a least one.
LEMMA LeastNumber ==
    ASSUME NEW S, S \subseteq Nat, S # {}
    PROVE  \E x \in S : \A y \in S : x <= y
<1>1. PICK x \in S : \A y \in S : ~ (<<y, x>> \in OpToRel(<, Nat))
  BY WFMin, NatLessThanWellFounded
<1>2. \A y \in S : ~ (y < x)
  BY <1>1 DEF OpToRel
<1>. QED
  BY <1>2

\* A bounded set of numbers has a greatest one.
LEMMA GreatestNumber ==
    ASSUME NEW S, S \subseteq Nat, S # {}, NEW b \in Nat, \A x \in S : x <= b
    PROVE  \E x \in S : \A y \in S : y <= x
<1>. DEFINE D == {b - x : x \in S}
<1>1. D \subseteq Nat
  <2>. SUFFICES ASSUME NEW x \in S PROVE b - x \in Nat
    OBVIOUS
  <2>1. x \in Nat /\ x <= b
    OBVIOUS
  <2>. QED
    BY <2>1
<1>2. PICK d \in D : \A e \in D : d <= e
  BY <1>1, LeastNumber, D # {}
<1>. QED
  BY <1>2

-----------------------------------------------------------------------------
\* What % and \div are, as far as the alignment of a block needs it.
LEMMA Division ==
    ASSUME NEW a \in Nat, NEW b \in Nat, b > 0
    PROVE  \E q \in Nat : a = b * q + (a % b)
<1>1. a = b * (a \div b) + (a % b)
  BY SMT
<1>2. a \div b \in Int
  BY SMT
<1>3. a \div b >= 0
  BY SMT
<1>. QED
  BY <1>1, <1>2, <1>3

\* A remainder is below the divisor.
LEMMA ModInRange ==
    ASSUME NEW a \in Int, NEW b \in Nat, b > 0
    PROVE  a % b \in Nat /\ a % b < b
BY SMT

\* A remainder is not changed by multiples of the divisor.
LEMMA ModOfMultiple ==
    ASSUME NEW b \in Nat, b > 0, NEW q \in Nat, NEW r \in Nat, r < b
    PROVE  (b * q + r) % b = r
BY SMT

\* A number below the word is its own remainder: such a sum does not wrap.
LEMMA ModUp ==
    ASSUME NEW w \in Nat, NEW x \in Nat, x < w
    PROVE  x % w = x
BY SMT

\* What is lost before an aligned address leads to one, and to the next.
LEMMA GapAligns ==
    ASSUME NEW addr \in Nat, NEW align \in Nat
    PROVE  /\ Gap(addr, align) \in Nat /\ Gap(addr, align) <= align
           /\ align # 0 => (addr + Gap(addr, align)) % align = 0
           /\ \A a \in Nat : a >= addr /\ (align = 0 \/ a % align = 0) =>
                    a >= addr + Gap(addr, align)
<1>1. CASE align = 0
  BY <1>1 DEF Gap
<1>2. CASE align # 0
  <2>. DEFINE r == addr % align
  <2>1. align > 0 /\ r \in Nat /\ r < align
    BY <1>2, ModInRange
  <2>2. PICK q \in Nat : addr = align * q + r
    BY <2>1, Division
  <2>3. Gap(addr, align) = IF r = 0 THEN 0 ELSE align - r
    <3>1. CASE r = 0
      <4>1. align - r = align * 1 + 0
        BY <3>1, <2>1
      <4>2. (align * 1 + 0) % align = 0
        BY <2>1, ModOfMultiple
      <4>. QED
        BY <4>1, <4>2, <3>1, <1>2 DEF Gap
    <3>2. CASE r # 0
      BY <3>2, <2>1, <1>2, ModUp DEF Gap
    <3>. QED
      BY <3>1, <3>2
  <2>. HIDE DEF r
  <2>4. (addr + Gap(addr, align)) % align = 0
    <3>1. CASE r = 0
      <4>1. addr + Gap(addr, align) = align * q + 0
        BY <3>1, <2>2, <2>3
      <4>. QED
        BY <4>1, <2>1, ModOfMultiple
    <3>2. CASE r # 0
      <4>1. addr + Gap(addr, align) = align * (q + 1) + 0
        BY <3>2, <2>1, <2>2, <2>3
      <4>2. (align * (q + 1) + 0) % align = 0
        BY <2>1, q + 1 \in Nat, ModOfMultiple
      <4>. QED
        BY <4>1, <4>2
    <3>. QED
      BY <3>1, <3>2
  <2>5. ASSUME NEW a \in Nat, a >= addr, a % align = 0
        PROVE  a >= addr + Gap(addr, align)
    <3>1. PICK k \in Nat : a = align * k
      <4>1. PICK k \in Nat : a = align * k + (a % align)
        BY <2>1, Division
      <4>. QED
        BY <4>1, <2>5
    <3>2. CASE r = 0
      BY <3>2, <2>3, <2>5
    <3>3. CASE r # 0
      <4>1. CASE k <= q
        <5>1. align * k <= align * q
          BY <4>1, <2>1
        <5>. QED
          BY <5>1, <3>1, <3>3, <2>1, <2>2, <2>5
      <4>2. CASE k >= q + 1
        <5>1. align * k >= align * (q + 1)
          BY <4>2, <2>1
        <5>2. align * (q + 1) = align * q + align
          OBVIOUS
        <5>. QED
          BY <5>1, <5>2, <3>1, <3>3, <2>1, <2>2, <2>3
      <4>. QED
        BY <4>1, <4>2
    <3>. QED
      BY <3>2, <3>3
  <2>. QED
    BY <2>1, <2>3, <2>4, <2>5
<1>. QED
  BY <1>1, <1>2

-----------------------------------------------------------------------------
\* A table whose list goes through the blocks in the order of the addresses,
\* from the block before all others; each block is inside the memory.
Sound(t) ==
    /\ 0 \in Used(t)
    /\ t[0].state = "BASE" /\ t[0].addr = BaseAddr /\ t[0].size = 1
    /\ \A i \in Used(t) :
        /\ t[i].next \in DOMAIN t
        /\ t[i].addr \in Nat /\ t[i].size \in Nat /\ t[i].size >= 1
        /\ t[i].addr + t[i].size <= PhysSize
        /\ i # 0 => t[i].state # "BASE" /\ t[i].addr > BaseAddr
    /\ InOrder(t)

\* The constants of the allocator are numbers, the memory far below the word.
LEMMA Sizing ==
    /\ BaseAddr \in Nat /\ PhysSize \in Nat /\ Word \in Nat /\ PARTS_COUNT \in Nat
    /\ GROW_SIZE \in Nat /\ RecordSize \in Nat
    /\ GROW_SIZE >= 1 /\ RecordSize >= 1 /\ 3 * PhysSize < Word /\ PhysSize > BaseAddr
BY ConstantsAssumption

\* A record is either used or free.
LEMMA UsedIn ==
    ASSUME NEW t, NEW i \in DOMAIN t
    PROVE  /\ i \in Used(t) <=> t[i].state # "FREE"
           /\ i \in Unused(t) <=> i \notin Used(t)
           /\ Used(t) \subseteq DOMAIN t /\ Unused(t) \subseteq DOMAIN t
BY DEF Used, Unused

\* The fields of a used record.
LEMMA Fields ==
    ASSUME NEW t, Sound(t), NEW i \in Used(t)
    PROVE  /\ i \in DOMAIN t /\ t[i].next \in DOMAIN t
           /\ t[i].addr \in Nat /\ t[i].size \in Nat /\ t[i].size >= 1
           /\ t[i].addr + t[i].size <= PhysSize
           /\ t[i].next \in Unused(t) <=> t[i].next \notin Used(t)
BY DEF Sound, Used, Unused

\* What InOrder says of two blocks.
LEMMA Order ==
    ASSUME NEW t, Sound(t), NEW i \in Used(t), NEW j \in Used(t), j # i
    PROVE  /\ t[i].next \in Used(t) =>
                /\ t[i].addr + t[i].size <= t[t[i].next].addr
                /\ j # t[i].next => \/ t[j].addr < t[i].addr
                                    \/ t[j].addr > t[t[i].next].addr
           /\ t[i].next \notin Used(t) => t[j].addr < t[i].addr
BY DEF Sound, InOrder

\* No two blocks have the same address: an address names one block.
LEMMA Distinct ==
    ASSUME NEW t, Sound(t), NEW i \in Used(t), NEW j \in Used(t), t[i].addr = t[j].addr
    PROVE  i = j
<1>. SUFFICES ASSUME i # j PROVE FALSE
  OBVIOUS
<1>1. t[i].addr \in Nat /\ t[j].addr \in Nat /\ t[i].size \in Nat /\ t[i].size >= 1
  BY Fields
<1>2. CASE t[i].next \in Used(t)
  <2>1. t[t[i].next].addr \in Nat
    BY <1>2, Fields
  <2>. QED
    BY <1>1, <1>2, <2>1, Order
<1>3. CASE t[i].next \notin Used(t)
  BY <1>1, <1>3, Order
<1>. QED
  BY <1>2, <1>3

\* A block ends before any block of a higher address begins.
LEMMA Apart ==
    ASSUME NEW t, Sound(t), NEW i \in Used(t), NEW j \in Used(t), t[i].addr < t[j].addr
    PROVE  t[i].addr + t[i].size <= t[j].addr
<1>1. t[i].addr \in Nat /\ t[j].addr \in Nat /\ t[i].size \in Nat /\ i # j
  BY Fields
<1>2. t[i].next \in Used(t)
  BY <1>1, Order
<1>3. t[t[i].next].addr \in Nat
  BY <1>2, Fields
<1>. QED
  BY <1>1, <1>2, <1>3, Order

\* Of the blocks of a set, one has the least and one the greatest address.
LEMMA LeastAddr ==
    ASSUME NEW t, Sound(t), NEW S, S \subseteq Used(t), S # {}
    PROVE  \E i \in S : \A j \in S : t[i].addr <= t[j].addr
<1>. DEFINE A == {t[i].addr : i \in S}
<1>1. A \subseteq Nat /\ A # {}
  BY Fields
<1>2. PICK a \in A : \A b \in A : a <= b
  BY <1>1, LeastNumber
<1>. QED
  BY <1>2

\* And one the greatest.
LEMMA GreatestAddr ==
    ASSUME NEW t, Sound(t), NEW S, S \subseteq Used(t), S # {}
    PROVE  \E i \in S : \A j \in S : t[j].addr <= t[i].addr
<1>. DEFINE A == {t[i].addr : i \in S}
<1>1. A \subseteq Nat /\ A # {}
  BY Fields
<1>2. ASSUME NEW i \in S PROVE t[i].addr <= PhysSize
  BY Fields, Sizing
<1>3. \A a \in A : a <= PhysSize
  BY <1>2
<1>. HIDE DEF A
<1>4. PICK a \in A : \A b \in A : b <= a
  BY <1>1, <1>3, GreatestNumber, Sizing
<1>. USE DEF A
<1>. QED
  BY <1>4

\* The list has one end, behind the block of the greatest address.
LEMMA TailExists ==
    ASSUME NEW t, Sound(t)
    PROVE  \E i \in Used(t) : AtTail(t, i)
<1>1. PICK i \in Used(t) : \A j \in Used(t) : t[j].addr <= t[i].addr
  <2>1. Used(t) # {}
    BY DEF Sound
  <2>. QED
    BY <2>1, GreatestAddr
<1>2. t[i].next \notin Used(t)
  <2>. SUFFICES ASSUME t[i].next \in Used(t) PROVE FALSE
    OBVIOUS
  <2>1. t[i].addr + t[i].size <= t[t[i].next].addr
    BY DEF Sound, InOrder
  <2>2. t[i].addr \in Nat /\ t[i].size \in Nat /\ t[i].size >= 1 /\ t[t[i].next].addr \in Nat
    BY Fields
  <2>. QED
    BY <1>1, <2>1, <2>2
<1>. QED
  BY <1>2, Fields DEF AtTail

\* It has only one, and every block before it leads to another.
LEMMA TailUnique ==
    ASSUME NEW t, Sound(t), NEW i \in Used(t), AtTail(t, i), NEW j \in Used(t), j # i
    PROVE  ~AtTail(t, j) /\ t[j].next \in Used(t) /\ t[j].addr < t[i].addr
<1>1. t[j].addr < t[i].addr /\ t[i].addr \in Nat /\ t[j].addr \in Nat
  BY Order, Fields DEF AtTail
<1>. QED
  BY <1>1, Order, Fields DEF AtTail

\* Every block but the first is the next of exactly one other.
LEMMA HolderExists ==
    ASSUME NEW t, Sound(t), NEW j \in Used(t), j # 0
    PROVE  \E i \in Used(t) : t[i].next = j /\ i # j /\ t[i].addr < t[j].addr
<1>. DEFINE S == {i \in Used(t) : t[i].addr < t[j].addr}
<1>1. 0 \in S
  BY Sizing DEF Sound
<1>2. PICK i \in S : \A k \in S : t[k].addr <= t[i].addr
  BY <1>1, GreatestAddr
<1>3. i \in Used(t) /\ t[i].addr < t[j].addr /\ t[i].addr \in Nat /\ t[j].addr \in Nat /\ i # j
  BY Fields
<1>4. t[i].next \in Used(t)
  BY <1>3, Order
<1>5. t[t[i].next].addr \in Nat /\ t[i].addr < t[t[i].next].addr
  <2>1. t[i].addr + t[i].size <= t[t[i].next].addr
    BY <1>3, <1>4, Order
  <2>2. t[i].size \in Nat /\ t[i].size >= 1 /\ t[t[i].next].addr \in Nat
    BY <1>3, <1>4, Fields
  <2>. QED
    BY <2>1, <2>2, <1>3
<1>6. t[i].next = j
  <2>. SUFFICES ASSUME j # t[i].next PROVE FALSE
    OBVIOUS
  <2>1. t[j].addr > t[t[i].next].addr
    BY <1>3, <1>4, Order
  <2>2. t[i].next \in S
    BY <1>4, <1>5, <2>1, <1>3
  <2>. QED
    BY <2>2, <1>2, <1>5, <1>3
<1>. QED
  BY <1>3, <1>6

\* The next block is a higher one, so never the first: mem_free_addr cannot
\* miss a block for starting its search behind the first.
LEMMA NextAbove ==
    ASSUME NEW t, Sound(t), NEW i \in Used(t), t[i].next \in Used(t)
    PROVE  t[i].addr < t[t[i].next].addr /\ t[i].next # i /\ t[i].next # 0
<1>1. t[i].addr + t[i].size <= t[t[i].next].addr
  BY DEF Sound, InOrder
<1>2. /\ t[i].addr \in Nat /\ t[i].size \in Nat /\ t[i].size >= 1
      /\ t[t[i].next].addr \in Nat
  BY Fields
<1>3. t[i].addr < t[t[i].next].addr
  BY <1>1, <1>2
<1>4. t[i].addr >= BaseAddr
  BY <1>2, Sizing DEF Sound
<1>5. t[i].next # 0
  BY <1>2, <1>3, <1>4, Sizing DEF Sound
<1>. QED
  BY <1>2, <1>3, <1>5

\* No two blocks lead to the same one.
LEMMA HolderUnique ==
    ASSUME NEW t, Sound(t), NEW i \in Used(t), NEW j \in Used(t), t[i].next = t[j].next,
           t[i].next \in Used(t)
    PROVE  i = j
<1>. SUFFICES ASSUME i # j PROVE FALSE
  OBVIOUS
<1>. DEFINE n == t[i].next
<1>1. /\ t[i].addr \in Nat /\ t[j].addr \in Nat /\ t[n].addr \in Nat
      /\ t[i].addr < t[n].addr /\ t[j].addr < t[n].addr /\ n # i /\ n # j
  BY Fields, NextAbove
<1>2. t[j].addr < t[i].addr \/ t[j].addr > t[n].addr
  BY <1>1, Order
<1>3. t[i].addr < t[j].addr \/ t[i].addr > t[n].addr
  BY <1>1, Order
<1>. QED
  BY <1>1, <1>2, <1>3

-----------------------------------------------------------------------------
IsTable(t) == PartSize(t) \in Nat /\ t \in [0 .. PartSize(t) - 1 -> Part]

\* Two records that describe the same block, whatever comes next.
Same(p, q) ==
    /\ p.state = q.state /\ p.size = q.size /\ p.addr = q.addr
    /\ p.pid = q.pid /\ p.dir = q.dir

\* Another next leaves the block a record describes as it is.
LEMMA NextOnly ==
    ASSUME NEW p \in Part, NEW n \in Nat
    PROVE  /\ [p EXCEPT !.next = n] \in Part
           /\ [p EXCEPT !.next = n].next = n
           /\ Same([p EXCEPT !.next = n], p)
BY DEF Part, Same

\* A free record is a record.
LEMMA FreePartType ==
    FreePart \in Part /\ FreePart.state = "FREE"
BY DEF FreePart, Part, States, Callers, KernelPid

\* A table is an array of records, and as any array finite.
LEMMA Records ==
    ASSUME NEW t, IsTable(t)
    PROVE  /\ DOMAIN t = 0 .. PartSize(t) - 1 /\ DOMAIN t \subseteq Nat
           /\ \A i \in DOMAIN t : t[i] \in Part
           /\ IsFiniteSet(DOMAIN t) /\ IsFiniteSet(Used(t)) /\ IsFiniteSet(Unused(t))
<1>1. DOMAIN t = 0 .. PartSize(t) - 1 /\ DOMAIN t \subseteq Nat
  BY DEF IsTable
<1>2. \A i \in DOMAIN t : t[i] \in Part
  BY DEF IsTable
<1>3. IsFiniteSet(DOMAIN t)
  BY <1>1, FS_Interval DEF IsTable
<1>4. Used(t) \in SUBSET DOMAIN t /\ Unused(t) \in SUBSET DOMAIN t
  BY DEF Used, Unused
<1>. QED
  BY <1>1, <1>2, <1>3, <1>4, FS_Subset

\* A function with the records of a table is one.
LEMMA SameDomain ==
    ASSUME NEW t, IsTable(t), NEW u, u \in [DOMAIN t -> Part]
    PROVE  IsTable(u) /\ DOMAIN u = DOMAIN t /\ PartSize(u) = PartSize(t)
<1>1. DOMAIN u = DOMAIN t
  OBVIOUS
<1>2. PartSize(u) = PartSize(t)
  BY <1>1 DEF PartSize
<1>3. DOMAIN t = 0 .. PartSize(t) - 1
  BY Records
<1>. QED
  BY <1>1, <1>2, <1>3 DEF IsTable

\* The effect of taking the block at record j out of the list.
LEMMA Removed ==
    ASSUME NEW t, IsTable(t), Sound(t), NEW j \in Used(t), j # 0
    PROVE  \E prev \in Used(t) :
             /\ prev # j /\ t[prev].next = j /\ prev \in Holders(t, t[j].addr)
             /\ Remove(t, t[j].addr) = [t EXCEPT ![prev].next = t[j].next, ![j] = FreePart]
<1>. DEFINE H == Holders(t, t[j].addr)
            prev == CHOOSE i \in H : TRUE
<1>1. H # {}
  BY HolderExists DEF Holders
<1>2. prev \in H
  BY <1>1
<1>3. prev \in Used(t) /\ t[prev].next \in Used(t) /\ t[t[prev].next].addr = t[j].addr
  BY <1>2 DEF Holders
<1>4. t[prev].next = j
  BY <1>3, Distinct
<1>5. prev # j
  BY <1>3, <1>4, NextAbove
<1>6. Remove(t, t[j].addr) = [t EXCEPT ![prev].next = t[j].next, ![j] = FreePart]
  BY <1>4 DEF Remove
<1>. QED
  BY <1>2, <1>3, <1>4, <1>5, <1>6

\* mem_free_addr leaves the table sound and every other block as it was.
LEMMA RemoveSound ==
    ASSUME NEW t, IsTable(t), Sound(t), NEW j \in Used(t), j # 0,
           NEW u, u = Remove(t, t[j].addr)
    PROVE  /\ IsTable(u) /\ DOMAIN u = DOMAIN t /\ PartSize(u) = PartSize(t)
           /\ Sound(u)
           /\ Used(u) = Used(t) \ {j} /\ Unused(u) = Unused(t) \cup {j}
           /\ \A k \in Used(u) : Same(u[k], t[k])
<1>1. PICK prev \in Used(t) :
        /\ prev # j /\ t[prev].next = j
        /\ u = [t EXCEPT ![prev].next = t[j].next, ![j] = FreePart]
  BY Removed
<1>2. /\ j \in DOMAIN t /\ prev \in DOMAIN t /\ t[prev] \in Part /\ t[j] \in Part
      /\ t[j].next \in Nat
  BY Records DEF Used, Part
<1>. DEFINE q == [t[prev] EXCEPT !.next = t[j].next]
<1>3. q \in Part /\ q.next = t[j].next /\ Same(q, t[prev])
  BY <1>2, NextOnly
<1>. HIDE DEF q
<1>4. /\ DOMAIN u = DOMAIN t /\ u[j] = FreePart /\ u[prev] = q
      /\ \A k \in DOMAIN t \ {j, prev} : u[k] = t[k]
  BY <1>1, <1>2 DEF q
<1>5. u \in [DOMAIN t -> Part]
  <2>1. u = [k \in DOMAIN t |-> u[k]]
    BY <1>1
  <2>2. \A k \in DOMAIN t : u[k] \in Part
    BY <1>3, <1>4, FreePartType, Records
  <2>. QED
    BY <2>1, <2>2
<1>6. IsTable(u) /\ DOMAIN u = DOMAIN t /\ PartSize(u) = PartSize(t)
  BY <1>5, SameDomain
<1>7. Used(u) = Used(t) \ {j} /\ Unused(u) = Unused(t) \cup {j}
  <2>1. q.state = t[prev].state
    BY <1>3 DEF Same
  <2>2. Used(u) = Used(t) \ {j}
    BY <1>2, <1>4, <2>1, FreePartType DEF Used
  <2>. QED
    BY <2>2, <1>2, <1>4 DEF Unused, Used
<1>8. \A k \in Used(u) : Same(u[k], t[k])
  BY <1>3, <1>4, <1>7 DEF Same, Used
<1>9. /\ u[prev].next = t[j].next
      /\ \A k \in Used(u) \ {prev} : u[k].next = t[k].next /\ t[k].next # j
  <2>1. \A k \in Used(u) \ {prev} : t[k].next # j
    BY <1>1, <1>7, HolderUnique
  <2>. QED
    BY <1>3, <1>4, <1>7, <2>1 DEF Used
<1>10. InOrder(u)
  <2>. SUFFICES ASSUME NEW i \in Used(u)
                PROVE  LET n == u[i].next IN
                       IF n \in Used(u)
                       THEN /\ u[i].addr + u[i].size <= u[n].addr
                            /\ \A k \in Used(u) \ {i, n} :
                                   u[k].addr < u[i].addr \/ u[k].addr > u[n].addr
                       ELSE /\ n \in Unused(u)
                            /\ \A k \in Used(u) \ {i} : u[k].addr < u[i].addr
    BY DEF InOrder
  <2>1. /\ i \in Used(t) /\ i # j
        /\ \A k \in Used(u) : /\ u[k].addr = t[k].addr /\ u[k].size = t[k].size
                              /\ t[k].addr \in Nat /\ t[k].size \in Nat
                              /\ k \in Used(t) /\ k # j
    BY <1>7, <1>8, Fields DEF Same
  <2>2. CASE i # prev
    <3>1. u[i].next = t[i].next /\ t[i].next # j /\ t[i].next \in DOMAIN t
      BY <2>1, <2>2, <1>9, Fields
    <3>2. CASE t[i].next \in Used(t)
      BY <3>1, <3>2, <2>1, <1>7, Order, NextAbove
    <3>3. CASE t[i].next \notin Used(t)
      BY <3>1, <3>3, <2>1, <1>7, Order DEF Unused
    <3>. QED
      BY <3>2, <3>3
  <2>3. CASE i = prev
    <3>1. u[i].next = t[j].next /\ t[j].next \in DOMAIN t /\ t[i].next = j
      BY <2>3, <1>1, <1>9, Fields
    <3>2. t[i].addr + t[i].size <= t[j].addr /\ t[j].addr \in Nat
      BY <3>1, <2>1, <2>3, Order, Fields
    <3>3. \A k \in Used(u) \ {i} : t[k].addr < t[i].addr \/ t[k].addr > t[j].addr
      BY <3>1, <2>1, <2>3, Order
    <3>4. CASE t[j].next \in Used(t)
      <4>1. t[j].addr < t[t[j].next].addr /\ t[j].next # j
        BY <3>4, NextAbove
      <4>2. \A k \in Used(u) \ {t[j].next} :
                t[k].addr < t[j].addr \/ t[k].addr > t[t[j].next].addr
        BY <3>4, <2>1, Order
      <4>3. t[t[j].next].addr \in Nat /\ t[j].next \in Used(u)
        BY <3>4, <4>1, Fields, <1>7
      <4>4. \A k \in Used(u) \ {i, t[j].next} :
                t[k].addr < t[i].addr \/ t[k].addr > t[t[j].next].addr
        BY <4>2, <3>3, <3>2, <2>1
      <4>. QED
        BY <4>1, <4>3, <4>4, <3>1, <3>2, <2>1
    <3>5. CASE t[j].next \notin Used(t)
      <4>1. \A k \in Used(u) : t[k].addr < t[j].addr
        BY <3>5, <2>1, Order
      <4>2. \A k \in Used(u) \ {i} : t[k].addr < t[i].addr
        BY <4>1, <3>2, <3>3, <2>1
      <4>3. t[j].next \in Unused(u) /\ t[j].next \notin Used(u)
        BY <3>1, <3>5, <1>7 DEF Unused
      <4>. QED
        BY <4>2, <4>3, <3>1, <2>1
    <3>. QED
      BY <3>4, <3>5
  <2>. QED
    BY <2>2, <2>3
<1>11. Sound(u)
  <2>1. 0 \in Used(u) /\ u[0].state = "BASE" /\ u[0].addr = BaseAddr /\ u[0].size = 1
    BY <1>7, <1>8 DEF Sound, Same
  <2>2. ASSUME NEW i \in Used(u)
        PROVE  /\ u[i].next \in DOMAIN u
               /\ u[i].addr \in Nat /\ u[i].size \in Nat /\ u[i].size >= 1
               /\ u[i].addr + u[i].size <= PhysSize
               /\ i # 0 => u[i].state # "BASE" /\ u[i].addr > BaseAddr
    <3>1. Same(u[i], t[i]) /\ i \in Used(t)
      BY <1>7, <1>8
    <3>2. u[i].next \in DOMAIN u
      BY <3>1, <1>4, <1>9, Fields
    <3>. QED
      BY <3>1, <3>2 DEF Sound, Same
  <2>. QED
    BY <2>1, <2>2, <1>10 DEF Sound
<1>. QED
  BY <1>6, <1>7, <1>8, <1>11

-----------------------------------------------------------------------------
\* get_unused_index finds a record, if there is one.
LEMMA UnusedFound ==
    ASSUME NEW t, IsTable(t), NEW not, Unused(t) \ {not} # {}
    PROVE  UnusedIndex(t, not) \in Unused(t) \ {not}
<1>. DEFINE S == Unused(t) \ {not}
<1>1. S \subseteq Nat /\ S # {}
  BY Records DEF Unused
<1>2. \E i \in S : \A j \in S : i <= j
  BY <1>1, LeastNumber
<1>. QED
  BY <1>2 DEF UnusedIndex, Lowest

\* The table t with the block p, described by the record new, that the block
\* at i leads to.  The other blocks lead where they did, unless the list ended
\* at new: then it ends at another record.
Extends(t, u, i, new, p) ==
    /\ IsTable(u) /\ DOMAIN u = DOMAIN t
    /\ new \in Unused(t)
    /\ Used(u) = Used(t) \cup {new} /\ Unused(u) = Unused(t) \ {new}
    /\ Same(u[new], p)
    /\ \A k \in Used(t) : Same(u[k], t[k])
    /\ u[i].next = new
    /\ IF AtTail(t, i) THEN u[new].next \in Unused(u)
                       ELSE u[new].next = t[i].next
    /\ \A k \in Used(t) \ {i} :
            IF AtTail(t, k) THEN u[k].next \in Unused(u)
                            ELSE u[k].next = t[k].next

\* A block after the last one takes the free record that ended the list, and
\* get_unused_index finds another to end it.
LEMMA InsertAtTail ==
    ASSUME NEW t, IsTable(t), Sound(t), NEW i \in Used(t), AtTail(t, i),
           NEW p \in Part, p.state # "FREE", ~OutOfRecords(t, i)
    PROVE  Extends(t, Insert(t, i, p), i, t[i].next, p)
<1>. DEFINE new == t[i].next
            free == UnusedIndex(t, new)
            q == [p EXCEPT !.next = free]
            u == Insert(t, i, p)
<1>1. new \in Unused(t) /\ new \in DOMAIN t /\ new \notin Used(t)
  BY DEF AtTail, Unused
<1>2. free \in Unused(t) \ {new} /\ free \in Nat
  <2>1. Unused(t) \ {new} # {}
    BY <1>1 DEF OutOfRecords
  <2>2. free \in Unused(t) \ {new}
    BY <2>1, UnusedFound
  <2>. QED
    BY <2>2, Records DEF Unused
<1>3. q \in Part /\ q.next = free /\ Same(q, p)
  BY <1>2, NextOnly
<1>4. u = [t EXCEPT ![new] = q]
  BY DEF Insert
<1>. HIDE DEF q, u, new, free
<1>5. u \in [DOMAIN t -> Part]
  BY <1>1, <1>3, <1>4, Records DEF IsTable
<1>6. u[new] = q /\ \A k \in DOMAIN t \ {new} : u[k] = t[k]
  BY <1>1, <1>4
<1>7. IsTable(u) /\ DOMAIN u = DOMAIN t
  BY <1>5, SameDomain
<1>8. Used(u) = Used(t) \cup {new}
  <2>1. q.state # "FREE"
    BY <1>3 DEF Same
  <2>. QED
    BY <2>1, <1>1, <1>6, <1>7 DEF Used
<1>9. Unused(u) = Unused(t) \ {new}
  BY <1>7, <1>8, <1>1 DEF Unused
<1>10. \A k \in Used(t) : u[k] = t[k]
  BY <1>1, <1>6 DEF Used
<1>11. \A k \in Used(t) \ {i} : ~AtTail(t, k)
  BY TailUnique
<1>12. \A k \in Used(t) : Same(u[k], t[k])
  BY <1>10 DEF Same
<1>13. u[i].next = new
  BY <1>10 DEF new
<1>. QED
  BY <1>1, <1>2, <1>3, <1>6, <1>7, <1>8, <1>9, <1>10, <1>11, <1>12, <1>13 DEF Extends, new, u

\* A block between two others may take the very record that ends the list:
\* del_occurence lets the list end at another first.
LEMMA InsertInGap ==
    ASSUME NEW t, IsTable(t), Sound(t), NEW i \in Used(t), ~AtTail(t, i),
           NEW p \in Part, p.state # "FREE", ~OutOfRecords(t, i)
    PROVE  \E new \in Unused(t) : Extends(t, Insert(t, i, p), i, new, p)
<1>. DEFINE new == UnusedIndex(t, NoIndex)
            d == DelOccurence(t, new)
            q == [p EXCEPT !.next = t[i].next]
            u == Insert(t, i, p)
<1>1. new \in Unused(t) /\ new \in DOMAIN t /\ new \notin Used(t) /\ new \in Nat
  <2>1. Unused(t) \ {NoIndex} # {}
    <3>1. \A k \in Unused(t) : k \in Nat
      BY Records DEF Unused
    <3>. QED
      BY <3>1 DEF OutOfRecords, NoIndex
  <2>2. new \in Unused(t)
    BY <2>1, UnusedFound
  <2>. QED
    BY <2>2, Records DEF Unused
<1>. HIDE DEF new
<1>2. PICK z \in Used(t) : AtTail(t, z)
  BY TailExists
<1>3. z # i /\ t[z].next \in Unused(t) /\ \A k \in Used(t) \ {z} : t[k].next \in Used(t)
  BY <1>2, TailUnique DEF AtTail
<1>. DEFINE free == UnusedIndex(t, new)
<1>4. t[z].next = new => free \in Unused(t) \ {new} /\ free \in Nat
  <2>. SUFFICES ASSUME t[z].next = new
                PROVE  free \in Unused(t) \ {new} /\ free \in Nat
    OBVIOUS
  <2>1. Unused(t) # {t[z].next}
    BY DEF OutOfRecords
  <2>2. Unused(t) \ {new} # {}
    BY <2>1, <1>1
  <2>3. free \in Unused(t) \ {new}
    BY <2>2, UnusedFound
  <2>. QED
    BY <2>3, Records DEF Unused
<1>. HIDE DEF free
<1>5. d = [k \in DOMAIN t |-> IF k = z /\ t[z].next = new THEN [t[z] EXCEPT !.next = free]
                                                          ELSE t[k]]
  BY <1>1, <1>2, <1>3 DEF DelOccurence, free
<1>6. i \in DOMAIN t /\ z \in DOMAIN t /\ t[i] \in Part /\ t[z] \in Part /\ t[i].next \in Nat
  BY Records DEF Used, Part
<1>. DEFINE zq == IF t[z].next = new THEN [t[z] EXCEPT !.next = free] ELSE t[z]
            iq == [t[i] EXCEPT !.next = new]
<1>7. zq \in Part /\ Same(zq, t[z]) /\ zq.next \in Unused(t) \ {new}
  <2>1. CASE t[z].next = new
    BY <2>1, <1>4, <1>6, NextOnly
  <2>2. CASE t[z].next # new
    BY <2>2, <1>3, <1>6 DEF Same
  <2>. QED
    BY <2>1, <2>2
<1>8. iq \in Part /\ Same(iq, t[i]) /\ iq.next = new
  BY <1>1, <1>6, NextOnly
<1>9. q \in Part /\ q.next = t[i].next /\ Same(q, p)
  BY <1>6, NextOnly
<1>10. u = [d EXCEPT ![i].next = new, ![new] = q]
  BY DEF Insert, new
<1>11. DOMAIN d = DOMAIN t /\ d[i] = t[i]
  BY <1>5, <1>6, <1>3
<1>12. u = [k \in DOMAIN t |-> IF k = new THEN q ELSE IF k = i THEN iq ELSE d[k]]
  <2>1. i # new
    BY <1>1
  <2>. HIDE DEF d, u, q
  <2>. QED
    BY <2>1, <1>10, <1>11, <1>6
<1>13. u = [k \in DOMAIN t |-> IF k = new THEN q ELSE IF k = i THEN iq
                                ELSE IF k = z THEN zq ELSE t[k]]
  BY <1>12, <1>5, <1>3
<1>. HIDE DEF u, d, q, iq, zq
<1>14. u \in [DOMAIN t -> Part]
  BY <1>13, <1>7, <1>8, <1>9, Records
<1>15. IsTable(u) /\ DOMAIN u = DOMAIN t
  BY <1>14, SameDomain
<1>16. /\ u[new] = q /\ u[i] = iq /\ u[z] = zq
       /\ \A k \in DOMAIN t \ {new, i, z} : u[k] = t[k]
  BY <1>13, <1>1, <1>3, <1>6
<1>17. \A k \in Used(t) : Same(u[k], t[k])
  BY <1>16, <1>1, <1>7, <1>8 DEF Same, Used
<1>18. Used(u) = Used(t) \cup {new}
  <2>1. q.state # "FREE"
    BY <1>9 DEF Same
  <2>2. ASSUME NEW k \in DOMAIN t, k # new PROVE u[k].state = t[k].state
    BY <2>2, <1>16, <1>7, <1>8 DEF Same
  <2>. QED
    BY <2>1, <2>2, <1>1, <1>15, <1>16 DEF Used
<1>19. Unused(u) = Unused(t) \ {new}
  BY <1>15, <1>18, <1>1 DEF Unused
<1>20. ASSUME NEW k \in Used(t) \ {i}
       PROVE  IF AtTail(t, k) THEN u[k].next \in Unused(u) ELSE u[k].next = t[k].next
  <2>1. CASE k = z
    BY <2>1, <1>2, <1>7, <1>16, <1>19
  <2>2. CASE k # z
    <3>1. ~AtTail(t, k)
      BY <2>2, <1>2, TailUnique
    <3>2. k \in DOMAIN t \ {new, i, z}
      BY <2>2, <1>1 DEF Used
    <3>. QED
      BY <3>1, <3>2, <1>16
  <2>. QED
    BY <2>1, <2>2
<1>. QED
  BY <1>1, <1>8, <1>9, <1>15, <1>16, <1>17, <1>18, <1>19, <1>20 DEF Extends, u

\* A block behind i that ends before the next one keeps the table sound.
LEMMA ExtendsSound ==
    ASSUME NEW t, IsTable(t), Sound(t), NEW i \in Used(t), NEW new, NEW p \in Part,
           NEW u, Extends(t, u, i, new, p),
           p.state \notin {"FREE", "BASE"}, p.size >= 1,
           p.addr >= t[i].addr + t[i].size, p.addr + p.size <= PhysSize,
           ~AtTail(t, i) => p.addr + p.size <= t[t[i].next].addr
    PROVE  Sound(u)
<1>1. /\ Used(u) = Used(t) \cup {new} /\ Unused(u) = Unused(t) \ {new}
      /\ DOMAIN u = DOMAIN t /\ new \in Unused(t) /\ u[i].next = new
  BY DEF Extends
<1>2. new \in DOMAIN t /\ new \notin Used(t) /\ i # new
  BY <1>1 DEF Unused
<1>3. /\ u[new].addr = p.addr /\ u[new].size = p.size /\ p.addr \in Nat /\ p.size \in Nat
      /\ u[new].state = p.state
  BY DEF Extends, Same, Part
<1>4. \A k \in Used(t) : /\ u[k].addr = t[k].addr /\ u[k].size = t[k].size
                         /\ u[k].state = t[k].state
                         /\ t[k].addr \in Nat /\ t[k].size \in Nat /\ t[k].size >= 1
  BY Fields DEF Extends, Same
<1>5. \A k \in Used(t) : AtTail(t, k) <=> t[k].next \notin Used(t)
  BY Fields DEF AtTail
<1>6. AtTail(t, i) => /\ u[new].next \in Unused(u)
                      /\ \A k \in Used(t) : t[k].addr <= t[i].addr
  <2>. SUFFICES ASSUME AtTail(t, i)
                PROVE  /\ u[new].next \in Unused(u)
                       /\ \A k \in Used(t) : t[k].addr <= t[i].addr
    OBVIOUS
  <2>1. \A k \in Used(t) \ {i} : t[k].addr < t[i].addr
    BY TailUnique
  <2>. QED
    BY <2>1, <1>4 DEF Extends
<1>7. ~AtTail(t, i) =>
        /\ u[new].next = t[i].next /\ t[i].next \in Used(t)
        /\ t[i].addr < t[t[i].next].addr
        /\ \A k \in Used(t) \ {i} : t[k].addr < t[i].addr \/ t[k].addr >= t[t[i].next].addr
  <2>. SUFFICES ASSUME ~AtTail(t, i)
                PROVE  /\ u[new].next = t[i].next /\ t[i].next \in Used(t)
                       /\ t[i].addr < t[t[i].next].addr
                       /\ \A k \in Used(t) \ {i} :
                            t[k].addr < t[i].addr \/ t[k].addr >= t[t[i].next].addr
    OBVIOUS
  <2>1. t[i].next \in Used(t) /\ t[t[i].next].addr \in Nat
    BY <1>4, <1>5
  <2>2. \A k \in Used(t) \ {i} :
            k # t[i].next => t[k].addr < t[i].addr \/ t[k].addr > t[t[i].next].addr
    BY <2>1, Order
  <2>. QED
    BY <2>1, <2>2, <1>4, NextAbove DEF Extends
<1>8. InOrder(u)
  <2>. SUFFICES ASSUME NEW k \in Used(u)
                PROVE  LET n == u[k].next IN
                       IF n \in Used(u)
                       THEN /\ u[k].addr + u[k].size <= u[n].addr
                            /\ \A j \in Used(u) \ {k, n} :
                                   u[j].addr < u[k].addr \/ u[j].addr > u[n].addr
                       ELSE /\ n \in Unused(u)
                            /\ \A j \in Used(u) \ {k} : u[j].addr < u[k].addr
    BY DEF InOrder
  <2>1. t[i].addr < p.addr
    BY <1>3, <1>4
  <2>2. CASE k = new /\ AtTail(t, i)
    <3>1. \A j \in Used(u) \ {new} : u[j].addr < p.addr
      BY <1>1, <1>3, <1>4, <1>6, <2>1, <2>2
    <3>. QED
      BY <3>1, <1>3, <1>6, <2>2 DEF Unused
  <2>3. CASE k = new /\ ~AtTail(t, i)
    <3>1. \A j \in Used(t) : j # t[i].next =>
              t[j].addr < p.addr \/ t[j].addr > t[t[i].next].addr
      <4>. SUFFICES ASSUME NEW j \in Used(t), j # t[i].next
                    PROVE  t[j].addr < p.addr \/ t[j].addr > t[t[i].next].addr
        OBVIOUS
      <4>1. CASE j = i
        BY <4>1, <2>1
      <4>2. CASE j # i
        <5>1. t[j].addr < t[i].addr \/ t[j].addr > t[t[i].next].addr
          BY <4>2, <2>3, <1>7, Order
        <5>2. t[i].addr \in Nat /\ t[j].addr \in Nat
          BY <1>4
        <5>. QED
          BY <5>1, <5>2, <2>1, <1>3
      <4>. QED
        BY <4>1, <4>2
    <3>. QED
      BY <3>1, <1>1, <1>3, <1>4, <1>7, <2>3
  <2>4. CASE k = i
    <3>1. u[k].addr + u[k].size <= u[new].addr
      BY <2>4, <1>3, <1>4
    <3>2. ASSUME NEW j \in Used(t), j # i
          PROVE  t[j].addr < t[i].addr \/ t[j].addr > p.addr
      <4>1. CASE AtTail(t, i)
        BY <4>1, <3>2, TailUnique
      <4>2. CASE ~AtTail(t, i)
        <5>1. p.addr < t[t[i].next].addr /\ t[t[i].next].addr \in Nat
          BY <4>2, <1>3, <1>4, <1>7
        <5>2. t[i].addr \in Nat /\ t[j].addr \in Nat
          BY <1>4
        <5>. QED
          BY <5>1, <5>2, <4>2, <3>2, <1>3, <1>7
      <4>. QED
        BY <4>1, <4>2
    <3>. QED
      BY <3>1, <3>2, <2>4, <1>1, <1>3, <1>4
  <2>5. CASE k \in Used(t) /\ k # i /\ AtTail(t, k)
    <3>1. u[k].next \in Unused(u) /\ u[k].next \notin Used(u)
      BY <2>5 DEF Extends, Unused
    <3>2. \A j \in Used(t) \ {k} : t[j].addr < t[k].addr
      BY <2>5, TailUnique
    <3>3. p.addr < t[k].addr
      <4>1. ~AtTail(t, i) /\ t[i].addr < t[k].addr
        BY <2>5, TailUnique
      <4>2. t[k].addr >= t[t[i].next].addr
        BY <4>1, <2>5, <1>7, <1>4
      <4>. QED
        BY <4>1, <4>2, <2>5, <1>3, <1>4, <1>7
    <3>. QED
      BY <3>1, <3>2, <3>3, <2>5, <1>1, <1>3, <1>4
  <2>6. CASE k \in Used(t) /\ k # i /\ ~AtTail(t, k)
    <3>1. u[k].next = t[k].next /\ t[k].next \in Used(t)
      BY <2>6, <1>5 DEF Extends
    <3>2. t[k].addr + t[k].size <= t[t[k].next].addr
      BY <3>1, <2>6 DEF Sound, InOrder
    <3>3. \A j \in Used(t) \ {k, t[k].next} :
              t[j].addr < t[k].addr \/ t[j].addr > t[t[k].next].addr
      BY <3>1, <2>6, Order
    <3>4. p.addr < t[k].addr \/ p.addr > t[t[k].next].addr
      <4>1. CASE AtTail(t, i)
        <5>1. t[t[k].next].addr <= t[i].addr
          BY <4>1, <3>1, <1>6
        <5>. QED
          BY <5>1, <2>1, <3>1, <1>3, <1>4
      <4>2. CASE ~AtTail(t, i)
        <5>1. t[k].addr < t[i].addr \/ t[k].addr >= t[t[i].next].addr
          BY <4>2, <2>6, <1>7
        <5>2. CASE t[k].addr >= t[t[i].next].addr
          BY <5>2, <4>2, <2>6, <1>3, <1>4, <1>7
        <5>3. CASE t[k].addr < t[i].addr
          <6>1. t[t[k].next].addr <= t[i].addr
            <7>1. CASE i = t[k].next
              BY <7>1, <1>4
            <7>2. CASE i # t[k].next
              <8>1. t[i].addr > t[t[k].next].addr
                BY <7>2, <5>3, <3>3, <2>6, <1>4
              <8>. QED
                BY <8>1, <3>1, <1>4
            <7>. QED
              BY <7>1, <7>2
          <6>. QED
            BY <6>1, <2>1, <3>1, <1>3, <1>4
        <5>. QED
          BY <5>1, <5>2, <5>3
      <4>. QED
        BY <4>1, <4>2
    <3>. QED
      BY <3>1, <3>2, <3>3, <3>4, <2>6, <1>1, <1>2, <1>3, <1>4
  <2>. QED
    BY <2>2, <2>3, <2>4, <2>5, <2>6, <1>1
<1>9. 0 \in Used(u) /\ u[0].state = "BASE" /\ u[0].addr = BaseAddr /\ u[0].size = 1
  BY <1>1, <1>4 DEF Sound
<1>10. \A k \in Used(u) : u[k].next \in DOMAIN u
  <2>1. Used(u) \subseteq DOMAIN u /\ Unused(u) \subseteq DOMAIN u
    BY DEF Used, Unused
  <2>2. \A k \in Used(t) : ~AtTail(t, k) => t[k].next \in Used(t)
    BY <1>5
  <2>3. u[new].next \in DOMAIN u
    BY <2>1, <1>1, <1>6, <1>7
  <2>4. \A k \in Used(t) \ {i} : u[k].next \in DOMAIN u
    BY <2>1, <2>2, <1>1 DEF Extends
  <2>. QED
    BY <2>1, <2>3, <2>4, <1>1, <1>2
<1>11. ASSUME NEW k \in Used(u)
       PROVE  /\ u[k].addr \in Nat /\ u[k].size \in Nat /\ u[k].size >= 1
              /\ u[k].addr + u[k].size <= PhysSize
              /\ k # 0 => u[k].state # "BASE" /\ u[k].addr > BaseAddr
  <2>1. CASE k = new
    <3>1. t[i].addr >= BaseAddr /\ t[i].addr < p.addr
      BY <1>3, <1>4, Sizing DEF Sound
    <3>. QED
      BY <3>1, <2>1, <1>3, <1>4, Sizing
  <2>2. CASE k \in Used(t)
    BY <2>2, <1>4 DEF Sound
  <2>. QED
    BY <2>1, <2>2, <1>1
<1>. QED
  BY <1>8, <1>9, <1>10, <1>11 DEF Sound

\* What mem_alloc_func does to the table, wherever its search stops.
LEMMA InsertSound ==
    ASSUME NEW t, IsTable(t), Sound(t), NEW i \in Used(t), NEW p \in Part,
           ~OutOfRecords(t, i),
           p.state \notin {"FREE", "BASE"}, p.size >= 1,
           p.addr >= t[i].addr + t[i].size, p.addr + p.size <= PhysSize,
           ~AtTail(t, i) => p.addr + p.size <= t[t[i].next].addr
    PROVE  /\ Sound(Insert(t, i, p))
           /\ \E new \in Unused(t) : Extends(t, Insert(t, i, p), i, new, p)
<1>1. PICK new \in Unused(t) : Extends(t, Insert(t, i, p), i, new, p)
  <2>1. CASE AtTail(t, i)
    <3>1. t[i].next \in Unused(t)
      BY <2>1 DEF AtTail
    <3>. QED
      BY <2>1, <3>1, InsertAtTail
  <2>2. CASE ~AtTail(t, i)
    BY <2>2, InsertInGap
  <2>. QED
    BY <2>1, <2>2
<1>2. Sound(Insert(t, i, p))
  BY <1>1, ExtendsSound
<1>. QED
  BY <1>1, <1>2

-----------------------------------------------------------------------------
\* The larger table lists the same blocks.
LEMMA GrownSound ==
    ASSUME NEW t, IsTable(t), Sound(t), NEW u, u = Grown(t)
    PROVE  /\ IsTable(u) /\ Sound(u) /\ PartSize(u) = PartSize(t) + GROW_SIZE
           /\ Used(u) = Used(t) /\ \A k \in Used(t) : u[k] = t[k]
           /\ Unused(u) = Unused(t) \cup PartSize(t) .. PartSize(t) + GROW_SIZE - 1
<1>. DEFINE n == PartSize(t)
            m == PartSize(t) + GROW_SIZE
<1>1. n \in Nat /\ m \in Nat /\ DOMAIN t = 0 .. n - 1 /\ DOMAIN t \subseteq 0 .. m - 1
  BY Records, Sizing DEF IsTable
<1>2. PartSize(t) + GROW_SIZE - 1 = m - 1
  BY <1>1, Sizing
<1>. HIDE DEF m
<1>3. u = [i \in 0 .. m - 1 |-> IF i \in DOMAIN t THEN t[i] ELSE FreePart]
  BY <1>2 DEF Grown
<1>. HIDE DEF n
<1>4. u \in [0 .. m - 1 -> Part]
  BY <1>3, Records, FreePartType
<1>5. DOMAIN u = 0 .. m - 1 /\ PartSize(u) = m
  <2>1. DOMAIN u = 0 .. m - 1
    BY <1>3
  <2>2. Cardinality(0 .. m - 1) = m
    BY <1>1, FS_Interval
  <2>. QED
    BY <2>1, <2>2 DEF PartSize
<1>6. /\ \A k \in DOMAIN t : u[k] = t[k]
      /\ \A k \in DOMAIN u \ DOMAIN t : u[k] = FreePart
  BY <1>1, <1>3, <1>5
<1>7. Used(u) = Used(t)
  BY <1>1, <1>5, <1>6, FreePartType DEF Used
<1>8. \A k \in Used(t) : u[k] = t[k]
  BY <1>6 DEF Used
<1>9. Unused(u) = Unused(t) \cup n .. m - 1
  <2>1. (0 .. m - 1) = (0 .. n - 1) \cup (n .. m - 1) /\ (0 .. n - 1) \cap (n .. m - 1) = {}
    BY <1>1, Sizing DEF m, n
  <2>. QED
    BY <2>1, <1>1, <1>5, <1>7 DEF Unused, Used
<1>10. InOrder(u)
  BY <1>7, <1>8, <1>9 DEF Sound, InOrder
<1>11. Sound(u)
  BY <1>1, <1>5, <1>7, <1>8, <1>10 DEF Sound
<1>. QED
  BY <1>1, <1>2, <1>4, <1>5, <1>7, <1>8, <1>9, <1>11 DEF IsTable, n, m

\* An allocation takes one free record.
LEMMA CountExtended ==
    ASSUME NEW t, IsTable(t), NEW u, NEW i, NEW new, NEW p, Extends(t, u, i, new, p)
    PROVE  Cardinality(Unused(u)) = Cardinality(Unused(t)) - 1
<1>1. IsFiniteSet(Unused(t)) /\ new \in Unused(t) /\ Unused(u) = Unused(t) \ {new}
  BY Records DEF Extends
<1>. QED
  BY <1>1, FS_RemoveElement

\* A free gives one back.
LEMMA CountRemoved ==
    ASSUME NEW t, IsTable(t), Sound(t), NEW j \in Used(t), j # 0
    PROVE  Cardinality(Unused(Remove(t, t[j].addr))) = Cardinality(Unused(t)) + 1
<1>1. Unused(Remove(t, t[j].addr)) = Unused(t) \cup {j}
  BY RemoveSound
<1>2. j \notin Unused(t)
  BY DEF Unused
<1>. QED
  BY <1>1, <1>2, Records, FS_AddElement

\* A larger table has GROW_SIZE more.
LEMMA CountGrown ==
    ASSUME NEW t, IsTable(t), Sound(t)
    PROVE  Cardinality(Unused(Grown(t))) = Cardinality(Unused(t)) + GROW_SIZE
<1>. DEFINE new == PartSize(t) .. PartSize(t) + GROW_SIZE - 1
<1>1. Unused(Grown(t)) = Unused(t) \cup new
  BY GrownSound
<1>2. IsFiniteSet(new) /\ Cardinality(new) = GROW_SIZE
  BY FS_Interval, Sizing DEF IsTable
<1>3. Unused(t) \cap new = {}
  BY Records DEF Unused, IsTable
<1>4. Cardinality(Unused(t) \cap new) = 0
  BY <1>3, FS_EmptySet
<1>5. IsFiniteSet(Unused(t)) /\ Cardinality(Unused(t)) \in Nat
  BY Records, FS_CardinalityType
<1>. HIDE DEF new
<1>6. Cardinality(Unused(t) \cup new)
        = Cardinality(Unused(t)) + Cardinality(new) - Cardinality(Unused(t) \cap new)
  BY <1>2, <1>5, FS_Union
<1>. QED
  BY <1>1, <1>2, <1>4, <1>5, <1>6, Sizing

\* With two free records get_unused_index finds all that mem_alloc_func asks
\* it for: one for the block and one to end the list.
LEMMA TwoFreeSuffice ==
    ASSUME NEW t, IsTable(t), Cardinality(Unused(t)) >= 2, NEW i
    PROVE  ~OutOfRecords(t, i)
<1>1. Unused(t) # {}
  BY FS_EmptySet
<1>2. ASSUME NEW x PROVE Unused(t) # {x}
  <2>1. Cardinality({x}) = 1
    BY FS_Singleton
  <2>. QED
    BY <2>1
<1>. QED
  BY <1>1, <1>2 DEF OutOfRecords

-----------------------------------------------------------------------------
\* The search of mem_alloc_func stops, first at the lowest address it can.
LEMMA StopsFirst ==
    ASSUME NEW t, Sound(t), NEW size, NEW align, NEW i, i = StopIndex(t, size, align)
    PROVE  /\ i \in Used(t) /\ StopsAfter(t, i, size, align)
           /\ \A j \in Used(t) : StopsAfter(t, j, size, align) => t[i].addr <= t[j].addr
<1>. DEFINE stops == {k \in Used(t) : StopsAfter(t, k, size, align)}
<1>1. stops # {}
  <2>1. PICK z \in Used(t) : AtTail(t, z)
    BY TailExists
  <2>2. t[z].next \notin Used(t)
    BY <2>1 DEF AtTail, Unused
  <2>. QED
    BY <2>2 DEF StopsAfter
<1>2. \E k \in stops : \A j \in stops : t[k].addr <= t[j].addr
  BY <1>1, LeastAddr
<1>3. i = CHOOSE k \in stops : \A j \in stops : t[k].addr <= t[j].addr
  BY DEF StopIndex
<1>. HIDE DEF stops
<1>4. i \in stops /\ \A j \in stops : t[i].addr <= t[j].addr
  BY <1>2, <1>3
<1>. QED
  BY <1>4 DEF stops

\* Sums of addresses and sizes do not overflow for such a request.
Moderate(size, align) ==
    /\ size \in Nat /\ align \in Nat
    /\ PhysSize + size + align < Word

\* Nothing that mem_alloc_func adds up for such a request wraps.
LEMMA NoOverflow ==
    ASSUME NEW t, Sound(t), NEW i \in Used(t), NEW size, NEW align, Moderate(size, align)
    PROVE  LET end == t[i].addr + t[i].size
               gap == Gap(end, align)
           IN  /\ end \in Nat /\ gap \in Nat
               /\ End(t[i]) = end
               /\ Plus(size, gap) = size + gap
               /\ Plus(Plus(end, size), gap) = end + size + gap
               /\ Plus(end, gap) = end + gap
<1>. DEFINE end == t[i].addr + t[i].size
            gap == Gap(end, align)
<1>1. end \in Nat /\ end <= PhysSize /\ size \in Nat /\ align \in Nat
  BY Fields DEF Moderate
<1>. HIDE DEF end
<1>2. gap \in Nat /\ gap <= align
  BY <1>1, GapAligns
<1>. HIDE DEF gap
<1>3. Word \in Nat /\ PhysSize \in Nat /\ PhysSize + size + align < Word
  BY Sizing DEF Moderate
<1>4. \A x \in Nat : x < Word => x % Word = x
  BY <1>3, ModUp
<1>5. Plus(size, gap) = size + gap
  BY <1>1, <1>2, <1>3, <1>4 DEF Plus
<1>6. Plus(end, gap) = end + gap
  BY <1>1, <1>2, <1>3, <1>4 DEF Plus
<1>7. Plus(end, size) = end + size
  BY <1>1, <1>2, <1>3, <1>4 DEF Plus
<1>8. Plus(end + size, gap) = end + size + gap
  BY <1>1, <1>2, <1>3, <1>4 DEF Plus
<1>9. End(t[i]) = end
  BY <1>1, <1>3, <1>4 DEF End, Plus, end
<1>. QED
  BY <1>1, <1>2, <1>5, <1>6, <1>7, <1>8, <1>9 DEF end, gap

\* The block made for a request lies where mem_alloc_func has seen room.
LEMMA NewPartFits ==
    ASSUME NEW t, Sound(t), NEW r, Moderate(r.size, r.align),
           NEW i, i = StopIndex(t, r.size, r.align),
           ~OutOfMemory(t, i, r.size, r.align),
           NEW p, p = NewPart(t, i, r)
    PROVE  /\ p.addr \in Nat
           /\ p.addr >= t[i].addr + t[i].size /\ p.addr + r.size <= PhysSize
           /\ ~AtTail(t, i) => p.addr + r.size <= t[t[i].next].addr
           /\ r.align # 0 => p.addr % r.align = 0
           /\ p.size = r.size /\ p.state = r.state /\ p.pid = r.pid /\ p.dir = r.dir
           /\ p.next = 0
<1>. DEFINE end == t[i].addr + t[i].size
            gap == Gap(end, r.align)
<1>1. i \in Used(t) /\ StopsAfter(t, i, r.size, r.align)
  BY StopsFirst
<1>2. /\ end \in Nat /\ gap \in Nat
      /\ End(t[i]) = end
      /\ Plus(r.size, gap) = r.size + gap
      /\ Plus(Plus(end, r.size), gap) = end + r.size + gap
      /\ Plus(end, gap) = end + gap
  BY <1>1, NoOverflow
<1>3. r.size \in Nat /\ r.align \in Nat
  BY DEF Moderate
<1>4. r.align # 0 => (end + gap) % r.align = 0
  BY <1>2, <1>3, GapAligns
<1>5. ~AtTail(t, i) => /\ t[i].next \in Used(t) /\ t[t[i].next].addr \in Nat
                       /\ t[t[i].next].addr + t[t[i].next].size <= PhysSize
                       /\ t[t[i].next].size \in Nat
  BY <1>1, Fields DEF AtTail
<1>6. ~AtTail(t, i) => t[t[i].next].addr - end >= r.size + gap
  BY <1>1, <1>2, <1>5 DEF StopsAfter
<1>7. AtTail(t, i) => end + r.size + gap <= PhysSize
  BY <1>2, <1>3, Sizing DEF OutOfMemory
<1>8. p.addr = end + gap
  BY <1>2 DEF NewPart
<1>. HIDE DEF end, gap
<1>9. end + gap + r.size <= PhysSize
  BY <1>2, <1>3, <1>5, <1>6, <1>7, Sizing
<1>10. ~AtTail(t, i) => end + gap + r.size <= t[t[i].next].addr
  BY <1>2, <1>3, <1>5, <1>6
<1>11. p.addr \in Nat /\ p.addr >= end /\ p.addr + r.size <= PhysSize
  BY <1>2, <1>3, <1>8, <1>9
<1>12. /\ p.size = r.size /\ p.state = r.state /\ p.pid = r.pid /\ p.dir = r.dir
       /\ p.next = 0
  BY DEF NewPart
<1>. QED
  BY <1>4, <1>8, <1>10, <1>11, <1>12 DEF end

-----------------------------------------------------------------------------
\* Record i describes the table itself, at the address at, and no other does.
TableIs(t, i, at) ==
    /\ i \in Used(t) /\ t[i].state = "MM" /\ t[i].addr = at
    /\ t[i].size = RecordSize * PartSize(t)
    /\ \A j \in Used(t) \ {i} : t[j].state # "MM"

\* The blocks of the allocator belong to no process and no address space.
Untagged(t) ==
    \A i \in Used(t) : t[i].state \in {"BASE", "MM"} => t[i].pid = 0 /\ t[i].dir = NoDir

\* The state of the table between two calls.
Healthy(t, at) ==
    /\ IsTable(t) /\ Sound(t) /\ Untagged(t)
    /\ \E i \in DOMAIN t : TableIs(t, i, at)
    /\ Cardinality(Unused(t)) >= Spare

\* The blocks of callers.
Mine(t) == {i \in Used(t) : t[i].state \notin {"BASE", "MM"}}

SameClients(t, u) == Mine(u) = Mine(t) /\ \A k \in Mine(t) : Same(u[k], t[k])

NewTableRequest == [size |-> NewTableSize, align |-> 0, state |-> "MM",
                    pid |-> 0, dir |-> NoDir]

\* The products that the size of the table is made of.
LEMMA Product ==
    ASSUME NEW a \in Nat, NEW b \in Nat, NEW c \in Nat
    PROVE  /\ a * b \in Nat
           /\ a * (b + c) = a * b + a * c
           /\ b <= c => a * b <= a * c
<1>1. a * b \in Nat /\ a * (b + c) = a * b + a * c
  OBVIOUS
<1>2. b <= c => a * b <= a * c
  <2>. SUFFICES ASSUME b <= c PROVE a * b <= a * c
    OBVIOUS
  <2>1. PICK d \in Nat : c = b + d
    <3>1. c - b \in Nat /\ c = b + (c - b)
      OBVIOUS
    <3>. QED
      BY <3>1
  <2>2. a * c = a * b + a * d /\ a * d \in Nat /\ a * b \in Nat
    BY <2>1
  <2>. QED
    BY <2>2
<1>. QED
  BY <1>1, <1>2

\* A larger table is a moderate request, as memory is far below the word.
LEMMA TableModerate ==
    ASSUME Healthy(parts, tableAt)
    PROVE  /\ NewTableSize = RecordSize * PartSize(parts) + RecordSize * GROW_SIZE
           /\ Moderate(NewTableSize, 0)
           /\ NewTableSize > RecordSize * PartSize(parts) /\ NewTableSize <= 2 * PhysSize
           /\ RecordSize * PartSize(parts) \in Nat /\ NewTableSize >= 1
<1>. DEFINE n == PartSize(parts)
<1>1. n \in Nat /\ RecordSize * n \in Nat /\ RecordSize * GROW_SIZE \in Nat
  BY Sizing, Product DEF Healthy, IsTable
<1>2. NewTableSize = RecordSize * n + RecordSize * GROW_SIZE
  BY <1>1, Sizing, Product DEF NewTableSize
<1>3. RecordSize * n <= PhysSize
  <2>1. PICK i \in DOMAIN parts : TableIs(parts, i, tableAt)
    BY DEF Healthy
  <2>2. parts[i].addr + parts[i].size <= PhysSize /\ parts[i].addr \in Nat
    BY <2>1, Fields DEF Healthy, TableIs
  <2>. QED
    BY <2>1, <2>2, <1>1, Sizing DEF TableIs
<1>4. RecordSize * GROW_SIZE <= PhysSize
  <2>1. RecordSize * GROW_SIZE <= RecordSize * PARTS_COUNT
    BY ConstantsAssumption, Product, Sizing
  <2>2. RecordSize * PARTS_COUNT \in Nat
    BY Product, Sizing
  <2>3. BaseAddr + 1 + RecordSize * PARTS_COUNT <= PhysSize
    BY ConstantsAssumption
  <2>. QED
    BY <2>1, <2>2, <2>3, <1>1, Sizing
<1>5. RecordSize * GROW_SIZE >= 1
  <2>1. RecordSize * 1 <= RecordSize * GROW_SIZE
    BY Product, Sizing
  <2>. QED
    BY <2>1, Sizing
<1>. HIDE DEF n
<1>6. PICK x \in Nat, y \in Nat : x = RecordSize * n /\ y = RecordSize * GROW_SIZE
  BY <1>1
<1>7. NewTableSize = x + y /\ x <= PhysSize /\ y <= PhysSize /\ y >= 1
  BY <1>2, <1>3, <1>4, <1>5, <1>6
<1>8. Moderate(NewTableSize, 0) /\ NewTableSize > x /\ NewTableSize <= 2 * PhysSize
  BY <1>7, Sizing DEF Moderate
<1>. QED
  BY <1>1, <1>2, <1>6, <1>7, <1>8 DEF n

\* dynamize_mem leaves a table that is sound, with a record to spare, and the
\* blocks of callers where they were.
LEMMA DynamizedHealthy ==
    ASSUME Healthy(parts, tableAt), ~GrowFails
    PROVE  /\ ~GrowStarves
           /\ Healthy(Dynamized, DynamizedAt)
           /\ Cardinality(Unused(Dynamized)) >= Spare + 1
           /\ SameClients(parts, Dynamized)
           /\ Grows => \E new \in Used(Dynamized) :
                /\ TableIs(Dynamized, new, DynamizedAt) /\ Same(Dynamized[new], NewTable)
                /\ NewTable.size > RecordSize * PartSize(parts)
<1>1. /\ IsTable(parts) /\ Sound(parts) /\ Untagged(parts)
      /\ Cardinality(Unused(parts)) \in Nat /\ Cardinality(Unused(parts)) >= Spare
      /\ Spare = 4
  BY Records, FS_CardinalityType DEF Healthy, Spare
<1>2. CASE ~Grows
  <2>1. Dynamized = parts /\ DynamizedAt = tableAt
    BY <1>2 DEF Dynamized, DynamizedAt
  <2>2. SameClients(parts, parts)
    BY DEF SameClients, Same
  <2>. QED
    BY <1>1, <1>2, <2>1, <2>2 DEF GrowStarves, Grows
<1>3. CASE Grows
  <2>. DEFINE i == NewTableStop
              p == NewTable
              r == NewTableRequest
              u1 == Insert(parts, i, p)
              u2 == Grown(u1)
  <2>1. PICK i0 \in DOMAIN parts : TableIs(parts, i0, tableAt)
    BY DEF Healthy
  <2>2. i0 \in Used(parts) /\ i0 # 0 /\ parts[i0].state = "MM" /\ parts[i0].addr = tableAt
    BY <1>1, <2>1 DEF TableIs, Sound
  <2>3. /\ r.size = NewTableSize /\ r.align = 0 /\ r.state = "MM" /\ r.pid = 0
        /\ r.dir = NoDir
    BY DEF NewTableRequest
  <2>4. i = StopIndex(parts, r.size, r.align) /\ p = NewPart(parts, i, r)
    BY <2>3 DEF NewTableStop, NewTable, NewTableRequest
  <2>5. ~OutOfMemory(parts, i, r.size, r.align)
    BY <1>3, <2>3 DEF GrowFails
  <2>6. Moderate(r.size, r.align) /\ r.size >= 1 /\ r.size \in Nat
    BY <2>3, TableModerate DEF Moderate
  <2>. HIDE DEF i, p, r
  <2>7. i \in Used(parts)
    BY <2>4, <1>1, StopsFirst
  <2>8. /\ p.addr \in Nat
        /\ p.addr >= parts[i].addr + parts[i].size /\ p.addr + r.size <= PhysSize
        /\ ~AtTail(parts, i) => p.addr + r.size <= parts[parts[i].next].addr
        /\ p.size = r.size /\ p.state = r.state /\ p.pid = r.pid /\ p.dir = r.dir
        /\ p.next = 0
    BY <1>1, <2>4, <2>5, <2>6, NewPartFits
  <2>9. p \in Part
    <3>1. p = [state |-> p.state, size |-> p.size, addr |-> p.addr, next |-> p.next,
               pid |-> p.pid, dir |-> p.dir]
      BY <2>4 DEF NewPart
    <3>. QED
      BY <3>1, <2>3, <2>6, <2>8 DEF Part, States, Callers, KernelPid
  <2>10. ~OutOfRecords(parts, i)
    BY <1>1, TwoFreeSuffice
  <2>11. Sound(u1) /\ \E new \in Unused(parts) : Extends(parts, u1, i, new, p)
    BY <1>1, <2>3, <2>6, <2>7, <2>8, <2>9, <2>10, InsertSound
  <2>12. PICK new \in Unused(parts) : Extends(parts, u1, i, new, p)
    BY <2>11
  <2>. HIDE DEF u1
  <2>13. /\ IsTable(u1) /\ DOMAIN u1 = DOMAIN parts /\ PartSize(u1) = PartSize(parts)
         /\ Used(u1) = Used(parts) \cup {new}
         /\ Same(u1[new], p) /\ \A k \in Used(parts) : Same(u1[k], parts[k])
         /\ new \notin Used(parts)
    BY <2>12 DEF Extends, PartSize, Unused
  <2>14. Cardinality(Unused(u1)) = Cardinality(Unused(parts)) - 1
    BY <1>1, <2>12, CountExtended
  <2>15. /\ IsTable(u2) /\ Sound(u2) /\ PartSize(u2) = PartSize(parts) + GROW_SIZE
         /\ Used(u2) = Used(parts) \cup {new}
         /\ Same(u2[new], p) /\ \A k \in Used(parts) : Same(u2[k], parts[k])
    BY <2>11, <2>13, GrownSound DEF Same
  <2>16. Cardinality(Unused(u2)) = Cardinality(Unused(parts)) - 1 + GROW_SIZE
    BY <2>11, <2>13, <2>14, CountGrown
  <2>. HIDE DEF u2
  <2>17. i0 \in Used(u2) /\ u2[i0].addr = tableAt
    BY <2>2, <2>15 DEF Same
  <2>. DEFINE d == Remove(u2, u2[i0].addr)
  <2>18. Dynamized = d
    BY <1>3, <2>17 DEF Dynamized, u1, u2, i, p
  <2>19. /\ IsTable(d) /\ Sound(d) /\ PartSize(d) = PartSize(u2)
         /\ Used(d) = Used(u2) \ {i0}
         /\ \A k \in Used(d) : Same(d[k], u2[k])
    BY <2>15, <2>17, <2>2, RemoveSound
  <2>20. Cardinality(Unused(d)) = Cardinality(Unused(u2)) + 1
    BY <2>15, <2>17, <2>2, CountRemoved
  <2>. HIDE DEF d
  <2>21. Cardinality(Unused(d)) >= Spare + 1
    BY <1>1, <2>16, <2>20, Sizing
  <2>22. /\ Used(d) = (Used(parts) \ {i0}) \cup {new}
         /\ Same(d[new], p) /\ \A k \in Used(parts) \ {i0} : Same(d[k], parts[k])
    <3>1. Used(d) = (Used(parts) \ {i0}) \cup {new}
      BY <2>2, <2>13, <2>15, <2>19
    <3>. QED
      BY <3>1, <2>15, <2>19 DEF Same
  <2>23. TableIs(d, new, DynamizedAt)
    <3>1. d[new].state = "MM" /\ d[new].addr = DynamizedAt
      BY <1>3, <2>3, <2>8, <2>22 DEF DynamizedAt, Same, p
    <3>2. d[new].size = RecordSize * PartSize(d)
      BY <2>3, <2>8, <2>15, <2>19, <2>22 DEF Same, NewTableSize
    <3>3. \A k \in Used(d) \ {new} : d[k].state # "MM"
      BY <2>1, <2>22 DEF Same, TableIs
    <3>. QED
      BY <3>1, <3>2, <3>3, <2>22 DEF TableIs
  <2>24. Untagged(d)
    BY <1>1, <2>3, <2>8, <2>22 DEF Untagged, Same
  <2>25. SameClients(parts, d)
    <3>1. Mine(d) = Mine(parts)
      BY <2>2, <2>3, <2>8, <2>13, <2>22 DEF Mine, Same
    <3>. QED
      BY <3>1, <2>2, <2>22 DEF SameClients, Mine
  <2>26. Healthy(d, DynamizedAt)
    <3>1. new \in DOMAIN d
      BY <2>22 DEF Used
    <3>2. Cardinality(Unused(d)) >= Spare
      BY <1>1, <2>16, <2>20, Sizing
    <3>. QED
      BY <3>1, <3>2, <2>19, <2>23, <2>24 DEF Healthy
  <2>27. new \in Used(d) /\ p.size > RecordSize * PartSize(parts)
    BY <2>3, <2>8, <2>22, TableModerate
  <2>28. ~GrowStarves
    BY <2>10 DEF GrowStarves, i
  <2>. QED
    BY <2>18, <2>21, <2>22, <2>23, <2>25, <2>26, <2>27, <2>28 DEF p
<1>. QED
  BY <1>2, <1>3

\* Requests of callers: what mem_alloc and mem_alloc_dir pass on.
LEMMA RequestType ==
    ASSUME NEW cur \in Callers, NEW r \in Requests(cur)
    PROVE  /\ Moderate(r.size, r.align)
           /\ r.state \in CallerStates /\ r.pid \in Callers /\ r.dir \in Dirs \cup {NoDir}
<1>1. ASSUME NEW size \in Sizes, NEW align \in Aligns \cup {0}
      PROVE  Moderate(size, align)
  <2>1. size \in Nat /\ align \in Nat /\ PhysSize + size + align < Word
    BY ConstantsAssumption
  <2>. QED
    BY <2>1, Sizing DEF Moderate
<1>2. ASSUME NEW size \in Sizes, NEW state \in Kinds \ {"ARGS", "SCUBA"}, NEW align \in Aligns,
             r = MemAlloc(cur, size, state, align)
      PROVE  /\ Moderate(r.size, r.align)
             /\ r.state \in CallerStates /\ r.pid \in Callers /\ r.dir = NoDir
  <2>1. r.size = size /\ r.state = state /\ r.dir = NoDir /\ r.align = align
    BY <1>2 DEF MemAlloc
  <2>2. r.pid = IF state = "SIMPLE" THEN cur ELSE 0
    BY <1>2 DEF MemAlloc
  <2>3. r.pid \in Callers
    BY <2>2 DEF Callers, KernelPid
  <2>. QED
    BY <2>1, <2>3, <1>1, KindsAssumption
<1>3. ASSUME NEW size \in Sizes, NEW state \in Kinds \cap {"ARGS"}, NEW pid \in {0} \cup Pids,
             r = MemAlloc(cur, size, state, pid)
      PROVE  /\ Moderate(r.size, r.align)
             /\ r.state \in CallerStates /\ r.pid \in Callers /\ r.dir = NoDir
  <2>1. r.size = size /\ r.state = "ARGS" /\ r.dir = NoDir /\ r.align = 0
    BY <1>3 DEF MemAlloc
  <2>2. r.pid = IF pid = 0 THEN cur ELSE pid
    BY <1>3 DEF MemAlloc
  <2>3. r.pid \in Callers
    BY <2>2 DEF Callers, KernelPid
  <2>. QED
    BY <2>1, <2>3, <1>1 DEF CallerStates
<1>4. ASSUME NEW size \in Sizes, NEW align \in Aligns, NEW pid \in Callers, NEW dir \in PageDirs,
             r = MemAllocDir(size, align, pid, dir)
      PROVE  /\ Moderate(r.size, r.align)
             /\ r.state \in CallerStates /\ r.pid \in Callers /\ r.dir \in Dirs \cup {NoDir}
  BY <1>1, <1>4 DEF MemAllocDir, PageDirs, CallerStates
<1>. QED
  BY <1>2, <1>3, <1>4 DEF Requests

\* A block made for a request, after the record where the search stopped.
LEMMA AllocHealthy ==
    ASSUME NEW t, NEW at, Healthy(t, at), Cardinality(Unused(t)) >= Spare + 1,
           NEW r, Moderate(r.size, r.align), r.size >= 1,
           r.state \in CallerStates, r.pid \in Callers, r.dir \in Dirs \cup {NoDir},
           NEW i, i = StopIndex(t, r.size, r.align), ~OutOfMemory(t, i, r.size, r.align),
           NEW p, p = NewPart(t, i, r), NEW u, u = Insert(t, i, p)
    PROVE  /\ ~OutOfRecords(t, i)
           /\ Healthy(u, at)
           /\ \E new \in Unused(t) : /\ Mine(u) = Mine(t) \cup {new} /\ Same(u[new], p)
                                     /\ \A k \in Used(t) : k \in Used(u) /\ Same(u[k], t[k])
           /\ PartSize(u) = PartSize(t)
<1>1. /\ IsTable(t) /\ Sound(t) /\ Untagged(t)
      /\ Cardinality(Unused(t)) \in Nat /\ Spare = 4
  BY Records, FS_CardinalityType DEF Healthy, Spare
<1>2. PICK i0 \in DOMAIN t : TableIs(t, i0, at)
  BY DEF Healthy
<1>3. i \in Used(t)
  BY <1>1, StopsFirst
<1>4. /\ p.addr \in Nat
      /\ p.addr >= t[i].addr + t[i].size /\ p.addr + r.size <= PhysSize
      /\ ~AtTail(t, i) => p.addr + r.size <= t[t[i].next].addr
      /\ p.size = r.size /\ p.state = r.state /\ p.pid = r.pid /\ p.dir = r.dir
      /\ p.next = 0
  BY <1>1, NewPartFits
<1>5. r.size \in Nat
  BY DEF Moderate
<1>6. p \in Part
  <2>1. p = [state |-> p.state, size |-> p.size, addr |-> p.addr, next |-> p.next,
             pid |-> p.pid, dir |-> p.dir]
    BY DEF NewPart
  <2>. QED
    BY <2>1, <1>4, <1>5 DEF Part, States
<1>7. p.state \notin {"FREE", "BASE", "MM"}
  BY <1>4 DEF CallerStates
<1>8. ~OutOfRecords(t, i)
  BY <1>1, TwoFreeSuffice
<1>9. Sound(u) /\ \E new \in Unused(t) : Extends(t, u, i, new, p)
  BY <1>1, <1>3, <1>4, <1>6, <1>7, <1>8, InsertSound
<1>10. PICK new \in Unused(t) : Extends(t, u, i, new, p)
  BY <1>9
<1>11. /\ IsTable(u) /\ DOMAIN u = DOMAIN t /\ PartSize(u) = PartSize(t)
       /\ Used(u) = Used(t) \cup {new}
       /\ Same(u[new], p) /\ \A k \in Used(t) : Same(u[k], t[k])
       /\ new \notin Used(t)
  BY <1>10 DEF Extends, PartSize, Unused
<1>12. Cardinality(Unused(u)) >= Spare
  BY <1>1, <1>10, CountExtended
<1>13. TableIs(u, i0, at) /\ i0 \in DOMAIN u
  BY <1>2, <1>4, <1>7, <1>11 DEF TableIs, Same
<1>14. Untagged(u)
  BY <1>1, <1>4, <1>7, <1>11 DEF Untagged, Same
<1>15. Mine(u) = Mine(t) \cup {new}
  BY <1>4, <1>7, <1>11 DEF Mine, Same
<1>. QED
  BY <1>8, <1>9, <1>11, <1>12, <1>13, <1>14, <1>15 DEF Healthy

\* A block of a caller is freed.
LEMMA FreeHealthy ==
    ASSUME NEW t, NEW at, Healthy(t, at), NEW j \in Mine(t),
           NEW u, u = Remove(t, t[j].addr)
    PROVE  /\ Healthy(u, at)
           /\ DOMAIN u = DOMAIN t /\ Mine(u) = Mine(t) \ {j} /\ Used(u) = Used(t) \ {j}
           /\ \A k \in Used(u) : Same(u[k], t[k])
<1>1. /\ IsTable(t) /\ Sound(t) /\ Untagged(t) /\ j \in Used(t) /\ j # 0
      /\ Cardinality(Unused(t)) \in Nat /\ Spare = 4
  BY Records, FS_CardinalityType DEF Healthy, Spare, Mine, Sound
<1>2. PICK i0 \in DOMAIN t : TableIs(t, i0, at)
  BY DEF Healthy
<1>3. /\ IsTable(u) /\ DOMAIN u = DOMAIN t /\ PartSize(u) = PartSize(t)
      /\ Sound(u) /\ Used(u) = Used(t) \ {j}
      /\ \A k \in Used(u) : Same(u[k], t[k])
  BY <1>1, RemoveSound
<1>4. Cardinality(Unused(u)) >= Spare
  <2>1. Cardinality(Unused(u)) = Cardinality(Unused(t)) + 1
    BY <1>1, CountRemoved
  <2>. QED
    BY <2>1, <1>1 DEF Healthy
<1>5. i0 # j
  BY <1>2 DEF TableIs, Mine
<1>6. TableIs(u, i0, at) /\ i0 \in DOMAIN u
  BY <1>2, <1>3, <1>5 DEF TableIs, Same
<1>7. Untagged(u)
  BY <1>1, <1>3 DEF Untagged, Same
<1>8. Mine(u) = Mine(t) \ {j}
  BY <1>3 DEF Mine, Same
<1>. QED
  BY <1>3, <1>4, <1>6, <1>7, <1>8 DEF Healthy

\* A block of a caller gets another owner.
LEMMA OwnerHealthy ==
    ASSUME NEW t, NEW at, Healthy(t, at), NEW j \in Mine(t), NEW pid \in Callers,
           NEW u, u = [t EXCEPT ![j].pid = pid]
    PROVE  /\ Healthy(u, at)
           /\ DOMAIN u = DOMAIN t /\ Used(u) = Used(t) /\ Mine(u) = Mine(t)
           /\ \A k \in DOMAIN t \ {j} : u[k] = t[k]
           /\ u[j] = [t[j] EXCEPT !.pid = pid]
<1>1. /\ IsTable(t) /\ Sound(t) /\ Untagged(t) /\ j \in Used(t) /\ j \in DOMAIN t
      /\ t[j] \in Part
  BY Records DEF Healthy, Mine, Used
<1>2. PICK i0 \in DOMAIN t : TableIs(t, i0, at)
  BY DEF Healthy
<1>. DEFINE q == [t[j] EXCEPT !.pid = pid]
<1>3. /\ q \in Part /\ q.state = t[j].state /\ q.size = t[j].size /\ q.addr = t[j].addr
      /\ q.next = t[j].next /\ q.dir = t[j].dir /\ q.pid = pid
  BY <1>1 DEF Part
<1>. HIDE DEF q
<1>4. u[j] = q /\ \A k \in DOMAIN t \ {j} : u[k] = t[k]
  BY <1>1 DEF q
<1>5. u \in [DOMAIN t -> Part]
  <2>1. u = [k \in DOMAIN t |-> u[k]]
    OBVIOUS
  <2>2. \A k \in DOMAIN t : u[k] \in Part
    BY <1>1, <1>3, <1>4, Records
  <2>. QED
    BY <2>1, <2>2
<1>6. IsTable(u) /\ DOMAIN u = DOMAIN t /\ PartSize(u) = PartSize(t)
  BY <1>1, <1>5, SameDomain
<1>7. \A k \in DOMAIN t : /\ u[k].state = t[k].state /\ u[k].size = t[k].size
                          /\ u[k].addr = t[k].addr /\ u[k].next = t[k].next
  BY <1>3, <1>4
<1>8. Used(u) = Used(t) /\ Unused(u) = Unused(t)
  BY <1>6, <1>7 DEF Used, Unused
<1>9. Used(t) \subseteq DOMAIN t
  BY DEF Used
<1>10. InOrder(u)
  <2>. SUFFICES ASSUME NEW i \in Used(u)
                PROVE  LET n == u[i].next IN
                       IF n \in Used(u)
                       THEN /\ u[i].addr + u[i].size <= u[n].addr
                            /\ \A k \in Used(u) \ {i, n} :
                                   u[k].addr < u[i].addr \/ u[k].addr > u[n].addr
                       ELSE /\ n \in Unused(u)
                            /\ \A k \in Used(u) \ {i} : u[k].addr < u[i].addr
    BY DEF InOrder
  <2>1. /\ u[i].next = t[i].next /\ i \in Used(t)
        /\ \A k \in Used(t) : u[k].addr = t[k].addr /\ u[k].size = t[k].size
    BY <1>7, <1>8, <1>9
  <2>2. CASE t[i].next \in Used(t)
    <3>1. t[i].addr + t[i].size <= t[t[i].next].addr
      BY <1>1, <2>1, <2>2 DEF Sound, InOrder
    <3>2. \A k \in Used(t) \ {i, t[i].next} :
              t[k].addr < t[i].addr \/ t[k].addr > t[t[i].next].addr
      BY <1>1, <2>1, <2>2, Order
    <3>. QED
      BY <3>1, <3>2, <2>1, <2>2, <1>8
  <2>3. CASE t[i].next \notin Used(t)
    <3>1. t[i].next \in Unused(t) /\ \A k \in Used(t) \ {i} : t[k].addr < t[i].addr
      BY <1>1, <2>1, <2>3, Order, Fields
    <3>. QED
      BY <3>1, <2>1, <2>3, <1>8
  <2>. QED
    BY <2>2, <2>3
<1>11. Sound(u)
  <2>1. 0 \in Used(u) /\ u[0].state = "BASE" /\ u[0].addr = BaseAddr /\ u[0].size = 1
    BY <1>1, <1>7, <1>8, <1>9 DEF Sound
  <2>2. ASSUME NEW i \in Used(u)
        PROVE  /\ u[i].next \in DOMAIN u
               /\ u[i].addr \in Nat /\ u[i].size \in Nat /\ u[i].size >= 1
               /\ u[i].addr + u[i].size <= PhysSize
               /\ i # 0 => u[i].state # "BASE" /\ u[i].addr > BaseAddr
    <3>1. /\ u[i].next = t[i].next /\ u[i].addr = t[i].addr /\ u[i].size = t[i].size
          /\ u[i].state = t[i].state /\ i \in Used(t)
      BY <1>7, <1>8, <1>9
    <3>. QED
      BY <3>1, <1>1, <1>6 DEF Sound
  <2>. QED
    BY <2>1, <2>2, <1>10 DEF Sound
<1>12. TableIs(u, i0, at) /\ i0 \in DOMAIN u
  BY <1>2, <1>6, <1>7, <1>8, <1>9 DEF TableIs
<1>13. Untagged(u)
  BY <1>1, <1>4, <1>7, <1>8, <1>9 DEF Untagged, Mine
<1>14. Mine(u) = Mine(t)
  BY <1>7, <1>8, <1>9 DEF Mine
<1>15. Healthy(u, at)
  BY <1>6, <1>8, <1>11, <1>12, <1>13 DEF Healthy
<1>. QED
  BY <1>4, <1>6, <1>8, <1>14, <1>15 DEF q
=============================================================================
