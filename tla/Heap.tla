-------------------------------- MODULE Heap --------------------------------
(***************************************************************************)
(* What the physical allocator of profanOS (kernel/system/snowflake.c)     *)
(* promises to the rest of the kernel: a set of blocks, each with an       *)
(* owner, and nothing about records, lists or the order of the search.     *)
(* The module Snowflake implements this specification.                     *)
(*                                                                         *)
(* The allocator keeps its own records in a block of the same memory,      *)
(* which it may move to a larger place before it serves a request.         *)
(***************************************************************************)
EXTENDS Integers, FiniteSets

CONSTANTS
    First,       \* the first address that can be handed out
    PhysSize,    \* the address after the last one
    Pids,        \* who owns blocks
    Dirs,        \* page directories
    SweptStates, \* the states that can be freed by owner, "FREE" for all
    NoReturn     \* result of a call that kills the process that made it

VARIABLES
    blocks,      \* the blocks in use, except the allocator's own
    table,       \* the block that holds the allocator's own records
    last         \* the last call: its arguments and its result

heapVars == <<blocks, table, last>>

NoCall == [size |-> 0, align |-> 0, addr |-> 0, ret |-> 0]

Overlap(a, b) == a.addr < b.addr + b.size /\ b.addr < a.addr + a.size

Fits(b, others) ==
    /\ b.addr >= First /\ b.addr + b.size <= PhysSize
    /\ \A o \in others : ~Overlap(b, o)

\* An alignment of 0 asks for nothing.
Aligned(addr, align) == align = 0 \/ addr % align = 0

\* No block of the size and alignment can be added to others.
NoRoom(size, align, others) ==
    \A a \in First .. PhysSize - size :
        Aligned(a, align) => ~Fits([addr |-> a, size |-> size], others)

HeapInit ==
    /\ blocks = {}
    /\ Fits(table, {})
    /\ last = NoCall

-----------------------------------------------------------------------------

TableMayMove ==
    \/ UNCHANGED table
    \/ /\ table'.size > table.size
       /\ Fits(table', blocks \cup {table})

\* A new block of the requested size and alignment, apart from all others.
Alloc ==
    /\ TableMayMove
    /\ \E b \in blocks' \ blocks :
        /\ blocks' = blocks \cup {b}
        /\ Fits(b, blocks \cup {table'})
        /\ b.size = last'.size /\ b.size > 0
        /\ Aligned(b.addr, last'.align)
        /\ last'.ret = b.addr

\* A request is refused only when there is no room for it, or for a larger
\* table; the process that made it may be killed.
Refuse ==
    /\ UNCHANGED blocks
    /\ \/ /\ last'.size = 0 /\ last'.ret = 0
          /\ UNCHANGED table
       \/ /\ last'.ret \in {0, NoReturn}
          /\ TableMayMove
          /\ NoRoom(last'.size, last'.align, blocks \cup {table'})
       \/ /\ last'.ret = NoReturn
          /\ UNCHANGED table
          /\ \E size \in table.size + 1 .. 2 * PhysSize :
                NoRoom(size, 0, blocks \cup {table})

At(addr) == {b \in blocks : b.addr = addr}

\* The result of a free tells whether there was a block at the address.
FreeAddr ==
    /\ UNCHANGED table
    /\ blocks' = blocks \ At(last'.addr)
    /\ last'.ret = IF At(last'.addr) = {} THEN 1 ELSE 0

\* The size of a block is asked for, or its owner changed and nothing else.
Fetch ==
    /\ UNCHANGED table
    /\ \/ /\ UNCHANGED blocks
          /\ last'.ret = -1 \/ \E b \in At(last'.addr) : last'.ret = b.size
       \/ \E b \in At(last'.addr), pid \in Pids :
            /\ blocks' = (blocks \ {b}) \cup {[b EXCEPT !.pid = pid]}
            /\ last'.ret = 0

\* What a process owns: all but the pages of address spaces, or its blocks
\* of one state.  And what belongs to an address space.
OwnedBy(pid, state) ==
    {b \in blocks : /\ b.pid = pid
                    /\ IF state = "FREE" THEN b.state # "SCUBA" ELSE b.state = state}

PagesOf(dir) == {b \in blocks : b.dir = dir}

\* All of them are freed, and no other; the result is how many there were.
FreeSet(S) ==
    /\ UNCHANGED table
    /\ blocks' = blocks \ S
    /\ last' = [NoCall EXCEPT !.ret = Cardinality(S)]

HeapNext ==
    \/ Alloc
    \/ Refuse
    \/ FreeAddr
    \/ Fetch
    \/ \E pid \in Pids, state \in SweptStates : FreeSet(OwnedBy(pid, state))
    \/ \E dir \in Dirs : FreeSet(PagesOf(dir))

HeapSpec == HeapInit /\ [][HeapNext]_heapVars
=============================================================================
