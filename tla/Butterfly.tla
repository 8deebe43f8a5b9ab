------------------------------ MODULE Butterfly ------------------------------
(***************************************************************************)
(* The container layer of profanOS's filesystem (kernel/filesys): a disk   *)
(* of sectors with a stack of the free ones (vdisk.c) and containers on it *)
(* (ctr_init.c, ctr_size.c, ctr_rw.c, ctr_del.c).  A container is a header *)
(* sector, a chain of locators and the cores they link, LINKS_IN_LOCA to a *)
(* locator, BYTE_IN_CORE bytes each.                                       *)
(*                                                                         *)
(* The kernel is not preempted here, so a call is one action.  But an      *)
(* allocation that fails kills the caller where it stands (mem_alloc calls *)
(* sys_error), in the middle of a call; KilledIn says in which calls.      *)
(*                                                                         *)
(* The content of a sector that is given back is not kept: every operation *)
(* looks first whether a sector is in use.  Checks of a sector's use and   *)
(* kind that ChainsSound shows never to fail are left out.  Definitions    *)
(* with a suffix, such as NewCore_Malloc, are mistakes the code does not   *)
(* make: the properties are tested against them.                           *)
(***************************************************************************)
EXTENDS Integers, Sequences, FiniteSets, SequencesExt

CONSTANTS
    InitSectors,    \* size of the disk at first
    ExtendBy,       \* what vdisk_get_unused_sector adds to a full disk
    MaxSectors,     \* bound on the size of the disk
    LINKS_IN_LOCA,
    BYTE_IN_CORE,
    MaxSize,        \* bound on the size of a container
    Lengths,        \* lengths of the buffers that callers write
    MaxLost,        \* bound on the sectors that killed callers leave behind
    KilledIn        \* subset of Killables: calls that may lack memory

Killables == {"create", "grow", "delete"}

ASSUME DiskAssumption ==
    /\ InitSectors \in Nat /\ ExtendBy \in Nat \ {0}
    /\ MaxSectors > InitSectors /\ (MaxSectors - InitSectors) % ExtendBy = 0
ASSUME CoreAssumption == LINKS_IN_LOCA \in Nat \ {0} /\ BYTE_IN_CORE \in Nat \ {0}
ASSUME InputAssumption == MaxSize \in Nat /\ Lengths \subseteq 1 .. MaxSize /\ KilledIn \subseteq Killables

VARIABLES
    disk,   \* the vdisk: size, used_count, free, used, and the sectors
    known,  \* headers that callers may name: created and not deleted
    lost    \* sectors in use that killed callers left behind

vars == <<disk, known, lost>>

Sectors == 0 .. MaxSectors - 1
Null == -1

MinOf(a, b) == IF a < b THEN a ELSE b
MaxOf(a, b) == IF a > b THEN a ELSE b
CeilDiv(a, b) == (a + b - 1) \div b

-----------------------------------------------------------------------------
(* The disk (vdisk.c). *)

\* The bytes written: two values show which place a byte comes from.
Byte == {0, 1}
Buffer(len) == [i \in 1 .. len |-> i % 2]

Positions == 0 .. MaxSize - 1
Zeros(n) == [i \in 1 .. n |-> 0]

Blank == [type |-> "NONE"]
NewHead(loca) == [type |-> "HEAD", size |-> 0, loca |-> loca]
NewLoca == [type |-> "LOCA", links |-> <<>>, next |-> Null]
NewCore_Malloc == [type |-> "CORE", bytes |-> [i \in 1 .. BYTE_IN_CORE |-> 1]]

NewCore == [type |-> "CORE", bytes |-> Zeros(BYTE_IN_CORE)]

\* vdisk_extend.
Extended(d) ==
    [d EXCEPT !.size = @ + ExtendBy,
              !.free = [i \in Sectors |-> IF d.size <= i /\ i < d.size + ExtendBy THEN i ELSE @[i]]]

\* vdisk_get_unused_sector, vdisk_note_sector_used and the first write.
Take(d, content) ==
    LET e == IF d.count >= d.size THEN Extended(d) ELSE d
        s == e.free[e.count]
    IN  [sid  |-> s,
         disk |-> [e EXCEPT !.count = @ + 1, !.free[e.count] = Null,
                            !.used = @ \cup {s}, !.sec[s] = content]]

Release_NotNoted(d, s) == [d EXCEPT !.count = @ - 1, !.free[d.count - 1] = s, !.sec[s] = Blank]

\* vdisk_note_sector_unused.
Release(d, s) ==
    IF s \notin d.used THEN d
    ELSE [d EXCEPT !.count = @ - 1, !.free[d.count - 1] = s, !.used = @ \ {s}, !.sec[s] = Blank]

\* n sectors can be taken within the bound.
HasRoom(n) == disk.count + n <= MaxSectors

-----------------------------------------------------------------------------
(* Following the links of a container. *)

\* The locators of h, and the cores they link, in order.
Locas(d, h) ==
    LET From[l \in Sectors \cup {Null}] == IF l = Null THEN <<>> ELSE <<l>> \o From[d.sec[l].next]
    IN  From[d.sec[h].loca]

Cores(d, h) ==
    LET From[l \in Sectors \cup {Null}] == IF l = Null THEN <<>> ELSE d.sec[l].links \o From[d.sec[l].next]
    IN  From[d.sec[h].loca]

LastLoca(d, h) == Last(Locas(d, h))

-----------------------------------------------------------------------------
(* Creation (ctr_init.c) and deletion (ctr_del.c). *)

CreateContainer ==
    /\ HasRoom(2)
    /\ LET main == Take(disk, Blank)
           loca == Take(main.disk, NewLoca)
       IN  /\ disk' = [loca.disk EXCEPT !.sec[main.sid] = NewHead(loca.sid)]
           /\ known' = known \cup {main.sid}
    /\ UNCHANGED lost

\* Killed when the disk is extended between the two sectors, or later.
KilledInCreate ==
    /\ "create" \in KilledIn
    /\ HasRoom(2)
    /\ LET main == Take(disk, Blank)
       IN  \/ /\ main.disk.count >= main.disk.size
              /\ disk' = main.disk
              /\ lost' = lost \cup {main.sid}
           \/ \E content \in {Blank, NewLoca} :
                 LET loca == Take(main.disk, content)
                 IN  /\ disk' = loca.disk
                     /\ lost' = lost \cup {main.sid, loca.sid}
    /\ Cardinality(lost') <= MaxLost
    /\ UNCHANGED known

Remains_FirstLoca(d, h) == d.sec[d.sec[h].loca].links \o <<d.sec[h].loca, h>>

\* The cores first, in order, then the locators on the way back.
Remains(d, h) == Cores(d, h) \o Reverse(Locas(d, h)) \o <<h>>

Deleted(d, sids) == FoldLeft(Release, d, sids)

DeleteContainer(h) ==
    /\ h \in known
    /\ disk' = Deleted(disk, Remains(disk, h))
    /\ known' = known \ {h}
    /\ UNCHANGED lost

\* Every locator and every core is loaded before it is given back: the caller
\* may be killed with some cores gone that the locators still link.  It has
\* unlinked the container (unlink in unistd.c), which nobody names any more.
KilledInDelete(h) ==
    /\ "delete" \in KilledIn
    /\ h \in known
    /\ \E n \in 0 .. Len(Cores(disk, h)) :
          LET gone == SubSeq(Cores(disk, h), 1, n)
          IN  /\ n = Len(Cores(disk, h)) => disk.sec[LastLoca(disk, h)].links = <<>>
              /\ disk' = Deleted(disk, gone)
              /\ lost' = lost \cup (ToSet(Remains(disk, h)) \ ToSet(gone))
    /\ known' = known \ {h}
    /\ Cardinality(lost') <= MaxLost

-----------------------------------------------------------------------------
(* Resizing (ctr_size.c). *)

\* The cores that a container is taken to have, and those it shall have.
OldCount(size) == CeilDiv(size, BYTE_IN_CORE)

NewCount_Floor(size) == size \div BYTE_IN_CORE

NewCount(size) == size \div BYTE_IN_CORE + (IF size > 0 THEN 1 ELSE 0)

GrowStep_OneMore(acc, h) ==
    IF acc.left = 0 THEN acc
    ELSE LET last == LastLoca(acc.disk, h)
         IN  IF Len(acc.disk.sec[last].links) <= LINKS_IN_LOCA
             THEN LET core == Take(acc.disk, NewCore)
                  IN  [disk |-> [core.disk EXCEPT !.sec[last].links = Append(@, core.sid)],
                       left |-> acc.left - 1]
             ELSE LET loca == Take(acc.disk, NewLoca)
                  IN  [disk |-> [loca.disk EXCEPT !.sec[last].next = loca.sid], left |-> acc.left]

\* One sector of fs_cnt_grow_size: a core for the last locator, or a locator
\* after it when it is full.
GrowStep(acc, h) ==
    IF acc.left = 0 THEN acc
    ELSE LET last == LastLoca(acc.disk, h)
         IN  IF Len(acc.disk.sec[last].links) < LINKS_IN_LOCA
             THEN LET core == Take(acc.disk, NewCore)
                  IN  [disk |-> [core.disk EXCEPT !.sec[last].links = Append(@, core.sid)],
                       left |-> acc.left - 1]
             ELSE LET loca == Take(acc.disk, NewLoca)
                  IN  [disk |-> [loca.disk EXCEPT !.sec[last].next = loca.sid], left |-> acc.left]

\* The first steps of growing h by n cores; 2 * n are enough for all.
Grown(d, h, n, steps) == FoldLeft(LAMBDA acc, i : GrowStep(acc, h), [disk |-> d, left |-> n], [i \in 1 .. steps |-> i])

\* fs_cnt_shrink_size, one core at a time: an empty locator at the end goes
\* when a core has to be found before it, also the first one.
ShrinkStep(acc, h) ==
    IF acc.failed THEN acc
    ELSE LET locas == Locas(acc.disk, h)
             full == {i \in 1 .. Len(locas) : acc.disk.sec[locas[i]].links # <<>>}
             Gone(n) == FoldLeft(Release, acc.disk, Reverse(SubSeq(locas, n + 1, Len(locas))))
         IN  IF full = {} THEN [disk |-> Gone(0), failed |-> TRUE]
             ELSE LET l == locas[CHOOSE i \in full : \A j \in full : j <= i]
                      n == CHOOSE i \in full : \A j \in full : j <= i
                      d == Release(Gone(n), Last(acc.disk.sec[l].links))
                  IN  [acc EXCEPT !.disk = [d EXCEPT !.sec[l].links = Front(@), !.sec[l].next = Null]]

SetSize(h, size) ==
    /\ h \in known
    /\ LET old == OldCount(disk.sec[h].size)
           new == NewCount(size)
           grown == Grown(disk, h, new - old, 2 * (new - old))
       IN  IF old < new
           THEN /\ HasRoom(new - old + CeilDiv(new - old, LINKS_IN_LOCA))
                /\ disk' = [grown.disk EXCEPT !.sec[h].size = size]
           ELSE LET shrunk == FoldLeft(LAMBDA acc, i : ShrinkStep(acc, h),
                                       [disk |-> disk, failed |-> FALSE], [i \in 1 .. old - new |-> i])
                IN  disk' = IF shrunk.failed THEN shrunk.disk
                            ELSE [shrunk.disk EXCEPT !.sec[h].size = size]
    /\ UNCHANGED <<known, lost>>

\* fs_cnt_grow_size writes a locator when it goes on to the next one or ends:
\* the links of the last one are lost with a caller killed before, and so
\* is the sector taken when memory was short; or the new locator was written
\* already and could not be loaded.
KilledInGrow(h, size) ==
    /\ "grow" \in KilledIn
    /\ h \in known
    /\ LET n == NewCount(size) - OldCount(disk.sec[h].size)
       IN  /\ n > 0
           /\ HasRoom(n + CeilDiv(n, LINKS_IN_LOCA))
           /\ \E steps \in 0 .. 2 * n - 1 :
                 LET acc == Grown(disk, h, n, steps)
                     last == LastLoca(acc.disk, h)
                     links == acc.disk.sec[last].links
                     written == IF last = LastLoca(disk, h) THEN disk.sec[last].links ELSE <<>>
                     taken == Take(acc.disk, Blank)
                 IN  /\ acc.left > 0
                     /\ \/ /\ disk' = [taken.disk EXCEPT !.sec[last].links = written]
                           /\ lost' = lost \cup {taken.sid} \cup (ToSet(links) \ ToSet(written))
                        \/ /\ links = <<>>
                           /\ last # LastLoca(disk, h)
                           /\ disk' = acc.disk
                           /\ UNCHANGED lost
    /\ Cardinality(lost') <= MaxLost
    /\ UNCHANGED known

-----------------------------------------------------------------------------
(* Reading and writing (ctr_rw.c). *)

WalkStep_FromBuffer(acc, core, len) ==
    IF acc.index >= len THEN acc
    ELSE IF acc.index + BYTE_IN_CORE <= 0
    THEN [acc EXCEPT !.index = @ + BYTE_IN_CORE]
    ELSE LET at == MaxOf(0, acc.index)
             n == MinOf(len - MaxOf(acc.index, 0), BYTE_IN_CORE - at)
         IN  [index  |-> acc.index + n + at,
              pieces |-> Append(acc.pieces, [core |-> core, at |-> at, buf |-> MaxOf(acc.index, 0), len |-> n])]

\* fs_cnt_rw_loca at a core: index is the place in the buffer where the
\* core's first byte belongs, negative before the buffer's start.  A locator
\* skipped as a whole is a locator all of whose cores are skipped.
WalkStep(acc, core, len) ==
    IF acc.index >= len THEN acc
    ELSE IF acc.index + BYTE_IN_CORE <= 0
    THEN [acc EXCEPT !.index = @ + BYTE_IN_CORE]
    ELSE LET at == MaxOf(0, -acc.index)
             n == MinOf(len - MaxOf(acc.index, 0), BYTE_IN_CORE - at)
         IN  [index  |-> acc.index + n + at,
              pieces |-> Append(acc.pieces, [core |-> core, at |-> at, buf |-> MaxOf(acc.index, 0), len |-> n])]

\* The pieces of cores that a transfer of len bytes at offset goes over.
Walk(d, h, offset, len) ==
    FoldLeft(LAMBDA acc, core : WalkStep(acc, core, len),
             [index |-> -offset, pieces |-> <<>>], Cores(d, h)).pieces

\* fs_cnt_rw_core.
CoreWritten(d, piece, data) ==
    [d EXCEPT !.sec[piece.core].bytes =
        [i \in 1 .. BYTE_IN_CORE |->
            IF piece.at < i /\ i <= piece.at + piece.len THEN data[piece.buf + i - piece.at] ELSE @[i]]]

\* fs_cnt_write; fs_cnt_read changes nothing.
Write(h, offset, data) ==
    /\ h \in known
    /\ offset + Len(data) <= disk.sec[h].size
    /\ disk' = FoldLeft(LAMBDA d, piece : CoreWritten(d, piece, data), disk, Walk(disk, h, offset, Len(data)))
    /\ UNCHANGED <<known, lost>>

-----------------------------------------------------------------------------
\* vdisk_create.
Init ==
    /\ disk = [size |-> InitSectors, count |-> 0, used |-> {},
               free |-> [i \in Sectors |-> IF i < InitSectors THEN i ELSE Null],
               sec  |-> [s \in Sectors |-> Blank]]
    /\ known = {}
    /\ lost = {}

Next ==
    \/ CreateContainer
    \/ KilledInCreate
    \/ \E h \in known :
          \/ DeleteContainer(h)
          \/ KilledInDelete(h)
          \/ \E size \in 0 .. MaxSize :
                \/ SetSize(h, size)
                \/ KilledInGrow(h, size)
          \/ \E offset \in Positions :
                \E len \in Lengths : Write(h, offset, Buffer(len))

Spec == Init /\ [][Next]_vars

-----------------------------------------------------------------------------
(* Properties. *)

\* The type of the state; no locator has more links than fit.
TypeOK ==
    /\ disk.size \in InitSectors .. MaxSectors
    /\ disk.count \in 0 .. disk.size
    /\ disk.used \subseteq 0 .. disk.size - 1
    /\ disk.free \in [Sectors -> Sectors \cup {Null}]
    /\ \A s \in Sectors :
          LET c == disk.sec[s]
          IN  CASE c.type = "HEAD" -> c.size \in 0 .. MaxSize /\ c.loca \in Sectors
                [] c.type = "LOCA" -> c.links \in BoundedSeq(Sectors, LINKS_IN_LOCA) /\ c.next \in Sectors \cup {Null}
                [] c.type = "CORE" -> c.bytes \in [1 .. BYTE_IN_CORE -> Byte]
                [] OTHER -> c = Blank
    /\ known \subseteq Sectors
    /\ lost \subseteq Sectors

\* The upper part of the stack of free sectors is the sectors not in use, each
\* once: vdisk_note_sector_used never finds another than the next free one,
\* which is fatal.
FreeStack ==
    LET Stacked == {disk.free[i] : i \in disk.count .. disk.size - 1}
    IN  /\ Stacked = (0 .. disk.size - 1) \ disk.used
        /\ Cardinality(disk.used) = disk.count

\* Every sector in use is linked from one place, in one container, or was left
\* behind by a killed caller: no two containers share a sector after any
\* sequence of resizes and deletions, and none is lost by a call that ends.
SectorsOwned ==
    LET all == FlattenSeq(SetToSeq({Remains(disk, h) : h \in known}))
    IN  /\ disk.used = ToSet(all) \cup lost
        /\ Len(all) + Cardinality(lost) = Cardinality(disk.used)

\* A container has the cores its size needs, of the kinds they are taken for,
\* and only its last locator has room: reading and writing never run out of
\* cores inside the size.  old_count and new_count in fs_cnt_set_size are not
\* computed alike, so it may have more.
ChainsSound ==
    \A h \in known :
        LET locas == Locas(disk, h)
        IN  /\ disk.sec[h].type = "HEAD"
            /\ \A i \in 1 .. Len(locas) : disk.sec[locas[i]].type = "LOCA"
            /\ \A i \in 1 .. Len(locas) - 1 : Len(disk.sec[locas[i]].links) = LINKS_IN_LOCA
            /\ \A core \in ToSet(Cores(disk, h)) : disk.sec[core].type = "CORE"
            /\ Len(Cores(disk, h)) >= CeilDiv(disk.sec[h].size, BYTE_IN_CORE)

\* The place of byte i of a container: a core, and where in it.
Place(h, i) == <<Cores(disk, h)[i \div BYTE_IN_CORE + 1], i % BYTE_IN_CORE>>

\* A transfer inside the size goes over exactly the bytes asked for, in order,
\* however they lie in cores (the index arithmetic of fs_cnt_rw_loca).
TransfersExact ==
    \A h \in known : \A offset \in Positions : \A len \in Positions :
        offset + len <= disk.sec[h].size =>
            LET pieces == Walk(disk, h, offset, len)
            IN  FlattenSeq([n \in 1 .. Len(pieces) |->
                               [i \in 1 .. pieces[n].len |-> <<pieces[n].core, pieces[n].at + i - 1>>]])
                    = [i \in 1 .. len |-> Place(h, offset + i - 1)]

\* The bytes in the cores of h, of which its size says how many count.
Content(h) ==
    LET Bytes[n \in 0 .. MaxSectors] == IF n = 0 THEN <<>> ELSE Bytes[n - 1] \o disk.sec[Cores(disk, h)[n]].bytes
    IN  [size |-> disk.sec[h].size,
         bytes |-> SubSeq(Bytes[Len(Cores(disk, h))] \o Zeros(MaxSize), 1, MaxSize)]

Abstract == INSTANCE Files WITH files <- [h \in known |-> Content(h)]

\* Containers are byte sequences of their own: no call changes another
\* container, growing shows nothing of another one, and a call that is killed
\* changes nothing that can be read.
ImplementsFiles == Abstract!FilesSpec
=============================================================================
