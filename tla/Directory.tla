------------------------------ MODULE Directory ------------------------------
(***************************************************************************)
(* Directories of profanOS: how entries lie in the container of a          *)
(* directory (zlibs/modules/filesys.c and its kernel twin usg_dir.c), path *)
(* lookup, creation, and the library's unlink (libc/unistd.c) and rename   *)
(* (libc/stdio.c), which are sequences of kernel calls.                    *)
(*                                                                         *)
(* A kernel call is one action.  Between two kernel calls of unlink or     *)
(* rename other processes run, and the process may be killed.              *)
(*                                                                         *)
(* Sizes count words; a name takes one word or two.  Containers are what   *)
(* Butterfly shows: any free one may be the next.  Paths are absolute and  *)
(* without dots.  A definition with a suffix, such as Shifted_NamesStay,   *)
(* is a mistake the code does not make: a property is tested against it.   *)
(***************************************************************************)
EXTENDS Integers, FiniteSets, Sequences, SequencesExt, FiniteSetsExt

CONSTANTS
    Names,       \* names of files and directories
    LongNames,   \* the names of two words
    MaxSid,      \* bound on the containers
    MaxWords,    \* bound on the size of a directory
    Procs,       \* processes that unlink
    Renamers,    \* those of them that also rename
    Misuse       \* subset of Misuses: what callers are allowed to do

\* "overlap": calls on related paths at the same time.  "under_file": rename
\* to a path under a file.  "stale_parent": removal of an entry from a moved
\* directory whose ".." names the same container.
Misuses == {"overlap", "under_file", "stale_parent"}

ASSUME NamesAssumption == LongNames \subseteq Names /\ Names \cap {".", "..", "#"} = {}
ASSUME BoundAssumption == MaxSid \in Nat \ {0} /\ MaxWords \in Nat
                          /\ Renamers \subseteq Procs /\ Misuse \subseteq Misuses

VARIABLES
    used,   \* containers in use
    kind,   \* first letter of the name in the header: D or F
    raw,    \* the words in a directory's container
    call,   \* the library call of each process
    lost    \* containers that killed processes had out of the tree

vars == <<used, kind, raw, call, lost>>

Null == 0
Root == 1
Sids == 1 .. MaxSid

Paths == {<<n>> : n \in Names} \cup (Names \X Names)
Related(a, b) == IsPrefix(a, b) \/ IsPrefix(b, a)

-----------------------------------------------------------------------------
(* The words of a directory: a count, the entries, the names. *)

Num(k) == <<"#", k>>
Str(n) == IF n \in LongNames THEN <<<<n, 1>>, <<n, 2>>>> ELSE <<<<n, 1>>>>

Count(words) == words[1][2]
SidAt(words, i) == words[2 * i][2]
OffsetAt(words, i) == words[2 * i + 1][2]
Entries(words) == SubSeq(words, 2, 1 + 2 * Count(words))
NamesFrom(words) == 2 + 2 * Count(words)

\* fu_dir_get_elm: the first word of the name of entry i.
NameAt(words, i) ==
    LET at == NamesFrom(words) + OffsetAt(words, i)
    IN  IF at \in DOMAIN words THEN words[at] ELSE Num(0)

HasName(words, i, n) == NameAt(words, i) = <<n, 1>>

\* fu_add_to_dir.  The new name goes to the end; names move up by one entry.
AddToDir(words, sid, name) ==
    <<Num(Count(words) + 1)>> \o Entries(words)
        \o <<Num(sid), Num(Len(words) + 1 - NamesFrom(words))>>
        \o SubSeq(words, NamesFrom(words), Len(words)) \o Str(name)

Shifted_NamesStay(words, i) ==
    <<Num(Count(words) - 1)>> \o RemoveAt(RemoveAt(Entries(words), 2 * i - 1), 2 * i - 1)
        \o SubSeq(words, NamesFrom(words) - 2, Len(words))

\* Entry i goes and the names move down.  The size stays, and so do the name
\* and the last two words.
Shifted(words, i) ==
    <<Num(Count(words) - 1)>> \o RemoveAt(RemoveAt(Entries(words), 2 * i - 1), 2 * i - 1)
        \o SubSeq(words, NamesFrom(words), Len(words))
        \o SubSeq(words, Len(words) - 1, Len(words))

EntriesOf(words, sid) == {i \in 1 .. Count(words) : SidAt(words, i) = sid}

\* fu_remove_from_dir: the first entry of the container, whatever its name.
RemoveFromDir(words, sid) == Shifted(words, Min(EntriesOf(words, sid)))

NewDir(parent, sid) == AddToDir(AddToDir(<<Num(0)>>, parent, ".."), sid, ".")

\* A name fits the bound.
HasRoom(dir, name) == Len(raw[dir]) + 2 + Len(Str(name)) <= MaxWords

-----------------------------------------------------------------------------
(* Lookup (rec_path_to_sid). *)

IsDir(sid) == sid # Null /\ kind[sid] = "D"

\* fu_dir_get_size on a directory.
DirSize(sid) == Count(raw[sid])

\* The first entry with the name that is the last of a path or a directory.
Step(kinds, words, name, last) ==
    LET found == {i \in 1 .. Count(words) : HasName(words, i, name) /\ (last \/ kinds[SidAt(words, i)] = "D")}
    IN  IF found = {} THEN Null ELSE SidAt(words, Min(found))

LookupIn(kinds, dirs, path) ==
    LET At[n \in 0 .. Len(path)] ==
            IF n = 0 THEN Root
            ELSE LET dir == At[n - 1]
                 IN  IF dir = Null THEN Null ELSE Step(kinds, dirs[dir], path[n], n = Len(path))
    IN  At[Len(path)]

Lookup(path) == LookupIn(kind, raw, path)

-----------------------------------------------------------------------------
(* Calls in progress. *)

\* The locals of unlink and rename, with the kernel call that comes next.
Idle == [at |-> "idle", path |-> <<>>, to |-> <<>>, sid |-> Null, from |-> Null,
         dest |-> Null, into |-> Null, elem |-> Null, parent |-> Null]

PathsOf(p) == {call[p].path, call[p].to} \ {<<>>}

\* No other call in progress is on a path related to these.
Apart(others, paths) ==
    "overlap" \notin Misuse =>
        \A q \in others : \A a \in PathsOf(q) : \A b \in paths : ~Related(a, b)

InRename(p) == call[p].to # <<>>

\* The path that unlink works on, by itself or within rename.
Target(p) == IF InRename(p) THEN call[p].to ELSE call[p].path

At(p, at) == call[p].at = at
Goto(p, at) == call' = [call EXCEPT ![p].at = at]

\* Only the containers to move between are needed now.
GotoMove(p) ==
    call' = [call EXCEPT ![p].at = "rename_remove", ![p].dest = Null, ![p].elem = Null, ![p].parent = Null]

Done(p) == call' = [call EXCEPT ![p] = Idle]

-----------------------------------------------------------------------------
(* Creation: fu_file_create and fu_dir_create, one kernel call. *)

Create(path, k) ==
    /\ Apart(Procs, {path})
    /\ Lookup(path) = Null
    /\ LET dir == Lookup(Front(path))
       IN  /\ IsDir(dir)
           /\ HasRoom(dir, Last(path))
           /\ \E sid \in Sids \ used :
                 /\ used' = used \cup {sid}
                 /\ kind' = [kind EXCEPT ![sid] = k]
                 /\ raw' = [raw EXCEPT ![dir] = AddToDir(@, sid, Last(path)),
                                       ![sid] = IF k = "D" THEN NewDir(dir, sid) ELSE <<>>]
    /\ UNCHANGED <<call, lost>>

-----------------------------------------------------------------------------
(* unlink. *)

UnlinkLook(p, path) ==
    /\ At(p, "idle")
    /\ Apart(Procs \ {p}, {path})
    /\ call' = [call EXCEPT ![p] = [Idle EXCEPT !.at = "unlink_check", !.path = path, !.elem = Lookup(path)]]
    /\ UNCHANGED <<used, kind, raw, lost>>

\* unlink in rename begins with a lookup of its own.
UnlinkDest(p) ==
    /\ At(p, "unlink_look")
    /\ call' = [call EXCEPT ![p].elem = Lookup(Target(p)), ![p].at = "unlink_check"]
    /\ UNCHANGED <<used, kind, raw, lost>>

UnlinkCheck_Unless3(p) ==
    /\ At(p, "unlink_check")
    /\ IF IsDir(call[p].elem) /\ DirSize(call[p].elem) > 3 THEN Done(p) ELSE Goto(p, "unlink_parent")
    /\ UNCHANGED <<used, kind, raw, lost>>

\* A directory must hold no more than "." and "..".
UnlinkCheck(p) ==
    /\ At(p, "unlink_check")
    /\ LET elem == call[p].elem
       IN  IF IsDir(elem) /\ DirSize(elem) > 2 THEN Done(p)
           ELSE Goto(p, "unlink_parent")
    /\ UNCHANGED <<used, kind, raw, lost>>

UnlinkParent(p) ==
    /\ At(p, "unlink_parent")
    /\ LET parent == Lookup(Front(Target(p)))
       IN  IF parent = Null THEN Done(p)
           ELSE call' = [call EXCEPT ![p].parent = parent, ![p].at = "unlink_remove"]
    /\ UNCHANGED <<used, kind, raw, lost>>

\* fu_remove_from_dir fails.
Absent(dir, sid) == ~IsDir(dir) \/ dir \notin used \/ EntriesOf(raw[dir], sid) = {}

\* rename leaves ".." alone: in a directory that has been moved it names the
\* old parent, and comes before an entry for it.
StaleParent(dir, sid) == HasName(raw[dir], Min(EntriesOf(raw[dir], sid)), "..")

UnlinkRemove(p) ==
    /\ At(p, "unlink_remove")
    /\ LET dir == call[p].parent
           elem == call[p].elem
       IN  IF Absent(dir, elem) THEN Done(p) /\ UNCHANGED raw
           ELSE /\ "stale_parent" \notin Misuse => ~StaleParent(dir, elem)
                /\ raw' = [raw EXCEPT ![dir] = RemoveFromDir(@, elem)]
                /\ Goto(p, "unlink_delete")
    /\ UNCHANGED <<used, kind, lost>>

\* fs_cnt_delete; the header keeps its name.
UnlinkDelete(p) ==
    /\ At(p, "unlink_delete")
    /\ used' = used \ {call[p].elem}
    /\ IF InRename(p) /\ call[p].elem \in used THEN GotoMove(p) ELSE Done(p)
    /\ UNCHANGED <<kind, raw, lost>>

-----------------------------------------------------------------------------
(* rename. *)

RenameLook(p, path, to) ==
    /\ At(p, "idle")
    /\ Apart(Procs \ {p}, {path, to})
    /\ LET sid == Lookup(path)
       IN  /\ sid # Null
           /\ call' = [call EXCEPT ![p] = [Idle EXCEPT !.at = "rename_from", !.path = path, !.to = to, !.sid = sid]]
    /\ UNCHANGED <<used, kind, raw, lost>>

RenameFrom(p) ==
    /\ At(p, "rename_from")
    /\ call' = [call EXCEPT ![p].from = Lookup(Front(call[p].path)), ![p].at = "rename_dest"]
    /\ UNCHANGED <<used, kind, raw, lost>>

RenameDest(p) ==
    /\ At(p, "rename_dest")
    /\ LET dest == Lookup(call[p].to)
       IN  IF dest = call[p].sid THEN Done(p)
           ELSE call' = [call EXCEPT ![p].dest = dest, ![p].at = "rename_check"]
    /\ UNCHANGED <<used, kind, raw, lost>>

\* An existing directory is replaced only by a directory, and only if empty.
RenameCheck(p) ==
    /\ At(p, "rename_check")
    /\ LET dest == call[p].dest
       IN  IF IsDir(dest) /\ (IsDir(call[p].sid) => DirSize(dest) > 2) THEN Done(p) ELSE Goto(p, "rename_into")
    /\ UNCHANGED <<used, kind, raw, lost>>

RenameInto(p) ==
    /\ At(p, "rename_into")
    /\ LET into == Lookup(Front(call[p].to))
       IN  IF into = Null \/ call[p].from = Null THEN Done(p)
           ELSE /\ "under_file" \notin Misuse => IsDir(into)
                /\ call' = [call EXCEPT ![p].into = into, ![p].at = "rename_subdir"]
    /\ UNCHANGED <<used, kind, raw, lost>>

RenameSubdir_Top(p) ==
    /\ At(p, "rename_subdir")
    /\ IF IsDir(call[p].sid) /\ Lookup(call[p].to) = call[p].sid
       THEN Done(p)
       ELSE IF call[p].dest = Null THEN GotoMove(p) ELSE Goto(p, "unlink_look")
    /\ UNCHANGED <<used, kind, raw, lost>>

\* rename_is_subdir: no directory above the new path is the one that moves.
\* It reads the path after it was freed, which nothing has overwritten.
RenameSubdir(p) ==
    /\ At(p, "rename_subdir")
    /\ IF IsDir(call[p].sid) /\ \E n \in 1 .. Len(call[p].to) : Lookup(SubSeq(call[p].to, 1, n)) = call[p].sid
       THEN Done(p)
       ELSE IF call[p].dest = Null THEN GotoMove(p) ELSE Goto(p, "unlink_look")
    /\ UNCHANGED <<used, kind, raw, lost>>

RenameRemove(p) ==
    /\ At(p, "rename_remove")
    /\ LET dir == call[p].from
           sid == call[p].sid
       IN  IF Absent(dir, sid) THEN Done(p) /\ UNCHANGED raw
           ELSE /\ "stale_parent" \notin Misuse => ~StaleParent(dir, sid)
                /\ raw' = [raw EXCEPT ![dir] = RemoveFromDir(@, sid)]
                /\ Goto(p, "rename_add")
    /\ UNCHANGED <<used, kind, lost>>

\* The old entry is not put back when the new one cannot be added.
RenameAdd(p) ==
    /\ At(p, "rename_add")
    /\ LET dir == call[p].into
       IN  IF IsDir(dir) /\ dir \in used
           THEN /\ HasRoom(dir, Last(call[p].to))
                /\ raw' = [raw EXCEPT ![dir] = AddToDir(@, call[p].sid, Last(call[p].to))]
           ELSE UNCHANGED raw
    /\ Done(p)
    /\ UNCHANGED <<used, kind, lost>>

-----------------------------------------------------------------------------
\* The container that a call has taken out of the tree.
Held(p) ==
    IF At(p, "unlink_delete") THEN {call[p].elem}
    ELSE IF At(p, "rename_add") THEN {call[p].sid}
    ELSE {}

\* A process can be killed whenever it is not in the kernel.
Killed(p) ==
    /\ ~At(p, "idle")
    /\ lost' = lost \cup Held(p)
    /\ Done(p)
    /\ UNCHANGED <<used, kind, raw>>

\* kfu_dir_create makes the root in filesys_init.
Init ==
    /\ used = {Root}
    /\ kind = [s \in Sids |-> IF s = Root THEN "D" ELSE "F"]
    /\ raw = [s \in Sids |-> IF s = Root THEN NewDir(Root, Root) ELSE <<>>]
    /\ call = [p \in Procs |-> Idle]
    /\ lost = {}

Next ==
    \/ \E path \in Paths : \E k \in {"F", "D"} : Create(path, k)
    \/ \E p \in Procs :
          \/ \E path \in Paths : UnlinkLook(p, path)
          \/ UnlinkDest(p)
          \/ UnlinkCheck(p)
          \/ UnlinkParent(p)
          \/ UnlinkRemove(p)
          \/ UnlinkDelete(p)
          \/ /\ p \in Renamers
             /\ \E path \in Paths : \E to \in Paths : RenameLook(p, path, to)
          \/ RenameFrom(p)
          \/ RenameDest(p)
          \/ RenameCheck(p)
          \/ RenameInto(p)
          \/ RenameSubdir(p)
          \/ RenameRemove(p)
          \/ RenameAdd(p)
          \/ Killed(p)

Spec == Init /\ [][Next]_vars

-----------------------------------------------------------------------------
(* Properties. *)

\* The entries of a directory that are not "." and "..".
Children(d) ==
    {i \in 1 .. Count(raw[d]) : ~HasName(raw[d], i, ".") /\ ~HasName(raw[d], i, "..")}

\* The entries of the tree: the directory, the place in it, the container.
Links == UNION {{<<d, i, SidAt(raw[d], i)>> : i \in Children(d)} : d \in {s \in used : IsDir(s)}}

\* A container in use is in the tree at one place, or out of it because a call
\* is moving or deleting it or was killed there; one that is not in use is
\* nowhere.  (Deletion looks at the count of entries earlier; removal goes by
\* sector number, and numbers are used again.)
LinkedOnce ==
    LET links == Links
        held == lost \cup UNION {Held(p) : p \in Procs}
    IN  /\ {l[3] : l \in links} = used \ (held \cup {Root})
        /\ Cardinality({l[3] : l \in links}) = Cardinality(links)

\* Every container in the tree is below the root, or below one that a call has
\* taken out: rename never hangs a directory under itself.
TreeReachable ==
    LET links == Links
        Below[n \in 0 .. MaxSid] ==
            IF n = 0 THEN {Root} \cup lost \cup UNION {Held(p) : p \in Procs}
            ELSE LET above == Below[n - 1]
                 IN  above \cup {l[3] : l \in {m \in links : m[1] \in above}}
    IN  \A l \in links : l[3] \in Below[MaxSid]

\* The paths that a call has named.
Named(p) == {call[p].path, call[p].to, call'[p].path, call'[p].to} \ {<<>>}

\* What a step of unlink or rename removes or adds is at a path the call has
\* named, or below one: other names in the same directory keep their meaning,
\* however entries and names are moved.
OnlyNamed ==
    [][\A path \in Paths :
          LookupIn(kind', raw', path) # Lookup(path) =>
              \/ \E p \in Procs : call'[p] # call[p] /\ \E named \in Named(p) : IsPrefix(named, path)
              \/ UNCHANGED call /\ Lookup(path) = Null]_<<kind, raw>>
=============================================================================
