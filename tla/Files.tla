-------------------------------- MODULE Files --------------------------------
(***************************************************************************)
(* What the containers of butterfly promise each other: a container is a   *)
(* sequence of bytes that changes by its own resizes and writes only.      *)
(* Bytes past the end may be kept, so that growing a container shows what  *)
(* was there before or zero, and never what belonged to another one.       *)
(***************************************************************************)
EXTENDS Integers

CONSTANT MaxSize   \* bound on the places looked at

VARIABLE files     \* files[c]: the container c, for those that exist

Positions == 1 .. MaxSize

Ids == DOMAIN files

\* Whatever happens to the containers in S, the others stay as they are.
OthersKept(S) == \A x \in Ids \ S : x \in Ids' /\ files'[x] = files[x]

NewFile == [size |-> 0, bytes |-> [i \in Positions |-> 0]]

FilesInit == Ids = {}

CreateFile(c) ==
    /\ c \notin Ids
    /\ Ids' = Ids \cup {c}
    /\ files'[c] = NewFile
    /\ OthersKept({})

DeleteFile(c) ==
    /\ Ids' = Ids \ {c}
    /\ OthersKept({c})

\* The bytes from kept on are zero again; none that the file shows.
Resized(old, new) ==
    \E kept \in new.size .. MaxSize :
        new.bytes = [i \in Positions |-> IF i <= kept THEN old.bytes[i] ELSE 0]

\* Only what is inside the size is written.
Rewritten(old, new) ==
    /\ new.size = old.size
    /\ \A i \in Positions : i > old.size => new.bytes[i] = old.bytes[i]

ChangeFile(c) ==
    /\ Ids' = Ids
    /\ OthersKept({c})
    /\ LET old == files[c]
           new == files'[c]
       IN  Resized(old, new) \/ Rewritten(old, new)

FilesNext ==
    \/ \E c \in Ids' : CreateFile(c)
    \/ \E c \in Ids : DeleteFile(c)
    \/ \E c \in Ids \cap Ids' : ChangeFile(c)

FilesSpec == FilesInit /\ [][FilesNext]_files
=============================================================================
