---------------------------- MODULE FmopenProofs ----------------------------
(***************************************************************************)
(* Proofs about Fmopen: what descriptors share is counted right.  Under    *)
(* the premises of the run, for any number of processes, descriptors,      *)
(* pipes and sockets, a process has one entry in a pipe for each of its    *)
(* descriptors, no pipe is lost but to a process that died in the context  *)
(* of another, a path has one owner and a socket is counted once for each  *)
(* descriptor.                                                             *)
(*                                                                         *)
(* Inv is the inductive invariant.  Its heart is Owns, which takes the     *)
(* states of the processes, the descriptor tables and the shared memory    *)
(* as parameters: dup2 closes a descriptor and then copies one,            *)
(* fm_declare_child and __atdeath are loops, and each round of them is a   *)
(* lemma about Owns with tables that no state of the system has.           *)
(***************************************************************************)
EXTENDS Fmopen, FiniteSetTheorems, FunctionTheorems, WellFoundedInduction, TLAPS

\* The premises of the theorems: only orphans are left behind.
Premise == Misuse \subseteq {"orphans"}

Descs == [type : FdTypes, ref : Pipes \cup Paths \cup Socks \cup {0}]

Tables == [Pids -> [Fds -> Descs]]

PipeRec == [used : BOOLEAN, data : 0 .. MaxBytes, readers : Seq(Pids), writers : Seq(Pids)]

Memory == [pipes : [Pipes -> PipeRec], paths : SUBSET Paths, socks : SUBSET Socks,
           refs : [Socks -> Int]]

\* The lists of a pipe fit into their arrays, and it is in use when one of
\* them has an entry.
PipeOK(pipe) ==
    /\ Len(pipe.readers) <= PIPE_MAX_REF
    /\ Len(pipe.writers) <= PIPE_MAX_REF
    /\ pipe.used <=> pipe.readers # <<>> \/ pipe.writers # <<>>

\* How many entries of list s are e; how many descriptors of p are d.
Occ(s, e) == Cardinality({i \in DOMAIN s : s[i] = e})

Held(t, p, d) == Cardinality({f \in Fds : t[p][f] = d})

End(type, x) == [type |-> type, ref |-> x]

\* How many descriptors refer to a socket, those of undeclared children apart.
Users(pr, t, s) == Cardinality({d \in Pids \X Fds : pr[d[1]] # "new" /\ t[d[1]][d[2]] = End("SOCK", s)})

\* The types, and descriptors refer to what is there.
Shape(t, m) ==
    /\ t \in Tables
    /\ m \in Memory
    /\ \A x \in Pipes : PipeOK(m.pipes[x])
    /\ \A p \in Pids : \A f \in Fds :
          /\ IsPipe(t[p][f]) => t[p][f].ref \in Pipes
          /\ t[p][f].type = "SOCK" => t[p][f].ref \in m.socks
          /\ t[p][f].type = "DIR" => t[p][f].ref \in m.paths

\* The number n of entries that a process in that state may have when it holds
\* so many descriptors: "leaving" is one that is closing descriptors in
\* __atdeath, its own and those of others; a victim may have left any number.
Fits(state, n, held) ==
    /\ state \in {"ready", "asleep", "dead"} => n = held
    /\ state \in {"none", "new"} => n = 0
    /\ state = "leaving" => n <= held

\* The entries in the lists of one side go with the ends that processes hold.
SideFits(pr, t, type, lists) ==
    \A p \in Pids : \A x \in Pipes : Fits(pr[p], Occ(lists[x], p), Held(t, p, End(type, x)))

Readers(m) == [x \in Pipes |-> m.pipes[x].readers]
Writers(m) == [x \in Pipes |-> m.pipes[x].writers]

Listed(pr, t, m) == SideFits(pr, t, "PPRD", Readers(m)) /\ SideFits(pr, t, "PPWR", Writers(m))

\* Every path has a descriptor, and no two have one path.
PathsFit(t, m) ==
    /\ \A a \in m.paths : \E p \in Pids : \E f \in Fds : t[p][f] = End("DIR", a)
    /\ \A p, q \in Pids : \A f, g \in Fds :
          t[p][f].type = "DIR" /\ t[p][f] = t[q][g] => p = q /\ f = g

RefsFit(pr, t, m) == \A s \in m.socks : m.refs[s] = Users(pr, t, s)

Owns(pr, t, m) ==
    /\ Shape(t, m)
    /\ Listed(pr, t, m)
    /\ PathsFit(t, m)
    /\ RefsFit(pr, t, m)

\* A child that is not declared has its parent's descriptors as long as the
\* parent can declare it, and the parent does nothing else.
Undeclared ==
    \A q \in Pids : proc[q] = "new" =>
        /\ parent[q] \in Pids
        /\ proc[parent[q]] \in {"ready", "dead", "victim"}
        /\ proc[parent[q]] = "ready" => fds[q] = fds[parent[q]]
        /\ \A f \in Fds : fds[q][f].type # "DIR"

\* Who is not alive has no descriptors; a sleeper sleeps for an end to read.
Others ==
    /\ \A p \in Pids : proc[p] \in {"none", "dead", "victim"} => \A f \in Fds : fds[p][f] = FreeFd
    /\ \A p \in Pids : proc[p] = "asleep" => reading[p] \in Fds /\ fds[p][reading[p]].type = "PPRD"

Inv ==
    /\ proc \in [Pids -> ProcStates]
    /\ parent \in [Pids -> 0 .. MaxPid]
    /\ reading \in [Pids -> Fds \cup {-1}]
    /\ Owns(proc, fds, mem)
    /\ Undeclared
    /\ Others

-----------------------------------------------------------------------------
(* Sets and lists.                                                         *)

\* A set of naturals has a least element.
LEMMA LeastNumber ==
    ASSUME NEW S, S \subseteq Nat, S # {}
    PROVE  \E x \in S : \A y \in S : x <= y
<1>1. PICK x \in S : \A y \in S : ~ (<<y, x>> \in OpToRel(<, Nat))
  BY WFMin, NatLessThanWellFounded
<1>2. \A y \in S : ~ (y < x)
  BY <1>1 DEF OpToRel
<1>. QED
  BY <1>2

\* LowestFd picks from a set of descriptors.
LEMMA LowestIn ==
    ASSUME NEW S, S \subseteq Nat, S # {}
    PROVE  LowestFd(S) \in S
BY LeastNumber DEF LowestFd

\* The numbers of processes, descriptors and entries are finite.
LEMMA Sizes ==
    /\ MaxPid \in Nat /\ MAX_FD \in Nat /\ PIPE_MAX_REF \in Nat /\ PIPE_MAX_REF >= 1
    /\ PIPE_MAX \in Nat /\ MaxBytes \in Nat
    /\ Fds \subseteq Nat /\ Pids \subseteq Nat /\ Pipes \subseteq Nat
    /\ IsFiniteSet(Fds) /\ IsFiniteSet(Pids) /\ IsFiniteSet(Pids \X Fds)
<1>1. MaxPid \in Nat /\ MAX_FD \in Nat /\ PIPE_MAX_REF \in Nat /\ PIPE_MAX_REF >= 1
      /\ PIPE_MAX \in Nat /\ MaxBytes \in Nat
  BY SizeAssumption
<1>2. IsFiniteSet(1 .. MaxPid) /\ IsFiniteSet(0 .. MAX_FD - 1)
  <2>1. 1 \in Int /\ MaxPid \in Int /\ 0 \in Int /\ MAX_FD - 1 \in Int
    BY <1>1
  <2>. QED
    BY <2>1, FS_Interval
<1>3. IsFiniteSet(Fds) /\ IsFiniteSet(Pids)
  BY <1>2 DEF Fds, Pids
<1>4. IsFiniteSet(Pids \X Fds)
  BY <1>3, FS_Product
<1>. QED
  BY <1>1, <1>3, <1>4 DEF Fds, Pids, Pipes

\* A set that gained one element has one more.
LEMMA OneMore ==
    ASSUME NEW S, NEW T, IsFiniteSet(S), NEW x, x \notin S, T = S \cup {x}
    PROVE  Cardinality(T) = Cardinality(S) + 1
BY FS_AddElement

\* A set that lost one element has one less.
LEMMA OneLess ==
    ASSUME NEW S, NEW T, IsFiniteSet(S), NEW x, x \in S, T = S \ {x}
    PROVE  Cardinality(T) = Cardinality(S) + (-1)
<1>1. IsFiniteSet(T) /\ x \notin T /\ S = T \cup {x}
  BY FS_RemoveElement
<1>2. Cardinality(S) = Cardinality(T) + 1
  BY <1>1, OneMore
<1>3. Cardinality(T) \in Nat
  BY <1>1, FS_CardinalityType
<1>. QED
  BY <1>2, <1>3

\* The entries of a list are counted by a natural.
LEMMA OccType ==
    ASSUME NEW s, s \in Seq(Pids), NEW e
    PROVE  /\ IsFiniteSet({i \in DOMAIN s : s[i] = e})
           /\ Occ(s, e) \in Nat
           /\ Occ(s, e) = 0 <=> \A i \in DOMAIN s : s[i] # e
<1>. DEFINE I == {i \in DOMAIN s : s[i] = e}
<1>1. DOMAIN s = 1 .. Len(s) /\ 1 \in Int /\ Len(s) \in Int
  OBVIOUS
<1>2. IsFiniteSet(DOMAIN s)
  BY <1>1, FS_Interval
<1>3. IsFiniteSet(I)
  BY <1>2, FS_Subset
<1>4. Cardinality(I) \in Nat /\ (Cardinality(I) = 0 <=> I = {})
  BY <1>3, FS_CardinalityType, FS_EmptySet
<1>. QED
  BY <1>3, <1>4, Zenon DEF Occ

\* An entry more.
LEMMA OccAppend ==
    ASSUME NEW s, s \in Seq(Pids), NEW p \in Pids, NEW e
    PROVE  /\ Append(s, p) \in Seq(Pids)
           /\ Len(Append(s, p)) = Len(s) + 1
           /\ e = p => Occ(Append(s, p), e) = Occ(s, e) + 1
           /\ e # p => Occ(Append(s, p), e) = Occ(s, e)
<1>. DEFINE r == Append(s, p)
            n == Len(s) + 1
<1>1. /\ r \in Seq(Pids) /\ Len(r) = n
      /\ DOMAIN s = 1 .. Len(s) /\ DOMAIN r = 1 .. n /\ n \notin 1 .. Len(s)
      /\ 1 .. n = 1 .. Len(s) \cup {n}
      /\ r[n] = p
      /\ \A i \in 1 .. Len(s) : r[i] = s[i]
  OBVIOUS
<1>. DEFINE I == {i \in DOMAIN s : s[i] = e}
            J == {i \in DOMAIN r : r[i] = e}
<1>2. IsFiniteSet(I)
  BY OccType
<1>. HIDE DEF n, r
<1>3. ASSUME e = p PROVE Cardinality(J) = Cardinality(I) + 1
  <2>1. n \notin I /\ J = I \cup {n}
    BY <1>1, <1>3
  <2>. QED
    BY <2>1, <1>2, OneMore
<1>4. ASSUME e # p PROVE J = I
  BY <1>1, <1>4
<1>. QED
  BY <1>1, <1>3, <1>4, Zenon DEF Occ, r, n

\* An entry goes, those behind it move up.
LEMMA OccRemoveAt ==
    ASSUME NEW s, s \in Seq(Pids), NEW j \in 1 .. Len(s), NEW e
    PROVE  /\ RemoveAt(s, j) \in Seq(Pids)
           /\ Len(RemoveAt(s, j)) = Len(s) - 1
           /\ e = s[j] => Occ(RemoveAt(s, j), e) = Occ(s, e) + (-1)
           /\ e # s[j] => Occ(RemoveAt(s, j), e) = Occ(s, e)
<1>. DEFINE r == RemoveAt(s, j)
            I == {i \in DOMAIN s : s[i] = e}
            K == {i \in DOMAIN s : s[i] = e /\ i # j}
            J == {i \in DOMAIN r : r[i] = e}
<1>1. /\ r \in Seq(Pids) /\ Len(r) = Len(s) - 1
      /\ DOMAIN s = 1 .. Len(s) /\ DOMAIN r = 1 .. Len(s) - 1
      /\ \A i \in 1 .. Len(s) - 1 : r[i] = IF i < j THEN s[i] ELSE s[i + 1]
  <2>. DEFINE a == SubSeq(s, 1, j - 1)
              b == SubSeq(s, j + 1, Len(s))
  <2>1. /\ a \in Seq(Pids) /\ Len(a) = j - 1
        /\ \A i \in 1 .. j - 1 : a[i] = s[i]
    OBVIOUS
  <2>2. /\ b \in Seq(Pids) /\ Len(b) = Len(s) - j
        /\ \A i \in 1 .. Len(s) - j : b[i] = s[i + j]
    OBVIOUS
  <2>3. r = a \o b
    BY DEF RemoveAt
  <2>. HIDE DEF a, b, r
  <2>4. r \in Seq(Pids) /\ Len(r) = Len(s) - 1
    BY <2>1, <2>2, <2>3
  <2>5. ASSUME NEW i \in 1 .. Len(s) - 1
        PROVE  r[i] = IF i < j THEN s[i] ELSE s[i + 1]
    <3>1. CASE i < j
      BY <3>1, <2>1, <2>2, <2>3
    <3>2. CASE i >= j
      <4>1. r[i] = b[i - (j - 1)]
        BY <3>2, <2>1, <2>2, <2>3
      <4>2. i - (j - 1) \in 1 .. Len(s) - j /\ i - (j - 1) + j = i + 1
        BY <3>2
      <4>3. b[i - (j - 1)] = s[i - (j - 1) + j]
        BY <4>2, <2>2
      <4>. QED
        BY <4>1, <4>2, <4>3, <3>2
    <3>. QED
      BY <3>1, <3>2
  <2>6. DOMAIN s = 1 .. Len(s) /\ DOMAIN r = 1 .. Len(s) - 1
    BY <2>4
  <2>. QED
    BY <2>4, <2>5, <2>6
<1>2. IsFiniteSet(I)
  BY OccType
<1>3. IsFiniteSet(K) /\ K \subseteq I
  BY <1>2, FS_Subset
<1>. HIDE DEF r
<1>4. Cardinality(J) = Cardinality(K)
  <2>. DEFINE h == [i \in K |-> IF i < j THEN i ELSE i - 1]
  <2>1. h \in [K -> J]
    BY <1>1
  <2>2. \A x, y \in K : h[x] = h[y] => x = y
    BY <1>1
  <2>3. \A y \in J : \E x \in K : h[x] = y
    <3>. SUFFICES ASSUME NEW y \in J PROVE \E x \in K : h[x] = y
      OBVIOUS
    <3>1. CASE y < j
      <4>1. y \in K
        BY <1>1, <3>1
      <4>2. h[y] = y
        BY <4>1, <3>1
      <4>. QED
        BY <4>1, <4>2
    <3>2. CASE y >= j
      <4>1. y + 1 \in K
        BY <1>1, <3>2
      <4>2. h[y + 1] = y
        BY <4>1, <3>2, <1>1
      <4>. QED
        BY <4>1, <4>2
    <3>3. y < j \/ y >= j
      BY <1>1
    <3>. QED
      BY <3>1, <3>2, <3>3
  <2>. HIDE DEF h, K, J
  <2>4. h \in Bijection(K, J)
    BY <2>1, <2>2, <2>3 DEF Bijection, Injection, Surjection, IsInjective
  <2>5. ExistsBijection(K, J)
    BY <2>4 DEF ExistsBijection
  <2>. QED
    BY <2>5, <1>3, FS_Bijection
<1>5. ASSUME e = s[j] PROVE Cardinality(K) = Cardinality(I) + (-1)
  <2>1. j \in I /\ K = I \ {j}
    BY <1>1, <1>5
  <2>. QED
    BY <2>1, <1>2, OneLess
<1>6. ASSUME e # s[j] PROVE K = I
  BY <1>1, <1>6
<1>. QED
  BY <1>1, <1>4, <1>5, <1>6, Zenon DEF Occ, r

\* RemoveFirst takes out one entry if there is one.
LEMMA OccRemoveFirst ==
    ASSUME NEW s, s \in Seq(Pids), NEW p, NEW e
    PROVE  /\ RemoveFirst(s, p) \in Seq(Pids)
           /\ Len(RemoveFirst(s, p)) <= Len(s)
           /\ e # p => Occ(RemoveFirst(s, p), e) = Occ(s, e)
           /\ e = p /\ Occ(s, e) > 0 => Occ(RemoveFirst(s, p), e) = Occ(s, e) + (-1)
           /\ Occ(s, p) = 0 => RemoveFirst(s, p) = s
<1>1. CASE \E i \in 1 .. Len(s) : s[i] = p
  <2>. DEFINE I == {i \in 1 .. Len(s) : s[i] = p}
  <2>1. SelectInSeq(s, LAMBDA v : v = p) = Min(I)
    BY <1>1 DEF SelectInSeq
  <2>2. \E a \in I : \A b \in I : a <= b
    <3>1. I \subseteq Nat /\ I # {}
      BY <1>1
    <3>. HIDE DEF I
    <3>. QED
      BY <3>1, LeastNumber
  <2>3. Min(I) \in I
    BY <2>2 DEF Min
  <2>4. PICK j \in 1 .. Len(s) : s[j] = p /\ RemoveFirst(s, p) = RemoveAt(s, j)
    BY <1>1, <2>1, <2>3 DEF RemoveFirst
  <2>5. Occ(s, p) # 0
    <3>1. j \in DOMAIN s
      OBVIOUS
    <3>. QED
      BY <3>1, <2>4, OccType, Zenon
  <2>. QED
    BY <2>4, <2>5, OccRemoveAt
<1>2. CASE ~ \E i \in 1 .. Len(s) : s[i] = p
  <2>1. RemoveFirst(s, p) = s
    BY <1>2 DEF RemoveFirst
  <2>2. \A i \in DOMAIN s : s[i] # p
    BY <1>2
  <2>3. Occ(s, p) = 0
    BY <2>2, OccType, Zenon
  <2>. QED
    BY <2>1, <2>3
<1>. QED
  BY <1>1, <1>2

\* A list with an entry is not empty, and a list that is not empty has one.
LEMMA OccNonempty ==
    ASSUME NEW s, s \in Seq(Pids)
    PROVE  s # <<>> <=> \E p \in Pids : Occ(s, p) > 0
<1>1. ASSUME s # <<>> PROVE \E p \in Pids : Occ(s, p) > 0
  <2>1. 1 \in DOMAIN s /\ s[1] \in Pids
    BY <1>1
  <2>2. Occ(s, s[1]) # 0 /\ Occ(s, s[1]) \in Nat
    BY <2>1, OccType
  <2>. QED
    BY <2>1, <2>2
<1>2. ASSUME s = <<>>, NEW p \in Pids PROVE Occ(s, p) = 0
  <2>1. \A i \in DOMAIN s : s[i] # p
    BY <1>2
  <2>. QED
    BY <2>1, OccType, Zenon
<1>. QED
  <2>1. \A p \in Pids : Occ(s, p) = 0 => ~ (Occ(s, p) > 0)
    OBVIOUS
  <2>. QED
    BY <2>1, <1>1, <1>2

-----------------------------------------------------------------------------
(* Tables.  u is t with descriptor f of p changed to d.                    *)

Put(t, p, f, d) == [t EXCEPT ![p] = [t[p] EXCEPT ![f] = d]]

\* What the changed table holds.
LEMMA PutAt ==
    ASSUME NEW t, t \in Tables, NEW p \in Pids, NEW f \in Fds, NEW d, d \in Descs
    PROVE  /\ Put(t, p, f, d) \in Tables
           /\ Put(t, p, f, d)[p][f] = d
           /\ \A q \in Pids : \A g \in Fds :
                 q # p \/ g # f => Put(t, p, f, d)[q][g] = t[q][g]
           /\ \A q \in Pids : q # p => Put(t, p, f, d)[q] = t[q]
BY DEF Put, Tables

\* Only descriptor f of p is not the same in t and u.
Apart(t, u, p, f) == \A q \in Pids : \A g \in Fds : q # p \/ g # f => u[q][g] = t[q][g]

HeldSet(t, p, d) == {f \in Fds : t[p][f] = d}

\* Descriptors are counted by naturals.
LEMMA HeldType ==
    ASSUME NEW t, NEW p, NEW d
    PROVE  /\ IsFiniteSet(HeldSet(t, p, d))
           /\ Held(t, p, d) = Cardinality(HeldSet(t, p, d))
           /\ Held(t, p, d) \in Nat
           /\ Held(t, p, d) = 0 <=> \A f \in Fds : t[p][f] # d
<1>. DEFINE S == {f \in Fds : t[p][f] = d}
<1>1. IsFiniteSet(S)
  BY Sizes, FS_Subset
<1>2. Cardinality(S) \in Nat /\ (Cardinality(S) = 0 <=> S = {})
  BY <1>1, FS_CardinalityType, FS_EmptySet
<1>. QED
  BY <1>1, <1>2, Zenon DEF Held, HeldSet

\* One changed descriptor and the numbers of all kinds.
LEMMA HeldPut ==
    ASSUME NEW t, NEW u, NEW p \in Pids, NEW f \in Fds, Apart(t, u, p, f),
           NEW q \in Pids, NEW e
    PROVE  /\ q # p => Held(u, q, e) = Held(t, q, e)
           /\ t[p][f] # e /\ u[p][f] # e => Held(u, q, e) = Held(t, q, e)
           /\ q = p /\ t[p][f] # e /\ u[p][f] = e => Held(u, q, e) = Held(t, q, e) + 1
           /\ q = p /\ t[p][f] = e /\ u[p][f] # e => Held(u, q, e) = Held(t, q, e) + (-1)
<1>. DEFINE S == HeldSet(t, q, e)
            T == HeldSet(u, q, e)
<1>1. IsFiniteSet(S) /\ Held(t, q, e) = Cardinality(S) /\ Held(u, q, e) = Cardinality(T)
  BY HeldType
<1>2. ASSUME q # p PROVE T = S
  BY <1>2 DEF Apart, HeldSet
<1>3. ASSUME t[p][f] # e, u[p][f] # e PROVE T = S
  BY <1>3 DEF Apart, HeldSet
<1>4. ASSUME q = p, t[p][f] # e, u[p][f] = e PROVE Cardinality(T) = Cardinality(S) + 1
  <2>1. f \notin S /\ T = S \cup {f}
    BY <1>4 DEF Apart, HeldSet
  <2>. QED
    BY <2>1, <1>1, OneMore
<1>5. ASSUME q = p, t[p][f] = e, u[p][f] # e PROVE Cardinality(T) = Cardinality(S) + (-1)
  <2>1. f \in S /\ T = S \ {f}
    BY <1>5 DEF Apart, HeldSet
  <2>. QED
    BY <2>1, <1>1, OneLess
<1>. QED
  BY <1>1, <1>2, <1>3, <1>4, <1>5, Zenon

\* The same for all processes and kinds at once.
HeldStep(t, u, p, f) ==
    \A q \in Pids : \A e :
        /\ q # p => Held(u, q, e) = Held(t, q, e)
        /\ t[p][f] # e /\ u[p][f] # e => Held(u, q, e) = Held(t, q, e)
        /\ q = p /\ t[p][f] # e /\ u[p][f] = e => Held(u, q, e) = Held(t, q, e) + 1
        /\ q = p /\ t[p][f] = e /\ u[p][f] # e => Held(u, q, e) = Held(t, q, e) + (-1)

\* One changed descriptor and all the numbers.
LEMMA HeldPuts ==
    ASSUME NEW t, NEW u, NEW p \in Pids, NEW f \in Fds, Apart(t, u, p, f)
    PROVE  HeldStep(t, u, p, f)
<1>. SUFFICES ASSUME NEW q \in Pids, NEW e
              PROVE  /\ q # p => Held(u, q, e) = Held(t, q, e)
                     /\ t[p][f] # e /\ u[p][f] # e => Held(u, q, e) = Held(t, q, e)
                     /\ q = p /\ t[p][f] # e /\ u[p][f] = e =>
                           Held(u, q, e) = Held(t, q, e) + 1
                     /\ q = p /\ t[p][f] = e /\ u[p][f] # e =>
                           Held(u, q, e) = Held(t, q, e) + (-1)
  BY Zenon DEF HeldStep
<1>. QED
  BY HeldPut

UserSet(pr, t, s) == {d \in Pids \X Fds : pr[d[1]] # "new" /\ t[d[1]][d[2]] = End("SOCK", s)}

\* The users of a socket are counted by a natural.
LEMMA UsersType ==
    ASSUME NEW pr, NEW t, NEW s
    PROVE  /\ IsFiniteSet(UserSet(pr, t, s))
           /\ Users(pr, t, s) = Cardinality(UserSet(pr, t, s))
           /\ Users(pr, t, s) \in Nat
           /\ Users(pr, t, s) = 0 <=>
                 \A p \in Pids : \A f \in Fds : pr[p] # "new" => t[p][f] # End("SOCK", s)
<1>1. IsFiniteSet(UserSet(pr, t, s))
  BY Sizes, FS_Subset DEF UserSet
<1>2. /\ Cardinality(UserSet(pr, t, s)) \in Nat
      /\ Cardinality(UserSet(pr, t, s)) = 0 <=> UserSet(pr, t, s) = {}
  BY <1>1, FS_CardinalityType, FS_EmptySet
<1>3. Users(pr, t, s) = Cardinality(UserSet(pr, t, s))
  BY Zenon DEF Users, UserSet
<1>4. UserSet(pr, t, s) = {} <=>
         \A p \in Pids : \A f \in Fds : pr[p] # "new" => t[p][f] # End("SOCK", s)
  <2>1. ASSUME UserSet(pr, t, s) = {}, NEW p \in Pids, NEW f \in Fds, pr[p] # "new"
        PROVE  t[p][f] # End("SOCK", s)
    <3>1. <<p, f>> \in Pids \X Fds /\ <<p, f>>[1] = p /\ <<p, f>>[2] = f
      OBVIOUS
    <3>2. <<p, f>> \notin UserSet(pr, t, s)
      BY <2>1
    <3>. QED
      BY <3>1, <3>2, <2>1 DEF UserSet
  <2>2. ASSUME \A p \in Pids : \A f \in Fds : pr[p] # "new" => t[p][f] # End("SOCK", s),
               NEW d \in UserSet(pr, t, s)
        PROVE  FALSE
    <3>1. d[1] \in Pids /\ d[2] \in Fds /\ pr[d[1]] # "new" /\ t[d[1]][d[2]] = End("SOCK", s)
      BY DEF UserSet
    <3>. QED
      BY <3>1, <2>2
  <2>. QED
    BY <2>1, <2>2
<1>. QED
  BY <1>1, <1>2, <1>3, <1>4

\* The users are the same when descriptors of a socket are held by the same.
LEMMA UsersSame ==
    ASSUME NEW pr, NEW t, NEW qr, NEW u, NEW s,
           \A p \in Pids : \A f \in Fds :
              pr[p] # "new" /\ t[p][f] = End("SOCK", s) <=> qr[p] # "new" /\ u[p][f] = End("SOCK", s)
    PROVE  Users(qr, u, s) = Users(pr, t, s)
<1>1. \A d \in Pids \X Fds : d[1] \in Pids /\ d[2] \in Fds
  OBVIOUS
<1>2. UserSet(pr, t, s) = UserSet(qr, u, s)
  BY <1>1 DEF UserSet
<1>. QED
  <2>1. Users(pr, t, s) = Cardinality(UserSet(pr, t, s))
    BY UsersType
  <2>2. Users(qr, u, s) = Cardinality(UserSet(qr, u, s))
    BY UsersType
  <2>. QED
    BY <1>2, <2>1, <2>2

\* One changed descriptor of a process that counts.
LEMMA UsersPut ==
    ASSUME NEW pr, NEW t, NEW u, NEW p \in Pids, NEW f \in Fds, Apart(t, u, p, f),
           pr[p] # "new", NEW s
    PROVE  /\ t[p][f] # End("SOCK", s) /\ u[p][f] # End("SOCK", s) =>
                 Users(pr, u, s) = Users(pr, t, s)
           /\ t[p][f] # End("SOCK", s) /\ u[p][f] = End("SOCK", s) =>
                 Users(pr, u, s) = Users(pr, t, s) + 1
           /\ t[p][f] = End("SOCK", s) /\ u[p][f] # End("SOCK", s) =>
                 Users(pr, u, s) = Users(pr, t, s) + (-1)
<1>. DEFINE S == UserSet(pr, t, s)
            T == UserSet(pr, u, s)
            e == End("SOCK", s)
<1>1. /\ IsFiniteSet(S) /\ Users(pr, t, s) = Cardinality(S) /\ Users(pr, u, s) = Cardinality(T)
  BY UsersType
<1>2. <<p, f>> \in Pids \X Fds /\ <<p, f>>[1] = p /\ <<p, f>>[2] = f
  OBVIOUS
<1>3. \A d \in Pids \X Fds : d # <<p, f>> => u[d[1]][d[2]] = t[d[1]][d[2]]
  <2>1. ASSUME NEW d \in Pids \X Fds, d # <<p, f>>
        PROVE  d[1] \in Pids /\ d[2] \in Fds /\ (d[1] # p \/ d[2] # f)
    BY <2>1
  <2>. QED
    BY <2>1, Zenon DEF Apart
<1>4. \A d \in Pids \X Fds : d # <<p, f>> => (d \in T <=> d \in S)
  BY <1>3 DEF UserSet
<1>5. S \subseteq Pids \X Fds /\ T \subseteq Pids \X Fds
  BY DEF UserSet
<1>6. (<<p, f>> \in S <=> t[p][f] = e) /\ (<<p, f>> \in T <=> u[p][f] = e)
  BY <1>2 DEF UserSet
<1>. HIDE DEF S, T, e
<1>7. ASSUME t[p][f] # e, u[p][f] # e PROVE T = S
  BY <1>4, <1>5, <1>6, <1>7
<1>8. ASSUME t[p][f] # e, u[p][f] = e PROVE Cardinality(T) = Cardinality(S) + 1
  <2>1. <<p, f>> \notin S /\ T = S \cup {<<p, f>>}
    BY <1>2, <1>4, <1>5, <1>6, <1>8
  <2>. QED
    BY <2>1, <1>1, OneMore
<1>9. ASSUME t[p][f] = e, u[p][f] # e PROVE Cardinality(T) = Cardinality(S) + (-1)
  <2>1. <<p, f>> \in S /\ T = S \ {<<p, f>>}
    BY <1>2, <1>4, <1>5, <1>6, <1>9
  <2>. QED
    BY <2>1, <1>1, OneLess
<1>. QED
  BY <1>1, <1>7, <1>8, <1>9, Zenon DEF e

-----------------------------------------------------------------------------
(* One descriptor changes: what becomes of each part of Owns.              *)

\* A descriptor that is no end of a pipe comes and goes.
LEMMA SideKept ==
    ASSUME NEW pr, NEW t, NEW type, NEW lists, SideFits(pr, t, type, lists),
           NEW u, NEW p \in Pids, NEW f \in Fds, Apart(t, u, p, f),
           t[p][f].type # type, u[p][f].type # type
    PROVE  SideFits(pr, u, type, lists)
<1>1. \A x : t[p][f] # End(type, x) /\ u[p][f] # End(type, x)
  BY DEF End
<1>2. \A q \in Pids : \A x \in Pipes : Held(u, q, End(type, x)) = Held(t, q, End(type, x))
  BY <1>1, HeldPut
<1>. QED
  BY <1>2, Zenon DEF SideFits

\* One end more and one entry more.
LEMMA SidePush ==
    ASSUME NEW pr, NEW t, NEW type, NEW lists, SideFits(pr, t, type, lists),
           NEW u, NEW p \in Pids, NEW f \in Fds, Apart(t, u, p, f),
           NEW x \in Pipes, t[p][f].type # type, u[p][f] = End(type, x), pr[p] = "ready",
           lists[x] \in Seq(Pids),
           NEW longer, longer[x] = Append(lists[x], p),
           \A y \in Pipes : y # x => longer[y] = lists[y]
    PROVE  SideFits(pr, u, type, longer)
<1>a. HeldStep(t, u, p, f)
  BY HeldPuts, Zenon
<1>b. \A e : /\ e = p => Occ(longer[x], e) = Occ(lists[x], e) + 1
             /\ e # p => Occ(longer[x], e) = Occ(lists[x], e)
  BY OccAppend
<1>. SUFFICES ASSUME NEW q \in Pids, NEW y \in Pipes
              PROVE  Fits(pr[q], Occ(longer[y], q), Held(u, q, End(type, y)))
  BY DEF SideFits
<1>1. Fits(pr[q], Occ(lists[y], q), Held(t, q, End(type, y)))
  BY DEF SideFits
<1>2. \A z : t[p][f] # End(type, z)
  BY DEF End
<1>3. y # x => u[p][f] # End(type, y)
  BY DEF End
<1>4. q # p => Held(u, q, End(type, y)) = Held(t, q, End(type, y))
  BY <1>a DEF HeldStep
<1>5. y # x => Held(u, q, End(type, y)) = Held(t, q, End(type, y))
  BY <1>2, <1>3, <1>a DEF HeldStep
<1>6. q = p /\ y = x => Held(u, q, End(type, y)) = Held(t, q, End(type, y)) + 1
  BY <1>2, <1>a DEF HeldStep
<1>7. y # x => Occ(longer[y], q) = Occ(lists[y], q)
  OBVIOUS
<1>8. q # p /\ y = x => Occ(longer[y], q) = Occ(lists[y], q)
  BY <1>b
<1>9. q = p /\ y = x => Occ(longer[y], q) = Occ(lists[y], q) + 1
  BY <1>b
<1>10. CASE q = p /\ y = x
  BY <1>1, <1>6, <1>9, <1>10 DEF Fits
<1>11. CASE ~ (q = p /\ y = x)
  BY <1>1, <1>4, <1>5, <1>7, <1>8, <1>11, Zenon
<1>. QED
  BY <1>10, <1>11

\* Who closes a descriptor of p: p itself, or a process that leaves and takes
\* p with it.
Closer(pr, p, k) ==
    \/ k = p /\ pr[p] \in {"ready", "leaving"}
    \/ pr[k] = "leaving" /\ pr[p] = "victim"

\* One end less, and one entry of k less if there is one.
LEMMA SidePop ==
    ASSUME NEW pr, NEW t, NEW type, NEW lists, SideFits(pr, t, type, lists),
           NEW u, NEW p \in Pids, NEW f \in Fds, Apart(t, u, p, f),
           NEW x \in Pipes, t[p][f] = End(type, x), u[p][f].type # type,
           NEW k \in Pids, Closer(pr, p, k),
           lists[x] \in Seq(Pids),
           NEW shorter, shorter[x] = RemoveFirst(lists[x], k),
           \A y \in Pipes : y # x => shorter[y] = lists[y]
    PROVE  SideFits(pr, u, type, shorter)
<1>a. HeldStep(t, u, p, f)
  BY HeldPuts, Zenon
<1>b. \A e : /\ e # k => Occ(shorter[x], e) = Occ(lists[x], e)
             /\ e = k /\ Occ(lists[x], e) > 0 => Occ(shorter[x], e) = Occ(lists[x], e) + (-1)
             /\ e = k /\ Occ(lists[x], e) = 0 => Occ(shorter[x], e) = Occ(lists[x], e)
  BY OccRemoveFirst
<1>. SUFFICES ASSUME NEW q \in Pids, NEW y \in Pipes
              PROVE  Fits(pr[q], Occ(shorter[y], q), Held(u, q, End(type, y)))
  BY DEF SideFits
<1>1. Fits(pr[q], Occ(lists[y], q), Held(t, q, End(type, y)))
  BY DEF SideFits
<1>2. \A z : u[p][f] # End(type, z)
  BY DEF End
<1>3. y # x => t[p][f] # End(type, y)
  BY DEF End
<1>4. q # p => Held(u, q, End(type, y)) = Held(t, q, End(type, y))
  BY <1>a DEF HeldStep
<1>5. y # x => Held(u, q, End(type, y)) = Held(t, q, End(type, y))
  BY <1>2, <1>3, <1>a DEF HeldStep
<1>6. q = p /\ y = x => Held(u, q, End(type, y)) = Held(t, q, End(type, y)) + (-1)
  BY <1>2, <1>a DEF HeldStep
<1>7. y # x => Occ(shorter[y], q) = Occ(lists[y], q)
  OBVIOUS
<1>8. q # k /\ y = x => Occ(shorter[y], q) = Occ(lists[y], q)
  BY <1>b
<1>9. q = k /\ y = x /\ Occ(lists[y], q) > 0 => Occ(shorter[y], q) = Occ(lists[y], q) + (-1)
  BY <1>b
<1>10. q = k /\ y = x /\ Occ(lists[y], q) = 0 => Occ(shorter[y], q) = Occ(lists[y], q)
  BY <1>b
<1>11. y = x => Occ(lists[y], q) \in Nat
  BY OccType
<1>12. Held(t, q, End(type, y)) \in Nat /\ Held(u, q, End(type, y)) \in Nat
  BY HeldType
<1>13. CASE y # x \/ (q # p /\ q # k)
  BY <1>1, <1>4, <1>5, <1>7, <1>8, <1>13, Zenon
<1>14. CASE y = x /\ q = p /\ q # k
  <2>1. pr[q] = "victim"
    BY <1>14 DEF Closer
  <2>. QED
    BY <2>1 DEF Fits
<1>15. CASE y = x /\ q = k /\ q # p
  <2>1. pr[q] = "leaving"
    BY <1>15 DEF Closer
  <2>2. Occ(lists[y], q) <= Held(t, q, End(type, y))
    BY <1>1, <2>1 DEF Fits
  <2>3. Occ(shorter[y], q) <= Held(u, q, End(type, y))
    BY <2>2, <1>4, <1>9, <1>10, <1>11, <1>12, <1>15
  <2>. QED
    BY <2>1, <2>3 DEF Fits
<1>16. CASE y = x /\ q = p /\ q = k
  <2>1. pr[q] \in {"ready", "leaving", "victim"}
    BY <1>16 DEF Closer
  <2>2. CASE pr[q] = "ready"
    <3>1. Occ(lists[y], q) = Held(t, q, End(type, y))
      BY <1>1, <2>2 DEF Fits
    <3>2. Occ(shorter[y], q) = Held(u, q, End(type, y))
      BY <3>1, <1>6, <1>9, <1>11, <1>12, <1>16
    <3>. QED
      BY <3>2, <2>2 DEF Fits
  <2>3. CASE pr[q] = "leaving"
    <3>1. Occ(lists[y], q) <= Held(t, q, End(type, y))
      BY <1>1, <2>3 DEF Fits
    <3>2. Occ(shorter[y], q) <= Held(u, q, End(type, y))
      BY <3>1, <1>6, <1>9, <1>10, <1>11, <1>12, <1>16
    <3>. QED
      BY <3>2, <2>3 DEF Fits
  <2>4. CASE pr[q] = "victim"
    BY <2>4 DEF Fits
  <2>. QED
    BY <2>1, <2>2, <2>3, <2>4
<1>. QED
  BY <1>13, <1>14, <1>15, <1>16

\* A path is the path of one descriptor.
LEMMA OneOwner ==
    ASSUME NEW t, NEW m, PathsFit(t, m), NEW p \in Pids, NEW q \in Pids,
           NEW f \in Fds, NEW g \in Fds, t[p][f].type = "DIR", t[p][f] = t[q][g]
    PROVE  p = q /\ f = g
BY DEF PathsFit

\* A descriptor that is no directory comes and goes.
LEMMA PathsKept ==
    ASSUME NEW t, NEW m, PathsFit(t, m), NEW u, NEW p \in Pids, NEW f \in Fds,
           Apart(t, u, p, f), t[p][f].type # "DIR", u[p][f].type # "DIR",
           NEW n, n.paths = m.paths
    PROVE  PathsFit(u, n)
<1>1. ASSUME NEW a \in m.paths PROVE \E q \in Pids : \E g \in Fds : u[q][g] = End("DIR", a)
  <2>1. PICK q \in Pids, g \in Fds : t[q][g] = End("DIR", a)
    BY DEF PathsFit
  <2>2. q # p \/ g # f
    BY <2>1 DEF End
  <2>. QED
    BY <2>1, <2>2, Zenon DEF Apart
<1>2. ASSUME NEW q \in Pids, NEW r \in Pids, NEW g \in Fds, NEW h \in Fds,
             u[q][g].type = "DIR", u[q][g] = u[r][h]
      PROVE  q = r /\ g = h
  <2>1. (q # p \/ g # f) /\ (r # p \/ h # f)
    BY <1>2
  <2>2. u[q][g] = t[q][g] /\ u[r][h] = t[r][h]
    BY <2>1, Zenon DEF Apart
  <2>. QED
    <3>1. t[q][g].type = "DIR" /\ t[q][g] = t[r][h]
      BY <2>2, <1>2
    <3>. QED
      BY <3>1, OneOwner
<1>. QED
  BY <1>1, <1>2 DEF PathsFit

\* A new directory has a path of its own.
LEMMA PathsAdd ==
    ASSUME NEW t, NEW m, Shape(t, m), PathsFit(t, m), NEW u, NEW p \in Pids, NEW f \in Fds,
           Apart(t, u, p, f), t[p][f].type # "DIR", NEW a, a \notin m.paths,
           u[p][f] = End("DIR", a), NEW n, n.paths = m.paths \cup {a}
    PROVE  PathsFit(u, n)
<1>1. ASSUME NEW b \in n.paths PROVE \E q \in Pids : \E g \in Fds : u[q][g] = End("DIR", b)
  <2>1. CASE b = a
    BY <2>1
  <2>2. CASE b \in m.paths
    <3>1. PICK q \in Pids, g \in Fds : t[q][g] = End("DIR", b)
      BY <2>2 DEF PathsFit
    <3>2. q # p \/ g # f
      BY <3>1 DEF End
    <3>. QED
      BY <3>1, <3>2, Zenon DEF Apart
  <2>. QED
    BY <2>1, <2>2
<1>2. \A q \in Pids : \A g \in Fds : t[q][g].type = "DIR" => t[q][g].ref \in m.paths
  BY DEF Shape
<1>3. ASSUME NEW q \in Pids, NEW g \in Fds, q # p \/ g # f, u[q][g].type = "DIR"
      PROVE  u[q][g] = t[q][g] /\ u[q][g] # u[p][f]
  <2>1. u[q][g] = t[q][g]
    BY <1>3, Zenon DEF Apart
  <2>2. u[q][g].ref \in m.paths
    BY <2>1, <1>2, <1>3
  <2>3. u[p][f].ref = a
    BY DEF End
  <2>. QED
    BY <2>1, <2>2, <2>3
<1>4. ASSUME NEW q \in Pids, NEW r \in Pids, NEW g \in Fds, NEW h \in Fds,
             u[q][g].type = "DIR", u[q][g] = u[r][h]
      PROVE  q = r /\ g = h
  <2>1. CASE q = p /\ g = f
    BY <2>1, <1>3, <1>4
  <2>2. CASE r = p /\ h = f
    BY <2>2, <1>3, <1>4
  <2>3. CASE (q # p \/ g # f) /\ (r # p \/ h # f)
    <3>1. u[q][g] = t[q][g] /\ u[r][h] = t[r][h]
      BY <2>3, Zenon DEF Apart
    <3>. QED
      <4>1. t[q][g].type = "DIR" /\ t[q][g] = t[r][h]
        BY <3>1, <1>4
      <4>. QED
        BY <4>1, OneOwner
  <2>. QED
    BY <2>1, <2>2, <2>3
<1>. QED
  BY <1>1, <1>4 DEF PathsFit

\* A path goes with its directory.
LEMMA PathsDrop ==
    ASSUME NEW t, NEW m, Shape(t, m), PathsFit(t, m), NEW u, NEW p \in Pids, NEW f \in Fds,
           Apart(t, u, p, f), t[p][f].type = "DIR", u[p][f].type # "DIR",
           NEW n, n.paths = m.paths \ {t[p][f].ref}
    PROVE  /\ PathsFit(u, n)
           /\ \A q \in Pids : \A g \in Fds : u[q][g].type = "DIR" => u[q][g].ref \in n.paths
<1>1. \A q \in Pids : \A g \in Fds :
         /\ t[q][g].type = "DIR" => t[q][g].ref \in m.paths
         /\ t[q][g] \in Descs
  BY DEF Shape, Tables
<1>2. ASSUME NEW q \in Pids, NEW g \in Fds, q # p \/ g # f, u[q][g].type = "DIR"
      PROVE  u[q][g] = t[q][g] /\ u[q][g].ref # t[p][f].ref
  <2>1. u[q][g] = t[q][g]
    BY <1>2, Zenon DEF Apart
  <2>2. t[q][g] # t[p][f]
    BY <2>1, <1>2 DEF PathsFit
  <2>3. t[q][g] \in Descs /\ t[p][f] \in Descs
    BY <1>1
  <2>. QED
    BY <2>1, <2>2, <2>3, <1>2 DEF Descs
<1>3. ASSUME NEW b \in n.paths PROVE \E q \in Pids : \E g \in Fds : u[q][g] = End("DIR", b)
  <2>1. PICK q \in Pids, g \in Fds : t[q][g] = End("DIR", b)
    BY DEF PathsFit
  <2>2. q # p \/ g # f
    BY <2>1 DEF End
  <2>. QED
    BY <2>1, <2>2, Zenon DEF Apart
<1>4. ASSUME NEW q \in Pids, NEW r \in Pids, NEW g \in Fds, NEW h \in Fds,
             u[q][g].type = "DIR", u[q][g] = u[r][h]
      PROVE  q = r /\ g = h
  <2>1. (q # p \/ g # f) /\ (r # p \/ h # f)
    BY <1>4
  <2>2. u[q][g] = t[q][g] /\ u[r][h] = t[r][h]
    BY <2>1, Zenon DEF Apart
  <2>. QED
    <3>1. t[q][g].type = "DIR" /\ t[q][g] = t[r][h]
      BY <2>2, <1>4
    <3>. QED
      BY <3>1, OneOwner
<1>5. ASSUME NEW q \in Pids, NEW g \in Fds, u[q][g].type = "DIR"
      PROVE  u[q][g].ref \in n.paths
  <2>1. q # p \/ g # f
    BY <1>5
  <2>2. u[q][g] = t[q][g] /\ u[q][g].ref # t[p][f].ref
    BY <2>1, <1>2, <1>5
  <2>. QED
    BY <2>2, <1>1, <1>5
<1>. QED
  BY <1>3, <1>4, <1>5 DEF PathsFit

\* A descriptor that is no socket comes and goes.
LEMMA RefsKept ==
    ASSUME NEW pr, NEW t, NEW m, RefsFit(pr, t, m), NEW u, NEW p \in Pids, NEW f \in Fds,
           Apart(t, u, p, f), pr[p] # "new", t[p][f].type # "SOCK", u[p][f].type # "SOCK",
           NEW n, n.socks = m.socks, n.refs = m.refs
    PROVE  RefsFit(pr, u, n)
<1>. SUFFICES ASSUME NEW s \in m.socks PROVE n.refs[s] = Users(pr, u, s)
  BY DEF RefsFit
<1>1. t[p][f] # End("SOCK", s) /\ u[p][f] # End("SOCK", s)
  BY DEF End
<1>2. Users(pr, u, s) = Users(pr, t, s)
  BY <1>1, UsersPut
<1>3. m.refs[s] = Users(pr, t, s)
  BY DEF RefsFit
<1>. QED
  BY <1>2, <1>3

\* One more descriptor of a socket.
LEMMA RefsAdd ==
    ASSUME NEW pr, NEW t, NEW m, RefsFit(pr, t, m), NEW u, NEW p \in Pids, NEW f \in Fds,
           Apart(t, u, p, f), pr[p] # "new", t[p][f].type # "SOCK",
           NEW s \in m.socks, NEW d, d = End("SOCK", s), u[p][f] = d,
           NEW n, n.socks = m.socks, n.refs[s] = m.refs[s] + 1,
           \A o \in m.socks : o # s => n.refs[o] = m.refs[o]
    PROVE  RefsFit(pr, u, n)
<1>. SUFFICES ASSUME NEW o \in m.socks PROVE n.refs[o] = Users(pr, u, o)
  BY DEF RefsFit
<1>1. t[p][f] # End("SOCK", o) /\ (u[p][f] = End("SOCK", o) <=> o = s)
  BY DEF End
<1>2. m.refs[o] = Users(pr, t, o)
  BY DEF RefsFit
<1>3. CASE o = s
  <2>1. Users(pr, u, o) = Users(pr, t, o) + 1
    BY <1>1, <1>3, UsersPut
  <2>. QED
    BY <2>1, <1>2, <1>3
<1>4. CASE o # s
  <2>1. Users(pr, u, o) = Users(pr, t, o)
    BY <1>1, <1>4, UsersPut
  <2>. QED
    BY <2>1, <1>2, <1>4
<1>. QED
  BY <1>3, <1>4

\* One less.
LEMMA RefsDrop ==
    ASSUME NEW pr, NEW t, NEW m, RefsFit(pr, t, m), NEW u, NEW p \in Pids, NEW f \in Fds,
           Apart(t, u, p, f), pr[p] # "new", u[p][f].type # "SOCK",
           NEW s \in m.socks, NEW d, d = End("SOCK", s), t[p][f] = d,
           NEW n, n.socks = m.socks, n.refs[s] = m.refs[s] - 1,
           \A o \in m.socks : o # s => n.refs[o] = m.refs[o]
    PROVE  RefsFit(pr, u, n)
<1>. SUFFICES ASSUME NEW o \in m.socks PROVE n.refs[o] = Users(pr, u, o)
  BY DEF RefsFit
<1>1. u[p][f] # End("SOCK", o) /\ (t[p][f] = End("SOCK", o) <=> o = s)
  BY DEF End
<1>2. m.refs[o] = Users(pr, t, o) /\ Users(pr, t, o) \in Nat
  BY UsersType DEF RefsFit
<1>3. CASE o = s
  <2>1. Users(pr, u, o) = Users(pr, t, o) + (-1)
    BY <1>1, <1>3, UsersPut
  <2>. QED
    BY <2>1, <1>2, <1>3
<1>4. CASE o # s
  <2>1. Users(pr, u, o) = Users(pr, t, o)
    BY <1>1, <1>4, UsersPut
  <2>. QED
    BY <2>1, <1>2, <1>4
<1>. QED
  BY <1>3, <1>4

\* A new socket has one descriptor.
LEMMA RefsNew ==
    ASSUME NEW pr, NEW t, NEW m, Shape(t, m), RefsFit(pr, t, m),
           NEW u, NEW p \in Pids, NEW f \in Fds,
           Apart(t, u, p, f), pr[p] # "new", t[p][f].type # "SOCK",
           NEW s, s \notin m.socks, NEW d, d = End("SOCK", s), u[p][f] = d,
           NEW n, n.socks = m.socks \cup {s}, n.refs[s] = 1,
           \A o \in m.socks : n.refs[o] = m.refs[o]
    PROVE  RefsFit(pr, u, n)
<1>. SUFFICES ASSUME NEW o \in n.socks PROVE n.refs[o] = Users(pr, u, o)
  BY DEF RefsFit
<1>1. t[p][f] # End("SOCK", o) /\ (u[p][f] = End("SOCK", o) <=> o = s)
  BY DEF End
<1>2. CASE o = s
  <2>1. ASSUME NEW q \in Pids, NEW g \in Fds PROVE t[q][g] # End("SOCK", o)
    BY <1>2 DEF Shape, End
  <2>2. Users(pr, t, o) = 0
    BY <2>1, UsersType
  <2>3. Users(pr, u, o) = Users(pr, t, o) + 1
    BY <1>1, <1>2, UsersPut
  <2>. QED
    BY <2>2, <2>3, <1>2
<1>3. CASE o # s
  <2>1. Users(pr, u, o) = Users(pr, t, o)
    BY <1>1, <1>3, UsersPut
  <2>2. m.refs[o] = Users(pr, t, o)
    BY <1>3 DEF RefsFit
  <2>. QED
    BY <2>1, <2>2, <1>3
<1>. QED
  BY <1>2, <1>3

\* The types of the table and the memory after a change of one descriptor.
LEMMA ShapePut ==
    ASSUME NEW t, NEW m, Shape(t, m), NEW u, u \in Tables, NEW p \in Pids, NEW f \in Fds,
           Apart(t, u, p, f), NEW n, n \in Memory, \A x \in Pipes : PipeOK(n.pipes[x]),
           m.socks \subseteq n.socks,
           \A q \in Pids : \A g \in Fds : u[q][g].type = "DIR" => u[q][g].ref \in n.paths,
           IsPipe(u[p][f]) => u[p][f].ref \in Pipes,
           u[p][f].type = "SOCK" => u[p][f].ref \in n.socks
    PROVE  Shape(u, n)
<1>1. ASSUME NEW q \in Pids, NEW g \in Fds
      PROVE  /\ IsPipe(u[q][g]) => u[q][g].ref \in Pipes
             /\ u[q][g].type = "SOCK" => u[q][g].ref \in n.socks
  <2>1. CASE q = p /\ g = f
    BY <2>1
  <2>2. CASE q # p \/ g # f
    <3>1. u[q][g] = t[q][g]
      BY <2>2, Zenon DEF Apart
    <3>2. /\ IsPipe(t[q][g]) => t[q][g].ref \in Pipes
          /\ t[q][g].type = "SOCK" => t[q][g].ref \in m.socks
      BY DEF Shape
    <3>. QED
      BY <3>1, <3>2
  <2>. QED
    BY <2>1, <2>2
<1>. QED
  BY <1>1 DEF Shape

-----------------------------------------------------------------------------
(* The memory: what the calls of the model do to it, part by part.         *)

\* A pipe changes.
LEMMA SwapAt ==
    ASSUME NEW m, m \in Memory, NEW x \in Pipes, NEW pipe, pipe \in PipeRec
    PROVE  LET n == [m EXCEPT !.pipes[x] = pipe]
           IN  /\ n \in Memory
               /\ n.pipes[x] = pipe
               /\ \A y \in Pipes : y # x => n.pipes[y] = m.pipes[y]
               /\ n.paths = m.paths /\ n.socks = m.socks /\ n.refs = m.refs
BY DEF Memory

\* Nobody is left: the pipe is free.
LEMMA FreedAt ==
    ASSUME NEW pipe, pipe \in PipeRec
    PROVE  /\ Freed(pipe) \in PipeRec
           /\ Freed(pipe).readers = pipe.readers
           /\ Freed(pipe).writers = pipe.writers
           /\ pipe.readers # <<>> \/ pipe.writers # <<>> => Freed(pipe).used = pipe.used
           /\ pipe.readers = <<>> /\ pipe.writers = <<>> => ~Freed(pipe).used
<1>1. FreePipe \in PipeRec /\ FreePipe.readers = <<>> /\ FreePipe.writers = <<>> /\ ~FreePipe.used
  BY Sizes DEF FreePipe, PipeRec
<1>. QED
  BY <1>1 DEF Freed

\* An entry of p goes from the readers.
LEMMA PoppedReader ==
    ASSUME NEW pipe, pipe \in PipeRec, PipeOK(pipe), NEW p
    PROVE  /\ Popped(pipe, "readers", p) \in PipeRec
           /\ PipeOK(Popped(pipe, "readers", p))
           /\ Popped(pipe, "readers", p).readers = RemoveFirst(pipe.readers, p)
           /\ Popped(pipe, "readers", p).writers = pipe.writers
<1>. DEFINE r == RemoveFirst(pipe.readers, p)
            s == [pipe EXCEPT !.readers = r]
<1>1. /\ pipe.readers \in Seq(Pids) /\ pipe.writers \in Seq(Pids)
      /\ Len(pipe.readers) <= PIPE_MAX_REF /\ Len(pipe.writers) <= PIPE_MAX_REF
      /\ pipe.used <=> pipe.readers # <<>> \/ pipe.writers # <<>>
  BY DEF PipeRec, PipeOK
<1>2. r \in Seq(Pids) /\ Len(r) <= Len(pipe.readers)
  BY <1>1, OccRemoveFirst
<1>3. Popped(pipe, "readers", p) = Freed(s)
  BY Zenon DEF Popped
<1>. HIDE DEF r
<1>4. /\ s \in PipeRec /\ s.used = pipe.used /\ s.readers = r /\ s.writers = pipe.writers
  BY <1>2 DEF PipeRec
<1>. HIDE DEF s
<1>5. pipe.readers = <<>> => r = <<>>
  BY <1>2
<1>6. Freed(s) \in PipeRec /\ Freed(s).readers = r /\ Freed(s).writers = pipe.writers
  BY <1>4, FreedAt
<1>7. Freed(s).used <=> r # <<>> \/ pipe.writers # <<>>
  BY <1>1, <1>4, <1>5, FreedAt
<1>8. Len(r) <= PIPE_MAX_REF
  BY <1>1, <1>2, Sizes
<1>9. PipeOK(Freed(s))
  BY <1>1, <1>6, <1>7, <1>8 DEF PipeOK
<1>. QED
  BY <1>3, <1>6, <1>9 DEF r

\* An entry of p goes from the writers.
LEMMA PoppedWriter ==
    ASSUME NEW pipe, pipe \in PipeRec, PipeOK(pipe), NEW p
    PROVE  /\ Popped(pipe, "writers", p) \in PipeRec
           /\ PipeOK(Popped(pipe, "writers", p))
           /\ Popped(pipe, "writers", p).writers = RemoveFirst(pipe.writers, p)
           /\ Popped(pipe, "writers", p).readers = pipe.readers
<1>. DEFINE w == RemoveFirst(pipe.writers, p)
            s == [pipe EXCEPT !.writers = w]
<1>1. /\ pipe.readers \in Seq(Pids) /\ pipe.writers \in Seq(Pids)
      /\ Len(pipe.readers) <= PIPE_MAX_REF /\ Len(pipe.writers) <= PIPE_MAX_REF
      /\ pipe.used <=> pipe.readers # <<>> \/ pipe.writers # <<>>
  BY DEF PipeRec, PipeOK
<1>2. w \in Seq(Pids) /\ Len(w) <= Len(pipe.writers)
  BY <1>1, OccRemoveFirst
<1>3. Popped(pipe, "writers", p) = Freed(s)
  BY Zenon DEF Popped
<1>. HIDE DEF w
<1>4. /\ s \in PipeRec /\ s.used = pipe.used /\ s.writers = w /\ s.readers = pipe.readers
  BY <1>2 DEF PipeRec
<1>. HIDE DEF s
<1>5. pipe.writers = <<>> => w = <<>>
  BY <1>2
<1>6. Freed(s) \in PipeRec /\ Freed(s).writers = w /\ Freed(s).readers = pipe.readers
  BY <1>4, FreedAt
<1>7. Freed(s).used <=> pipe.readers # <<>> \/ w # <<>>
  BY <1>1, <1>4, <1>5, FreedAt
<1>8. Len(w) <= PIPE_MAX_REF
  BY <1>1, <1>2, Sizes
<1>9. PipeOK(Freed(s))
  BY <1>1, <1>6, <1>7, <1>8 DEF PipeOK
<1>. QED
  BY <1>3, <1>6, <1>9 DEF w

\* A reader more, in a pipe that is in use and has room.
LEMMA PushedReader ==
    ASSUME NEW m, m \in Memory, NEW x \in Pipes, NEW p \in Pids, PipeOK(m.pipes[x]),
           m.pipes[x].used, HasEntry(m.pipes[x], "readers")
    PROVE  LET n == Pushed(m, x, "readers", p)
           IN  /\ n \in Memory
               /\ PipeOK(n.pipes[x])
               /\ n.pipes[x].readers = Append(m.pipes[x].readers, p)
               /\ n.pipes[x].writers = m.pipes[x].writers
               /\ \A y \in Pipes : y # x => n.pipes[y] = m.pipes[y]
               /\ n.paths = m.paths /\ n.socks = m.socks /\ n.refs = m.refs
<1>. DEFINE r == Append(m.pipes[x].readers, p)
            s == [m.pipes[x] EXCEPT !.readers = r]
<1>1. m.pipes[x] \in PipeRec
  BY DEF Memory
<1>2. m.pipes[x].readers \in Seq(Pids) /\ m.pipes[x].writers \in Seq(Pids)
  BY <1>1 DEF PipeRec
<1>3. r \in Seq(Pids) /\ Len(r) = Len(m.pipes[x].readers) + 1
  BY <1>2
<1>a. Len(m.pipes[x].readers) < PIPE_MAX_REF
  BY Zenon DEF HasEntry
<1>4. Len(r) <= PIPE_MAX_REF /\ r # <<>>
  <2>. HIDE DEF r
  <2>1. Len(m.pipes[x].readers) \in Nat
    BY <1>2
  <2>2. Len(r) <= PIPE_MAX_REF /\ Len(r) # 0
    BY <2>1, <1>a, <1>3, Sizes
  <2>. QED
    BY <2>2
<1>5. Pushed(m, x, "readers", p) = [m EXCEPT !.pipes[x] = s]
  BY Zenon DEF Pushed
<1>. HIDE DEF r
<1>6. s \in PipeRec /\ s.readers = r /\ s.writers = m.pipes[x].writers /\ s.used
  BY <1>1, <1>3 DEF PipeRec
<1>7. PipeOK(s)
  BY <1>4, <1>6 DEF PipeOK
<1>. HIDE DEF s
<1>. PICK n : n = [m EXCEPT !.pipes[x] = s]
  OBVIOUS
<1>8. /\ n \in Memory /\ n.pipes[x] = s
      /\ \A y \in Pipes : y # x => n.pipes[y] = m.pipes[y]
      /\ n.paths = m.paths /\ n.socks = m.socks /\ n.refs = m.refs
  BY <1>6, SwapAt
<1>9. Pushed(m, x, "readers", p) = n
  BY <1>5
<1>. QED
  BY <1>6, <1>7, <1>8, <1>9 DEF r

\* A writer more.
LEMMA PushedWriter ==
    ASSUME NEW m, m \in Memory, NEW x \in Pipes, NEW p \in Pids, PipeOK(m.pipes[x]),
           m.pipes[x].used, HasEntry(m.pipes[x], "writers")
    PROVE  LET n == Pushed(m, x, "writers", p)
           IN  /\ n \in Memory
               /\ PipeOK(n.pipes[x])
               /\ n.pipes[x].writers = Append(m.pipes[x].writers, p)
               /\ n.pipes[x].readers = m.pipes[x].readers
               /\ \A y \in Pipes : y # x => n.pipes[y] = m.pipes[y]
               /\ n.paths = m.paths /\ n.socks = m.socks /\ n.refs = m.refs
<1>. DEFINE w == Append(m.pipes[x].writers, p)
            s == [m.pipes[x] EXCEPT !.writers = w]
<1>1. m.pipes[x] \in PipeRec
  BY DEF Memory
<1>2. m.pipes[x].readers \in Seq(Pids) /\ m.pipes[x].writers \in Seq(Pids)
  BY <1>1 DEF PipeRec
<1>3. w \in Seq(Pids) /\ Len(w) = Len(m.pipes[x].writers) + 1
  BY <1>2
<1>a. Len(m.pipes[x].writers) < PIPE_MAX_REF
  BY Zenon DEF HasEntry
<1>4. Len(w) <= PIPE_MAX_REF /\ w # <<>>
  <2>. HIDE DEF w
  <2>1. Len(m.pipes[x].writers) \in Nat
    BY <1>2
  <2>2. Len(w) <= PIPE_MAX_REF /\ Len(w) # 0
    BY <2>1, <1>a, <1>3, Sizes
  <2>. QED
    BY <2>2
<1>5. Pushed(m, x, "writers", p) = [m EXCEPT !.pipes[x] = s]
  BY Zenon DEF Pushed
<1>. HIDE DEF w
<1>6. s \in PipeRec /\ s.writers = w /\ s.readers = m.pipes[x].readers /\ s.used
  BY <1>1, <1>3 DEF PipeRec
<1>7. PipeOK(s)
  BY <1>4, <1>6 DEF PipeOK
<1>. HIDE DEF s
<1>. PICK n : n = [m EXCEPT !.pipes[x] = s]
  OBVIOUS
<1>8. /\ n \in Memory /\ n.pipes[x] = s
      /\ \A y \in Pipes : y # x => n.pipes[y] = m.pipes[y]
      /\ n.paths = m.paths /\ n.socks = m.socks /\ n.refs = m.refs
  BY <1>6, SwapAt
<1>9. Pushed(m, x, "writers", p) = n
  BY <1>5
<1>. QED
  BY <1>6, <1>7, <1>8, <1>9 DEF w

-----------------------------------------------------------------------------
(* Closing a descriptor.                                                   *)

\* What fm_close_data does, by the type of the descriptor.
LEMMA ClosedCases ==
    ASSUME NEW m, NEW d, NEW k
    PROVE  /\ d.type = "DIR" => Closed(m, d, k) = [m EXCEPT !.paths = m.paths \ {d.ref}]
           /\ d.type = "SOCK" => Closed(m, d, k) = [m EXCEPT !.refs[d.ref] = @ - 1]
           /\ d.type = "PPRD" =>
                 Closed(m, d, k) = [m EXCEPT !.pipes[d.ref] = Popped(@, "readers", k)]
           /\ d.type = "PPWR" =>
                 Closed(m, d, k) = [m EXCEPT !.pipes[d.ref] = Popped(@, "writers", k)]
           /\ d.type \in {"FREE", "FILE"} => Closed(m, d, k) = m
BY DEF Closed, IsPipe, Side

\* u is t with descriptor f of p closed.
Cleared(t, u, p, f) == u \in Tables /\ u[p][f] = FreeFd /\ Apart(t, u, p, f)

\* What a descriptor of a table is.
LEMMA DescAt ==
    ASSUME NEW t, NEW m, Shape(t, m), NEW p \in Pids, NEW f \in Fds, NEW d, d = t[p][f]
    PROVE  /\ d \in Descs /\ d = End(d.type, d.ref)
           /\ d.type = "PPRD" => d.ref \in Pipes
           /\ d.type = "PPWR" => d.ref \in Pipes
           /\ d.type = "SOCK" => d.ref \in m.socks
           /\ d.type = "DIR" => d.ref \in m.paths
<1>1. d \in Descs
  BY DEF Shape, Tables
<1>2. d = End(d.type, d.ref)
  BY <1>1 DEF Descs, End
<1>3. /\ IsPipe(d) => d.ref \in Pipes
      /\ d.type = "SOCK" => d.ref \in m.socks
      /\ d.type = "DIR" => d.ref \in m.paths
  BY DEF Shape
<1>4. (d.type = "PPRD" => IsPipe(d)) /\ (d.type = "PPWR" => IsPipe(d))
  BY DEF IsPipe
<1>. QED
  BY <1>1, <1>2, <1>3, <1>4

\* A closed descriptor is of no type that counts.
LEMMA FreeTypes ==
    FreeFd.type = "FREE" /\ ~IsPipe(FreeFd) /\ FreeFd \in Descs
BY DEF FreeFd, IsPipe, Descs, FdTypes

\* What Shape says of the memory.
LEMMA ShapeAt ==
    ASSUME NEW t, NEW m, Shape(t, m)
    PROVE  /\ t \in Tables /\ m \in Memory
           /\ \A x \in Pipes : PipeOK(m.pipes[x]) /\ m.pipes[x] \in PipeRec
           /\ \A x \in Pipes : m.pipes[x].readers \in Seq(Pids) /\ m.pipes[x].writers \in Seq(Pids)
           /\ \A x \in Pipes : Readers(m)[x] = m.pipes[x].readers /\ Writers(m)[x] = m.pipes[x].writers
           /\ \A q \in Pids : \A g \in Fds : t[q][g].type = "DIR" => t[q][g].ref \in m.paths
<1>1. \A x \in Pipes : m.pipes[x] \in PipeRec
  BY DEF Shape, Memory
<1>2. \A x \in Pipes : m.pipes[x].readers \in Seq(Pids) /\ m.pipes[x].writers \in Seq(Pids)
  BY <1>1 DEF PipeRec
<1>. QED
  BY <1>1, <1>2 DEF Shape, Readers, Writers

\* Directories of a table with one descriptor changed to something else.
LEMMA DirsKept ==
    ASSUME NEW t, NEW m, Shape(t, m), NEW u, NEW p \in Pids, NEW f \in Fds, Apart(t, u, p, f),
           u[p][f].type # "DIR"
    PROVE  \A q \in Pids : \A g \in Fds : u[q][g].type = "DIR" => u[q][g].ref \in m.paths
<1>. SUFFICES ASSUME NEW q \in Pids, NEW g \in Fds, u[q][g].type = "DIR"
              PROVE  u[q][g].ref \in m.paths
  OBVIOUS
<1>1. q # p \/ g # f
  OBVIOUS
<1>2. u[q][g] = t[q][g]
  BY <1>1, Zenon DEF Apart
<1>. QED
  BY <1>2, ShapeAt

\* A file is closed.
LEMMA CloseFile ==
    ASSUME NEW pr, NEW t, NEW m, Owns(pr, t, m), NEW p \in Pids, NEW f \in Fds, pr[p] # "new",
           NEW u, Cleared(t, u, p, f), t[p][f].type \in {"FREE", "FILE"}
    PROVE  Owns(pr, u, m)
<1>1. /\ u \in Tables /\ Apart(t, u, p, f)
      /\ u[p][f].type \notin {"PPRD", "PPWR", "SOCK", "DIR"} /\ ~IsPipe(u[p][f])
  BY FreeTypes DEF Cleared
<1>2. Shape(t, m) /\ Listed(pr, t, m) /\ PathsFit(t, m) /\ RefsFit(pr, t, m)
  BY DEF Owns
<1>3. \A q \in Pids : \A g \in Fds : u[q][g].type = "DIR" => u[q][g].ref \in m.paths
  BY <1>1, <1>2, DirsKept
<1>4. Shape(u, m)
  BY <1>1, <1>2, <1>3, ShapeAt, ShapePut
<1>5. t[p][f].type \notin {"PPRD", "PPWR", "SOCK", "DIR"}
  OBVIOUS
<1>6. Listed(pr, u, m)
  BY <1>1, <1>2, <1>5, SideKept DEF Listed
<1>7. PathsFit(u, m)
  BY <1>1, <1>2, <1>5, PathsKept
<1>8. RefsFit(pr, u, m)
  BY <1>1, <1>2, <1>5, RefsKept
<1>. QED
  BY <1>4, <1>6, <1>7, <1>8 DEF Owns

\* A directory is closed.
LEMMA CloseDir ==
    ASSUME NEW pr, NEW t, NEW m, Owns(pr, t, m), NEW p \in Pids, NEW f \in Fds, pr[p] # "new",
           NEW u, Cleared(t, u, p, f), t[p][f].type = "DIR"
    PROVE  Owns(pr, u, [m EXCEPT !.paths = m.paths \ {t[p][f].ref}])
<1>1. /\ u \in Tables /\ Apart(t, u, p, f)
      /\ u[p][f].type \notin {"PPRD", "PPWR", "SOCK", "DIR"} /\ ~IsPipe(u[p][f])
  BY FreeTypes DEF Cleared
<1>2. Shape(t, m) /\ Listed(pr, t, m) /\ PathsFit(t, m) /\ RefsFit(pr, t, m)
  BY DEF Owns
<1>a. PICK a : a = t[p][f].ref
  OBVIOUS
<1>n. PICK n : n = [m EXCEPT !.paths = m.paths \ {a}]
  OBVIOUS
<1>b. m \in Memory
  BY <1>2, ShapeAt
<1>3. /\ n \in Memory /\ n.pipes = m.pipes /\ n.socks = m.socks /\ n.refs = m.refs
      /\ n.paths = m.paths \ {a}
  BY <1>b, <1>n DEF Memory
<1>c. n.paths = m.paths \ {t[p][f].ref}
  BY <1>a, <1>3
<1>4. PathsFit(u, n) /\ \A q \in Pids : \A g \in Fds : u[q][g].type = "DIR" => u[q][g].ref \in n.paths
  BY <1>1, <1>2, <1>c, PathsDrop
<1>5. \A x \in Pipes : PipeOK(n.pipes[x])
  BY <1>2, <1>3, ShapeAt
<1>6. Shape(u, n)
  BY <1>1, <1>2, <1>3, <1>4, <1>5, ShapePut
<1>7. t[p][f].type \notin {"PPRD", "PPWR", "SOCK"}
  OBVIOUS
<1>8. Readers(n) = Readers(m) /\ Writers(n) = Writers(m)
  BY <1>3 DEF Readers, Writers
<1>9. Listed(pr, u, n)
  BY <1>1, <1>2, <1>7, <1>8, SideKept DEF Listed
<1>10. RefsFit(pr, u, n)
  BY <1>1, <1>2, <1>3, <1>7, RefsKept
<1>. QED
  BY <1>4, <1>6, <1>9, <1>10, <1>a, <1>n DEF Owns

\* A socket is closed.
LEMMA CloseSocket ==
    ASSUME NEW pr, NEW t, NEW m, Owns(pr, t, m), NEW p \in Pids, NEW f \in Fds, pr[p] # "new",
           NEW u, Cleared(t, u, p, f), t[p][f].type = "SOCK"
    PROVE  Owns(pr, u, [m EXCEPT !.refs[t[p][f].ref] = @ - 1])
<1>1. /\ u \in Tables /\ Apart(t, u, p, f)
      /\ u[p][f].type \notin {"PPRD", "PPWR", "SOCK", "DIR"} /\ ~IsPipe(u[p][f])
  BY FreeTypes DEF Cleared
<1>2. Shape(t, m) /\ Listed(pr, t, m) /\ PathsFit(t, m) /\ RefsFit(pr, t, m)
  BY DEF Owns
<1>s. PICK s : s = t[p][f].ref
  OBVIOUS
<1>d. PICK d : d = End("SOCK", s)
  OBVIOUS
<1>3. s \in m.socks /\ t[p][f] = d
  BY <1>2, <1>s, <1>d, DescAt
<1>b. m \in Memory
  BY <1>2, ShapeAt
<1>n. PICK n : n = [m EXCEPT !.refs[s] = @ - 1]
  OBVIOUS
<1>4. m.socks \subseteq Socks /\ m.refs \in [Socks -> Int]
  BY <1>b DEF Memory
<1>5. /\ n \in Memory /\ n.pipes = m.pipes /\ n.socks = m.socks /\ n.paths = m.paths
      /\ n.refs[s] = m.refs[s] - 1
      /\ \A o \in m.socks : o # s => n.refs[o] = m.refs[o]
  BY <1>b, <1>n, <1>3, <1>4 DEF Memory
<1>6. \A q \in Pids : \A g \in Fds : u[q][g].type = "DIR" => u[q][g].ref \in n.paths
  BY <1>1, <1>2, <1>5, DirsKept
<1>7. \A x \in Pipes : PipeOK(n.pipes[x])
  BY <1>2, <1>5, ShapeAt
<1>8. Shape(u, n)
  BY <1>1, <1>2, <1>5, <1>6, <1>7, ShapePut
<1>9. t[p][f].type \notin {"PPRD", "PPWR", "DIR"}
  OBVIOUS
<1>10. Readers(n) = Readers(m) /\ Writers(n) = Writers(m)
  BY <1>5 DEF Readers, Writers
<1>11. Listed(pr, u, n)
  BY <1>1, <1>2, <1>9, <1>10, SideKept DEF Listed
<1>12. PathsFit(u, n)
  BY <1>1, <1>2, <1>5, <1>9, PathsKept
<1>13. RefsFit(pr, u, n)
  BY <1>1, <1>2, <1>3, <1>5, <1>d, RefsDrop
<1>. QED
  BY <1>8, <1>11, <1>12, <1>13, <1>s, <1>n DEF Owns

\* The end to read of a pipe is closed.
LEMMA CloseReader ==
    ASSUME NEW pr, NEW t, NEW m, Owns(pr, t, m), NEW p \in Pids, NEW f \in Fds, pr[p] # "new",
           NEW u, Cleared(t, u, p, f), t[p][f].type = "PPRD", NEW k \in Pids, Closer(pr, p, k)
    PROVE  Owns(pr, u, [m EXCEPT !.pipes[t[p][f].ref] = Popped(@, "readers", k)])
<1>1. /\ u \in Tables /\ Apart(t, u, p, f)
      /\ u[p][f].type \notin {"PPRD", "PPWR", "SOCK", "DIR"} /\ ~IsPipe(u[p][f])
  BY FreeTypes DEF Cleared
<1>2. Shape(t, m) /\ Listed(pr, t, m) /\ PathsFit(t, m) /\ RefsFit(pr, t, m)
  BY DEF Owns
<1>x. PICK x : x = t[p][f].ref
  OBVIOUS
<1>3. x \in Pipes /\ t[p][f] = End("PPRD", x)
  BY <1>2, <1>x, DescAt
<1>4. PipeOK(m.pipes[x]) /\ m.pipes[x] \in PipeRec /\ m.pipes[x].readers \in Seq(Pids)
  BY <1>2, <1>3, ShapeAt
<1>e. PICK pipe : pipe = Popped(m.pipes[x], "readers", k)
  OBVIOUS
<1>5. /\ pipe \in PipeRec /\ PipeOK(pipe)
      /\ pipe.readers = RemoveFirst(m.pipes[x].readers, k) /\ pipe.writers = m.pipes[x].writers
  BY <1>4, <1>e, PoppedReader
<1>n. PICK n : n = [m EXCEPT !.pipes[x] = pipe]
  OBVIOUS
<1>b. m \in Memory
  BY <1>2, ShapeAt
<1>6. /\ n \in Memory /\ n.pipes[x] = pipe
      /\ \A y \in Pipes : y # x => n.pipes[y] = m.pipes[y]
      /\ n.paths = m.paths /\ n.socks = m.socks /\ n.refs = m.refs
  BY <1>b, <1>n, <1>3, <1>5, SwapAt
<1>7. \A q \in Pids : \A g \in Fds : u[q][g].type = "DIR" => u[q][g].ref \in n.paths
  BY <1>1, <1>2, <1>6, DirsKept
<1>8. \A y \in Pipes : PipeOK(n.pipes[y])
  BY <1>2, <1>5, <1>6, ShapeAt
<1>9. Shape(u, n)
  BY <1>1, <1>2, <1>6, <1>7, <1>8, ShapePut
<1>10. Writers(n) = Writers(m)
  BY <1>5, <1>6 DEF Writers
<1>11. /\ Readers(n)[x] = RemoveFirst(Readers(m)[x], k)
       /\ Readers(m)[x] \in Seq(Pids)
       /\ \A y \in Pipes : y # x => Readers(n)[y] = Readers(m)[y]
  BY <1>3, <1>4, <1>5, <1>6 DEF Readers
<1>12. SideFits(pr, u, "PPRD", Readers(n))
  BY <1>1, <1>2, <1>3, <1>11, SidePop DEF Listed
<1>13. SideFits(pr, u, "PPWR", Writers(n))
  BY <1>1, <1>2, <1>10, SideKept DEF Listed
<1>14. PathsFit(u, n)
  BY <1>1, <1>2, <1>6, PathsKept
<1>15. RefsFit(pr, u, n)
  BY <1>1, <1>2, <1>6, RefsKept
<1>16. n = [m EXCEPT !.pipes[t[p][f].ref] = Popped(@, "readers", k)]
  BY <1>n, <1>e, <1>x
<1>. QED
  BY <1>9, <1>12, <1>13, <1>14, <1>15, <1>16 DEF Owns, Listed

\* The end to write of a pipe is closed.
LEMMA CloseWriter ==
    ASSUME NEW pr, NEW t, NEW m, Owns(pr, t, m), NEW p \in Pids, NEW f \in Fds, pr[p] # "new",
           NEW u, Cleared(t, u, p, f), t[p][f].type = "PPWR", NEW k \in Pids, Closer(pr, p, k)
    PROVE  Owns(pr, u, [m EXCEPT !.pipes[t[p][f].ref] = Popped(@, "writers", k)])
<1>1. /\ u \in Tables /\ Apart(t, u, p, f)
      /\ u[p][f].type \notin {"PPRD", "PPWR", "SOCK", "DIR"} /\ ~IsPipe(u[p][f])
  BY FreeTypes DEF Cleared
<1>2. Shape(t, m) /\ Listed(pr, t, m) /\ PathsFit(t, m) /\ RefsFit(pr, t, m)
  BY DEF Owns
<1>x. PICK x : x = t[p][f].ref
  OBVIOUS
<1>3. x \in Pipes /\ t[p][f] = End("PPWR", x)
  BY <1>2, <1>x, DescAt
<1>4. PipeOK(m.pipes[x]) /\ m.pipes[x] \in PipeRec /\ m.pipes[x].writers \in Seq(Pids)
  BY <1>2, <1>3, ShapeAt
<1>e. PICK pipe : pipe = Popped(m.pipes[x], "writers", k)
  OBVIOUS
<1>5. /\ pipe \in PipeRec /\ PipeOK(pipe)
      /\ pipe.writers = RemoveFirst(m.pipes[x].writers, k) /\ pipe.readers = m.pipes[x].readers
  BY <1>4, <1>e, PoppedWriter
<1>n. PICK n : n = [m EXCEPT !.pipes[x] = pipe]
  OBVIOUS
<1>b. m \in Memory
  BY <1>2, ShapeAt
<1>6. /\ n \in Memory /\ n.pipes[x] = pipe
      /\ \A y \in Pipes : y # x => n.pipes[y] = m.pipes[y]
      /\ n.paths = m.paths /\ n.socks = m.socks /\ n.refs = m.refs
  BY <1>b, <1>n, <1>3, <1>5, SwapAt
<1>7. \A q \in Pids : \A g \in Fds : u[q][g].type = "DIR" => u[q][g].ref \in n.paths
  BY <1>1, <1>2, <1>6, DirsKept
<1>8. \A y \in Pipes : PipeOK(n.pipes[y])
  BY <1>2, <1>5, <1>6, ShapeAt
<1>9. Shape(u, n)
  BY <1>1, <1>2, <1>6, <1>7, <1>8, ShapePut
<1>10. Readers(n) = Readers(m)
  BY <1>5, <1>6 DEF Readers
<1>11. /\ Writers(n)[x] = RemoveFirst(Writers(m)[x], k)
       /\ Writers(m)[x] \in Seq(Pids)
       /\ \A y \in Pipes : y # x => Writers(n)[y] = Writers(m)[y]
  BY <1>3, <1>4, <1>5, <1>6 DEF Writers
<1>12. SideFits(pr, u, "PPWR", Writers(n))
  BY <1>1, <1>2, <1>3, <1>11, SidePop DEF Listed
<1>13. SideFits(pr, u, "PPRD", Readers(n))
  BY <1>1, <1>2, <1>10, SideKept DEF Listed
<1>14. PathsFit(u, n)
  BY <1>1, <1>2, <1>6, PathsKept
<1>15. RefsFit(pr, u, n)
  BY <1>1, <1>2, <1>6, RefsKept
<1>16. n = [m EXCEPT !.pipes[t[p][f].ref] = Popped(@, "writers", k)]
  BY <1>n, <1>e, <1>x
<1>. QED
  BY <1>9, <1>12, <1>13, <1>14, <1>15, <1>16 DEF Owns, Listed

\* A descriptor is closed.
LEMMA CloseKeeps ==
    ASSUME NEW pr, NEW t, NEW m, Owns(pr, t, m), NEW p \in Pids, NEW f \in Fds,
           NEW k \in Pids, Closer(pr, p, k), NEW u, Cleared(t, u, p, f)
    PROVE  Owns(pr, u, Closed(m, t[p][f], k))
<1>1. pr[p] # "new"
  BY DEF Closer
<1>2. t[p][f].type \in FdTypes
  <2>1. t[p][f] \in Descs
    BY DescAt DEF Owns
  <2>. QED
    BY <2>1 DEF Descs
<1>3. CASE t[p][f].type \in {"FREE", "FILE"}
  BY <1>1, <1>3, ClosedCases, CloseFile
<1>4. CASE t[p][f].type = "DIR"
  BY <1>1, <1>4, ClosedCases, CloseDir
<1>5. CASE t[p][f].type = "SOCK"
  BY <1>1, <1>5, ClosedCases, CloseSocket
<1>6. CASE t[p][f].type = "PPRD"
  BY <1>1, <1>6, ClosedCases, CloseReader
<1>7. CASE t[p][f].type = "PPWR"
  BY <1>1, <1>7, ClosedCases, CloseWriter
<1>. QED
  BY <1>2, <1>3, <1>4, <1>5, <1>6, <1>7 DEF FdTypes

-----------------------------------------------------------------------------
(* Opening and copying a descriptor.                                       *)

\* u is t with d in the free descriptor f of p.
Filled(t, u, p, f, d) ==
    t[p][f].type = "FREE" /\ u \in Tables /\ u[p][f] = d /\ Apart(t, u, p, f)

\* The types of a descriptor that was free and is of the given type now.
LEMMA FilledAt ==
    ASSUME NEW t, NEW u, NEW p, NEW f, NEW d, Filled(t, u, p, f, d), NEW type, d.type = type
    PROVE  /\ u \in Tables /\ Apart(t, u, p, f)
           /\ t[p][f].type \notin {"PPRD", "PPWR", "SOCK", "DIR"}
           /\ u[p][f].type = type
           /\ IsPipe(u[p][f]) <=> type \in {"PPRD", "PPWR"}
BY DEF Filled, IsPipe

\* A file takes nothing.
LEMMA GrowFile ==
    ASSUME NEW pr, NEW t, NEW m, Owns(pr, t, m), NEW p \in Pids, NEW f \in Fds, pr[p] = "ready",
           NEW d, d.type \in {"FREE", "FILE"}, NEW u, Filled(t, u, p, f, d)
    PROVE  Owns(pr, u, m)
<1>1. /\ u \in Tables /\ Apart(t, u, p, f) /\ pr[p] # "new"
      /\ t[p][f].type \notin {"PPRD", "PPWR", "SOCK", "DIR"}
      /\ u[p][f].type \notin {"PPRD", "PPWR", "SOCK", "DIR"} /\ ~IsPipe(u[p][f])
  BY FilledAt
<1>2. Shape(t, m) /\ Listed(pr, t, m) /\ PathsFit(t, m) /\ RefsFit(pr, t, m)
  BY DEF Owns
<1>3. \A q \in Pids : \A g \in Fds : u[q][g].type = "DIR" => u[q][g].ref \in m.paths
  BY <1>1, <1>2, DirsKept
<1>4. Shape(u, m)
  BY <1>1, <1>2, <1>3, ShapeAt, ShapePut
<1>5. Listed(pr, u, m)
  BY <1>1, <1>2, SideKept DEF Listed
<1>6. PathsFit(u, m)
  BY <1>1, <1>2, PathsKept
<1>7. RefsFit(pr, u, m)
  BY <1>1, <1>2, RefsKept
<1>. QED
  BY <1>4, <1>5, <1>6, <1>7 DEF Owns

\* A directory takes a new path.
LEMMA GrowDir ==
    ASSUME NEW pr, NEW t, NEW m, Owns(pr, t, m), NEW p \in Pids, NEW f \in Fds, pr[p] = "ready",
           NEW a \in Paths, a \notin m.paths, NEW u, Filled(t, u, p, f, End("DIR", a))
    PROVE  Owns(pr, u, [m EXCEPT !.paths = @ \cup {a}])
<1>d. PICK d : d = End("DIR", a)
  OBVIOUS
<1>a. d.type = "DIR" /\ d.ref = a /\ Filled(t, u, p, f, d)
  BY <1>d DEF End
<1>1. /\ u \in Tables /\ Apart(t, u, p, f) /\ pr[p] # "new"
      /\ t[p][f].type \notin {"PPRD", "PPWR", "SOCK", "DIR"}
      /\ u[p][f].type \notin {"PPRD", "PPWR", "SOCK"} /\ ~IsPipe(u[p][f])
  BY <1>a, FilledAt
<1>2. Shape(t, m) /\ Listed(pr, t, m) /\ PathsFit(t, m) /\ RefsFit(pr, t, m)
  BY DEF Owns
<1>n. PICK n : n = [m EXCEPT !.paths = @ \cup {a}]
  OBVIOUS
<1>b. m \in Memory
  BY <1>2, ShapeAt
<1>3. /\ n \in Memory /\ n.pipes = m.pipes /\ n.socks = m.socks /\ n.refs = m.refs
      /\ n.paths = m.paths \cup {a}
  BY <1>b, <1>n DEF Memory
<1>4. u[p][f] = End("DIR", a)
  BY DEF Filled
<1>5. PathsFit(u, n)
  BY <1>1, <1>2, <1>3, <1>4, PathsAdd
<1>6. ASSUME NEW q \in Pids, NEW g \in Fds, u[q][g].type = "DIR"
      PROVE  u[q][g].ref \in n.paths
  <2>1. CASE q = p /\ g = f
    BY <2>1, <1>3, <1>4 DEF End
  <2>2. CASE q # p \/ g # f
    <3>1. u[q][g] = t[q][g]
      BY <2>2, <1>1, Zenon DEF Apart
    <3>. QED
      BY <3>1, <1>2, <1>3, <1>6, ShapeAt
  <2>. QED
    BY <2>1, <2>2
<1>7. \A x \in Pipes : PipeOK(n.pipes[x])
  BY <1>2, <1>3, ShapeAt
<1>8. Shape(u, n)
  BY <1>1, <1>2, <1>3, <1>6, <1>7, ShapePut
<1>9. Readers(n) = Readers(m) /\ Writers(n) = Writers(m)
  BY <1>3 DEF Readers, Writers
<1>10. Listed(pr, u, n)
  <2>1. u[p][f].type # "PPRD" /\ u[p][f].type # "PPWR" /\ t[p][f].type # "PPRD" /\ t[p][f].type # "PPWR"
    BY <1>1
  <2>. QED
    BY <1>1, <1>2, <1>9, <2>1, SideKept DEF Listed
<1>11. RefsFit(pr, u, n)
  BY <1>1, <1>2, <1>3, RefsKept
<1>. QED
  BY <1>5, <1>8, <1>10, <1>11, <1>n DEF Owns

\* A socket is counted once more.
LEMMA GrowSocket ==
    ASSUME NEW pr, NEW t, NEW m, Owns(pr, t, m), NEW p \in Pids, NEW f \in Fds, pr[p] = "ready",
           NEW s \in m.socks, NEW u, Filled(t, u, p, f, End("SOCK", s))
    PROVE  Owns(pr, u, [m EXCEPT !.refs[s] = @ + 1])
<1>d. PICK d : d = End("SOCK", s)
  OBVIOUS
<1>a. d.type = "SOCK" /\ d.ref = s /\ Filled(t, u, p, f, d)
  BY <1>d DEF End
<1>1. /\ u \in Tables /\ Apart(t, u, p, f) /\ pr[p] # "new"
      /\ t[p][f].type \notin {"PPRD", "PPWR", "SOCK", "DIR"}
      /\ u[p][f].type \notin {"PPRD", "PPWR", "DIR"} /\ ~IsPipe(u[p][f])
  BY <1>a, FilledAt
<1>2. Shape(t, m) /\ Listed(pr, t, m) /\ PathsFit(t, m) /\ RefsFit(pr, t, m)
  BY DEF Owns
<1>n. PICK n : n = [m EXCEPT !.refs[s] = @ + 1]
  OBVIOUS
<1>b. m \in Memory
  BY <1>2, ShapeAt
<1>c. m.socks \subseteq Socks /\ m.refs \in [Socks -> Int]
  BY <1>b DEF Memory
<1>3. /\ n \in Memory /\ n.pipes = m.pipes /\ n.socks = m.socks /\ n.paths = m.paths
      /\ n.refs[s] = m.refs[s] + 1
      /\ \A o \in m.socks : o # s => n.refs[o] = m.refs[o]
  BY <1>b, <1>c, <1>n DEF Memory
<1>4. u[p][f] = d
  BY <1>d DEF Filled
<1>5. \A q \in Pids : \A g \in Fds : u[q][g].type = "DIR" => u[q][g].ref \in n.paths
  BY <1>1, <1>2, <1>3, DirsKept
<1>6. \A x \in Pipes : PipeOK(n.pipes[x])
  BY <1>2, <1>3, ShapeAt
<1>7. u[p][f].ref \in n.socks
  BY <1>a, <1>4, <1>3
<1>8. Shape(u, n)
  BY <1>1, <1>2, <1>3, <1>5, <1>6, <1>7, ShapePut
<1>9. Readers(n) = Readers(m) /\ Writers(n) = Writers(m)
  BY <1>3 DEF Readers, Writers
<1>10. Listed(pr, u, n)
  <2>1. u[p][f].type # "PPRD" /\ u[p][f].type # "PPWR" /\ t[p][f].type # "PPRD" /\ t[p][f].type # "PPWR"
    BY <1>1
  <2>. QED
    BY <1>1, <1>2, <1>9, <2>1, SideKept DEF Listed
<1>11. PathsFit(u, n)
  BY <1>1, <1>2, <1>3, PathsKept
<1>12. RefsFit(pr, u, n)
  <2>1. t[p][f].type # "SOCK"
    BY <1>1
  <2>. QED
    BY <1>1, <1>2, <1>3, <1>4, <1>d, <2>1, RefsAdd
<1>. QED
  BY <1>8, <1>10, <1>11, <1>12, <1>n DEF Owns

\* A new socket is counted once.
LEMMA NewSocket ==
    ASSUME NEW pr, NEW t, NEW m, Owns(pr, t, m), NEW p \in Pids, NEW f \in Fds, pr[p] = "ready",
           NEW s \in Socks, s \notin m.socks, NEW u, Filled(t, u, p, f, End("SOCK", s))
    PROVE  Owns(pr, u, [m EXCEPT !.socks = @ \cup {s}, !.refs[s] = 1])
<1>d. PICK d : d = End("SOCK", s)
  OBVIOUS
<1>a. d.type = "SOCK" /\ d.ref = s /\ Filled(t, u, p, f, d)
  BY <1>d DEF End
<1>1. /\ u \in Tables /\ Apart(t, u, p, f) /\ pr[p] # "new"
      /\ t[p][f].type \notin {"PPRD", "PPWR", "SOCK", "DIR"}
      /\ u[p][f].type \notin {"PPRD", "PPWR", "DIR"} /\ ~IsPipe(u[p][f])
  BY <1>a, FilledAt
<1>2. Shape(t, m) /\ Listed(pr, t, m) /\ PathsFit(t, m) /\ RefsFit(pr, t, m)
  BY DEF Owns
<1>n. PICK n : n = [m EXCEPT !.socks = @ \cup {s}, !.refs[s] = 1]
  OBVIOUS
<1>b. m \in Memory
  BY <1>2, ShapeAt
<1>c. m.socks \subseteq Socks /\ m.refs \in [Socks -> Int]
  BY <1>b DEF Memory
<1>3. /\ n \in Memory /\ n.pipes = m.pipes /\ n.socks = m.socks \cup {s} /\ n.paths = m.paths
      /\ n.refs[s] = 1
      /\ \A o \in m.socks : n.refs[o] = m.refs[o]
  <2>1. n = [pipes |-> m.pipes, paths |-> m.paths, socks |-> m.socks \cup {s},
             refs |-> [m.refs EXCEPT ![s] = 1]]
    BY <1>b, <1>n DEF Memory
  <2>2. m.pipes \in [Pipes -> PipeRec] /\ m.paths \in SUBSET Paths /\ m.socks \in SUBSET Socks
    BY <1>b DEF Memory
  <2>3. PICK r : r = [m.refs EXCEPT ![s] = 1]
    OBVIOUS
  <2>4. r \in [Socks -> Int] /\ r[s] = 1 /\ \A o \in m.socks : r[o] = m.refs[o]
    BY <1>c, <2>3
  <2>. QED
    BY <2>1, <2>2, <2>3, <2>4 DEF Memory
<1>4. u[p][f] = d
  BY <1>d DEF Filled
<1>5. \A q \in Pids : \A g \in Fds : u[q][g].type = "DIR" => u[q][g].ref \in n.paths
  BY <1>1, <1>2, <1>3, DirsKept
<1>6. \A x \in Pipes : PipeOK(n.pipes[x])
  BY <1>2, <1>3, ShapeAt
<1>7. u[p][f].ref \in n.socks /\ m.socks \subseteq n.socks
  BY <1>a, <1>4, <1>3
<1>8. Shape(u, n)
  BY <1>1, <1>2, <1>3, <1>5, <1>6, <1>7, ShapePut
<1>9. Readers(n) = Readers(m) /\ Writers(n) = Writers(m)
  BY <1>3 DEF Readers, Writers
<1>10. Listed(pr, u, n)
  <2>1. u[p][f].type # "PPRD" /\ u[p][f].type # "PPWR" /\ t[p][f].type # "PPRD" /\ t[p][f].type # "PPWR"
    BY <1>1
  <2>. QED
    BY <1>1, <1>2, <1>9, <2>1, SideKept DEF Listed
<1>11. PathsFit(u, n)
  BY <1>1, <1>2, <1>3, PathsKept
<1>12. RefsFit(pr, u, n)
  <2>1. t[p][f].type # "SOCK"
    BY <1>1
  <2>. QED
    BY <1>1, <1>2, <1>3, <1>4, <1>d, <2>1, RefsNew
<1>. QED
  BY <1>8, <1>10, <1>11, <1>12, <1>n DEF Owns

\* An end to read is copied.
LEMMA GrowReader ==
    ASSUME NEW pr, NEW t, NEW m, Owns(pr, t, m), NEW p \in Pids, NEW f \in Fds, pr[p] = "ready",
           NEW x \in Pipes, m.pipes[x].used, HasEntry(m.pipes[x], "readers"),
           NEW u, Filled(t, u, p, f, End("PPRD", x))
    PROVE  Owns(pr, u, Pushed(m, x, "readers", p))
<1>d. PICK d : d = End("PPRD", x)
  OBVIOUS
<1>a. d.type = "PPRD" /\ d.ref = x /\ Filled(t, u, p, f, d)
  BY <1>d DEF End
<1>1. /\ u \in Tables /\ Apart(t, u, p, f) /\ pr[p] # "new"
      /\ t[p][f].type # "PPRD" /\ t[p][f].type # "PPWR"
      /\ t[p][f].type # "SOCK" /\ t[p][f].type # "DIR"
      /\ u[p][f].type # "PPWR" /\ u[p][f].type # "SOCK" /\ u[p][f].type # "DIR"
  BY <1>a, FilledAt
<1>2. Shape(t, m) /\ Listed(pr, t, m) /\ PathsFit(t, m) /\ RefsFit(pr, t, m)
  BY DEF Owns
<1>n. PICK n : n = Pushed(m, x, "readers", p)
  OBVIOUS
<1>3. PipeOK(m.pipes[x]) /\ m \in Memory /\ m.pipes[x].readers \in Seq(Pids)
  BY <1>2, ShapeAt
<1>4. /\ n \in Memory /\ PipeOK(n.pipes[x])
      /\ n.pipes[x].readers = Append(m.pipes[x].readers, p)
      /\ n.pipes[x].writers = m.pipes[x].writers
      /\ \A y \in Pipes : y # x => n.pipes[y] = m.pipes[y]
      /\ n.paths = m.paths /\ n.socks = m.socks /\ n.refs = m.refs
  BY <1>n, <1>3, PushedReader
<1>5. u[p][f] = d
  BY <1>d DEF Filled
<1>6. \A q \in Pids : \A g \in Fds : u[q][g].type = "DIR" => u[q][g].ref \in n.paths
  BY <1>1, <1>2, <1>4, DirsKept
<1>7. \A y \in Pipes : PipeOK(n.pipes[y])
  BY <1>2, <1>4, ShapeAt
<1>8. u[p][f].ref \in Pipes
  BY <1>a, <1>5
<1>9. Shape(u, n)
  BY <1>1, <1>2, <1>4, <1>6, <1>7, <1>8, ShapePut
<1>10. Writers(n) = Writers(m)
  BY <1>4 DEF Writers
<1>11. /\ Readers(n)[x] = Append(Readers(m)[x], p)
       /\ Readers(m)[x] \in Seq(Pids)
       /\ \A y \in Pipes : y # x => Readers(n)[y] = Readers(m)[y]
  BY <1>3, <1>4 DEF Readers
<1>12. u[p][f] = End("PPRD", x)
  BY <1>5, <1>d
<1>13. SideFits(pr, u, "PPRD", Readers(n))
  BY <1>1, <1>2, <1>11, <1>12, SidePush DEF Listed
<1>14. SideFits(pr, u, "PPWR", Writers(n))
  BY <1>1, <1>2, <1>10, SideKept DEF Listed
<1>15. PathsFit(u, n)
  BY <1>1, <1>2, <1>4, PathsKept
<1>16. RefsFit(pr, u, n)
  BY <1>1, <1>2, <1>4, RefsKept
<1>. QED
  BY <1>9, <1>13, <1>14, <1>15, <1>16, <1>n DEF Owns, Listed

\* An end to write is copied.
LEMMA GrowWriter ==
    ASSUME NEW pr, NEW t, NEW m, Owns(pr, t, m), NEW p \in Pids, NEW f \in Fds, pr[p] = "ready",
           NEW x \in Pipes, m.pipes[x].used, HasEntry(m.pipes[x], "writers"),
           NEW u, Filled(t, u, p, f, End("PPWR", x))
    PROVE  Owns(pr, u, Pushed(m, x, "writers", p))
<1>d. PICK d : d = End("PPWR", x)
  OBVIOUS
<1>a. d.type = "PPWR" /\ d.ref = x /\ Filled(t, u, p, f, d)
  BY <1>d DEF End
<1>1. /\ u \in Tables /\ Apart(t, u, p, f) /\ pr[p] # "new"
      /\ t[p][f].type # "PPWR" /\ t[p][f].type # "PPRD"
      /\ t[p][f].type # "SOCK" /\ t[p][f].type # "DIR"
      /\ u[p][f].type # "PPRD" /\ u[p][f].type # "SOCK" /\ u[p][f].type # "DIR"
  BY <1>a, FilledAt
<1>2. Shape(t, m) /\ Listed(pr, t, m) /\ PathsFit(t, m) /\ RefsFit(pr, t, m)
  BY DEF Owns
<1>n. PICK n : n = Pushed(m, x, "writers", p)
  OBVIOUS
<1>3. PipeOK(m.pipes[x]) /\ m \in Memory /\ m.pipes[x].writers \in Seq(Pids)
  BY <1>2, ShapeAt
<1>4. /\ n \in Memory /\ PipeOK(n.pipes[x])
      /\ n.pipes[x].writers = Append(m.pipes[x].writers, p)
      /\ n.pipes[x].readers = m.pipes[x].readers
      /\ \A y \in Pipes : y # x => n.pipes[y] = m.pipes[y]
      /\ n.paths = m.paths /\ n.socks = m.socks /\ n.refs = m.refs
  BY <1>n, <1>3, PushedWriter
<1>5. u[p][f] = d
  BY <1>d DEF Filled
<1>6. \A q \in Pids : \A g \in Fds : u[q][g].type = "DIR" => u[q][g].ref \in n.paths
  BY <1>1, <1>2, <1>4, DirsKept
<1>7. \A y \in Pipes : PipeOK(n.pipes[y])
  BY <1>2, <1>4, ShapeAt
<1>8. u[p][f].ref \in Pipes
  BY <1>a, <1>5
<1>9. Shape(u, n)
  BY <1>1, <1>2, <1>4, <1>6, <1>7, <1>8, ShapePut
<1>10. Readers(n) = Readers(m)
  BY <1>4 DEF Readers
<1>11. /\ Writers(n)[x] = Append(Writers(m)[x], p)
       /\ Writers(m)[x] \in Seq(Pids)
       /\ \A y \in Pipes : y # x => Writers(n)[y] = Writers(m)[y]
  BY <1>3, <1>4 DEF Writers
<1>12. u[p][f] = End("PPWR", x)
  BY <1>5, <1>d
<1>13. SideFits(pr, u, "PPWR", Writers(n))
  BY <1>1, <1>2, <1>11, <1>12, SidePush DEF Listed
<1>14. SideFits(pr, u, "PPRD", Readers(n))
  BY <1>1, <1>2, <1>10, SideKept DEF Listed
<1>15. PathsFit(u, n)
  BY <1>1, <1>2, <1>4, PathsKept
<1>16. RefsFit(pr, u, n)
  BY <1>1, <1>2, <1>4, RefsKept
<1>. QED
  BY <1>9, <1>13, <1>14, <1>15, <1>16, <1>n DEF Owns, Listed

\* A pipe that is not in use gets a reader.
LEMMA NewPipe ==
    ASSUME NEW pr, NEW t, NEW m, Owns(pr, t, m), NEW p \in Pids, NEW f \in Fds, pr[p] = "ready",
           NEW x \in Pipes, ~m.pipes[x].used,
           NEW u, Filled(t, u, p, f, End("PPRD", x)),
           NEW n, n \in Memory, PipeOK(n.pipes[x]),
           n.pipes[x].readers = <<p>>, n.pipes[x].writers = <<>>,
           \A y \in Pipes : y # x => n.pipes[y] = m.pipes[y],
           n.paths = m.paths, n.socks = m.socks, n.refs = m.refs
    PROVE  Owns(pr, u, n)
<1>d. PICK d : d = End("PPRD", x)
  OBVIOUS
<1>a. d.type = "PPRD" /\ d.ref = x /\ Filled(t, u, p, f, d)
  BY <1>d DEF End
<1>1. /\ u \in Tables /\ Apart(t, u, p, f) /\ pr[p] # "new"
      /\ t[p][f].type # "PPRD" /\ t[p][f].type # "PPWR"
      /\ t[p][f].type # "SOCK" /\ t[p][f].type # "DIR"
      /\ u[p][f].type # "PPWR" /\ u[p][f].type # "SOCK" /\ u[p][f].type # "DIR"
  BY <1>a, FilledAt
<1>2. Shape(t, m) /\ Listed(pr, t, m) /\ PathsFit(t, m) /\ RefsFit(pr, t, m)
  BY DEF Owns
<1>3. m.pipes[x].readers = <<>> /\ m.pipes[x].writers = <<>>
  BY <1>2, ShapeAt DEF PipeOK
<1>5. u[p][f] = d
  BY <1>d DEF Filled
<1>6. \A q \in Pids : \A g \in Fds : u[q][g].type = "DIR" => u[q][g].ref \in n.paths
  BY <1>1, <1>2, DirsKept
<1>7. \A y \in Pipes : PipeOK(n.pipes[y])
  BY <1>2, ShapeAt
<1>8. u[p][f].ref \in Pipes
  BY <1>a, <1>5
<1>9. Shape(u, n)
  BY <1>1, <1>2, <1>6, <1>7, <1>8, ShapePut
<1>10. Writers(n) = Writers(m)
  BY <1>3 DEF Writers
<1>11. /\ Readers(n)[x] = Append(Readers(m)[x], p)
       /\ Readers(m)[x] \in Seq(Pids)
       /\ \A y \in Pipes : y # x => Readers(n)[y] = Readers(m)[y]
  <2>1. Readers(n)[x] = <<p>> /\ Readers(m)[x] = <<>>
    BY <1>3 DEF Readers
  <2>2. <<p>> = Append(<<>>, p) /\ <<>> \in Seq(Pids)
    OBVIOUS
  <2>3. \A y \in Pipes : y # x => Readers(n)[y] = Readers(m)[y]
    BY DEF Readers
  <2>. QED
    BY <2>1, <2>2, <2>3
<1>12. u[p][f] = End("PPRD", x)
  BY <1>5, <1>d
<1>13. SideFits(pr, u, "PPRD", Readers(n))
  BY <1>1, <1>2, <1>11, <1>12, SidePush DEF Listed
<1>14. SideFits(pr, u, "PPWR", Writers(n))
  BY <1>1, <1>2, <1>10, SideKept DEF Listed
<1>15. PathsFit(u, n)
  BY <1>1, <1>2, PathsKept
<1>16. RefsFit(pr, u, n)
  BY <1>1, <1>2, RefsKept
<1>. QED
  BY <1>9, <1>13, <1>14, <1>15, <1>16 DEF Owns, Listed

\* The contents of a pipe change, or entries of victims go.
LEMMA SwapKeeps ==
    ASSUME NEW pr, NEW t, NEW m, Owns(pr, t, m), NEW x \in Pipes,
           NEW pipe, pipe \in PipeRec, PipeOK(pipe),
           \A p \in Pids : pr[p] # "victim" =>
              /\ Occ(pipe.readers, p) = Occ(m.pipes[x].readers, p)
              /\ Occ(pipe.writers, p) = Occ(m.pipes[x].writers, p)
    PROVE  Owns(pr, t, [m EXCEPT !.pipes[x] = pipe])
<1>2. Shape(t, m) /\ Listed(pr, t, m) /\ PathsFit(t, m) /\ RefsFit(pr, t, m)
  BY DEF Owns
<1>n. PICK n : n = [m EXCEPT !.pipes[x] = pipe]
  OBVIOUS
<1>3. m \in Memory
  BY <1>2, ShapeAt
<1>4. /\ n \in Memory /\ n.pipes[x] = pipe
      /\ \A y \in Pipes : y # x => n.pipes[y] = m.pipes[y]
      /\ n.paths = m.paths /\ n.socks = m.socks /\ n.refs = m.refs
  BY <1>3, <1>n, SwapAt
<1>5. Shape(t, n)
  BY <1>2, <1>4 DEF Shape
<1>6. PathsFit(t, n) /\ RefsFit(pr, t, n)
  BY <1>2, <1>4 DEF PathsFit, RefsFit
<1>7. ASSUME NEW p \in Pids, NEW y \in Pipes
      PROVE  /\ Fits(pr[p], Occ(Readers(n)[y], p), Held(t, p, End("PPRD", y)))
             /\ Fits(pr[p], Occ(Writers(n)[y], p), Held(t, p, End("PPWR", y)))
  <2>1. /\ Fits(pr[p], Occ(Readers(m)[y], p), Held(t, p, End("PPRD", y)))
        /\ Fits(pr[p], Occ(Writers(m)[y], p), Held(t, p, End("PPWR", y)))
    BY <1>2 DEF Listed, SideFits
  <2>2. CASE pr[p] = "victim"
    BY <2>2 DEF Fits
  <2>3. CASE pr[p] # "victim"
    <3>1. /\ Occ(Readers(n)[y], p) = Occ(Readers(m)[y], p)
          /\ Occ(Writers(n)[y], p) = Occ(Writers(m)[y], p)
      BY <1>4, <2>3 DEF Readers, Writers
    <3>. QED
      BY <2>1, <3>1, Zenon
  <2>. QED
    BY <2>2, <2>3
<1>8. Listed(pr, t, n)
  BY <1>7 DEF Listed, SideFits
<1>. QED
  BY <1>5, <1>6, <1>8, <1>n DEF Owns

\* Processes change their state, in ways that ask no more of the entries, and
\* none begins or ends to count.
LEMMA StatesKeep ==
    ASSUME NEW pr, NEW t, NEW m, Owns(pr, t, m), NEW qr,
           \A p \in Pids : (pr[p] = "new" <=> qr[p] = "new"),
           \A p \in Pids : \A a, b \in Nat : Fits(pr[p], a, b) => Fits(qr[p], a, b)
    PROVE  Owns(qr, t, m)
<1>1. Shape(t, m) /\ Listed(pr, t, m) /\ PathsFit(t, m) /\ RefsFit(pr, t, m)
  BY DEF Owns
<1>2. ASSUME NEW p \in Pids, NEW x \in Pipes
      PROVE  /\ Fits(qr[p], Occ(Readers(m)[x], p), Held(t, p, End("PPRD", x)))
             /\ Fits(qr[p], Occ(Writers(m)[x], p), Held(t, p, End("PPWR", x)))
  <2>1. /\ Fits(pr[p], Occ(Readers(m)[x], p), Held(t, p, End("PPRD", x)))
        /\ Fits(pr[p], Occ(Writers(m)[x], p), Held(t, p, End("PPWR", x)))
    BY <1>1 DEF Listed, SideFits
  <2>2. Readers(m)[x] \in Seq(Pids) /\ Writers(m)[x] \in Seq(Pids)
    BY <1>1, ShapeAt
  <2>3. /\ Occ(Readers(m)[x], p) \in Nat /\ Held(t, p, End("PPRD", x)) \in Nat
        /\ Occ(Writers(m)[x], p) \in Nat /\ Held(t, p, End("PPWR", x)) \in Nat
    BY <2>2, OccType, HeldType
  <2>. QED
    BY <2>1, <2>3
<1>3. Listed(qr, t, m)
  BY <1>2 DEF Listed, SideFits
<1>4. ASSUME NEW s \in m.socks PROVE m.refs[s] = Users(qr, t, s)
  <2>1. Users(qr, t, s) = Users(pr, t, s)
    BY UsersSame
  <2>. QED
    BY <2>1, <1>1 DEF RefsFit
<1>5. RefsFit(qr, t, m)
  BY <1>4 DEF RefsFit
<1>. QED
  BY <1>1, <1>3, <1>5 DEF Owns

-----------------------------------------------------------------------------
(* Whole copies and new descriptors.                                       *)

\* A descriptor that is opened is of a kind, with a path of its own.
LEMMA OpenedCases ==
    ASSUME NEW m, NEW kind \in Kinds, NEW c \in Opened(m, kind)
    PROVE  \/ \E a \in Paths \ m.paths :
                 c[1] = [m EXCEPT !.paths = @ \cup {a}] /\ c[2] = End("DIR", a)
           \/ c[1] = m /\ c[2] = End("FILE", 0)
<1>1. kind \in {"FILE", "DIR"}
  BY SizeAssumption
<1>2. CASE kind = "DIR"
  <2>1. PICK a \in NewPath(m) :
           c = <<[m EXCEPT !.paths = @ \cup {a}], [type |-> "DIR", ref |-> a]>>
    BY <1>2 DEF Opened
  <2>2. a \in Paths \ m.paths
    BY DEF NewPath
  <2>3. c[1] = [m EXCEPT !.paths = @ \cup {a}] /\ c[2] = End("DIR", a)
    BY <2>1 DEF End
  <2>. QED
    BY <2>2, <2>3
<1>3. CASE kind = "FILE"
  BY <1>3 DEF Opened, End
<1>. QED
  BY <1>1, <1>2, <1>3

\* What is opened is a descriptor, and free memory is taken for it.
LEMMA OpenKeeps ==
    ASSUME NEW pr, NEW t, NEW m, Owns(pr, t, m), NEW p \in Pids, NEW f \in Fds, pr[p] = "ready",
           NEW kind \in Kinds, NEW c \in Opened(m, kind)
    PROVE  /\ c[2] \in Descs
           /\ \A u : Filled(t, u, p, f, c[2]) => Owns(pr, u, c[1])
<1>1. CASE \E a \in Paths \ m.paths :
              c[1] = [m EXCEPT !.paths = @ \cup {a}] /\ c[2] = End("DIR", a)
  <2>1. PICK a \in Paths \ m.paths :
           c[1] = [m EXCEPT !.paths = @ \cup {a}] /\ c[2] = End("DIR", a)
    BY <1>1
  <2>2. End("DIR", a) \in Descs
    BY DEF End, Descs, FdTypes
  <2>3. \A u : Filled(t, u, p, f, End("DIR", a)) => Owns(pr, u, [m EXCEPT !.paths = @ \cup {a}])
    BY GrowDir
  <2>. QED
    BY <2>1, <2>2, <2>3, Zenon
<1>2. CASE c[1] = m /\ c[2] = End("FILE", 0)
  <2>1. End("FILE", 0) \in Descs /\ End("FILE", 0).type = "FILE"
    BY DEF End, Descs, FdTypes
  <2>2. \A u : Filled(t, u, p, f, End("FILE", 0)) => Owns(pr, u, m)
    BY <2>1, GrowFile
  <2>. QED
    BY <1>2, <2>1, <2>2, Zenon
<1>. QED
  BY <1>1, <1>2, OpenedCases, Zenon

\* The pipe of an end that is open is in use.
LEMMA EndUsed ==
    ASSUME NEW pr, NEW t, NEW m, Owns(pr, t, m), NEW p \in Pids, NEW f \in Fds,
           pr[p] \in {"ready", "asleep"}, NEW x \in Pipes, NEW type \in {"PPRD", "PPWR"},
           t[p][f] = End(type, x)
    PROVE  /\ m.pipes[x].used
           /\ type = "PPRD" => Occ(m.pipes[x].readers, p) > 0
           /\ type = "PPWR" => Occ(m.pipes[x].writers, p) > 0
<1>1. Held(t, p, End(type, x)) > 0
  <2>1. Held(t, p, End(type, x)) # 0 /\ Held(t, p, End(type, x)) \in Nat
    BY HeldType
  <2>. QED
    BY <2>1
<1>2. Shape(t, m) /\ Listed(pr, t, m)
  BY DEF Owns
<1>3. /\ m.pipes[x].readers \in Seq(Pids) /\ m.pipes[x].writers \in Seq(Pids)
      /\ PipeOK(m.pipes[x])
      /\ Readers(m)[x] = m.pipes[x].readers /\ Writers(m)[x] = m.pipes[x].writers
  BY <1>2, ShapeAt
<1>4. /\ Occ(m.pipes[x].readers, p) = Held(t, p, End("PPRD", x))
      /\ Occ(m.pipes[x].writers, p) = Held(t, p, End("PPWR", x))
  <2>1. /\ Fits(pr[p], Occ(Readers(m)[x], p), Held(t, p, End("PPRD", x)))
        /\ Fits(pr[p], Occ(Writers(m)[x], p), Held(t, p, End("PPWR", x)))
    BY <1>2 DEF Listed, SideFits
  <2>2. /\ Occ(Readers(m)[x], p) = Held(t, p, End("PPRD", x))
        /\ Occ(Writers(m)[x], p) = Held(t, p, End("PPWR", x))
    BY <2>1 DEF Fits
  <2>. QED
    BY <2>2, <1>3
<1>5. ASSUME type = "PPRD" PROVE m.pipes[x].used /\ Occ(m.pipes[x].readers, p) > 0
  <2>1. Occ(m.pipes[x].readers, p) > 0
    BY <1>1, <1>4, <1>5
  <2>2. m.pipes[x].readers # <<>>
    BY <2>1, <1>3, OccNonempty
  <2>. QED
    BY <2>1, <2>2, <1>3 DEF PipeOK
<1>6. ASSUME type = "PPWR" PROVE m.pipes[x].used /\ Occ(m.pipes[x].writers, p) > 0
  <2>1. Occ(m.pipes[x].writers, p) > 0
    BY <1>1, <1>4, <1>6
  <2>2. m.pipes[x].writers # <<>>
    BY <2>1, <1>3, OccNonempty
  <2>. QED
    BY <2>1, <2>2, <1>3 DEF PipeOK
<1>. QED
  BY <1>5, <1>6

\* A copy that has an entry of its own is counted.
LEMMA CopyKeeps ==
    ASSUME Premise, NEW pr, NEW t, NEW m, Owns(pr, t, m), NEW p \in Pids, NEW f \in Fds,
           pr[p] = "ready", NEW q \in Pids, NEW g \in Fds, pr[q] = "ready",
           Room(m, t[q][g]), NEW c \in Copies(m, t[q][g], p)
    PROVE  /\ c[2] \in Descs
           /\ \A u : Filled(t, u, p, f, c[2]) => Owns(pr, u, c[1])
<1>d. PICK d : d = t[q][g]
  OBVIOUS
<1>c. Room(m, d) /\ c \in Copies(m, d, p)
  BY <1>d
<1>1. /\ d \in Descs /\ d = End(d.type, d.ref)
      /\ d.type = "PPRD" => d.ref \in Pipes
      /\ d.type = "PPWR" => d.ref \in Pipes
      /\ d.type = "SOCK" => d.ref \in m.socks
  BY <1>d, DescAt DEF Owns
<1>b. d \in Descs
  BY <1>1
<1>x. PICK x : x = d.ref
  OBVIOUS
<1>2. CASE d.type = "DIR"
  <2>a. Copies(m, d, p) = {<<[m EXCEPT !.paths = @ \cup {a}], [d EXCEPT !.ref = a]>> : a \in NewPath(m)}
    BY <1>2 DEF Copies, IsPipe
  <2>b. PICK a \in NewPath(m) : c = <<[m EXCEPT !.paths = @ \cup {a}], [d EXCEPT !.ref = a]>>
    BY <1>c, <2>a
  <2>c. a \in Paths \ m.paths
    BY DEF NewPath
  <2>d. [d EXCEPT !.ref = a] = End("DIR", a)
    BY <1>b, <1>2 DEF Descs, End
  <2>1. c[1] = [m EXCEPT !.paths = @ \cup {a}] /\ c[2] = End("DIR", a)
    BY <2>b, <2>d
  <2>2. End("DIR", a) \in Descs
    BY <2>c DEF End, Descs, FdTypes
  <2>3. \A u : Filled(t, u, p, f, End("DIR", a)) => Owns(pr, u, [m EXCEPT !.paths = @ \cup {a}])
    BY <2>c, GrowDir
  <2>. QED
    BY <2>1, <2>2, <2>3, <2>c, Zenon
<1>3. CASE d.type = "SOCK"
  <2>1. c[1] = [m EXCEPT !.refs[x] = @ + 1] /\ c[2] = d /\ d = End("SOCK", x) /\ x \in m.socks
    <3>1. Copies(m, d, p) = {<<[m EXCEPT !.refs[d.ref] = @ + 1], d>>}
      BY <1>3 DEF Copies, IsPipe
    <3>2. c[1] = [m EXCEPT !.refs[d.ref] = @ + 1] /\ c[2] = d
      BY <3>1, <1>c
    <3>. QED
      BY <3>2, <1>1, <1>3, <1>x
  <2>2. \A u : Filled(t, u, p, f, End("SOCK", x)) => Owns(pr, u, [m EXCEPT !.refs[x] = @ + 1])
    BY <2>1, GrowSocket
  <2>. QED
    BY <1>1, <2>1, <2>2
<1>4. CASE d.type = "PPRD"
  <2>1. c[1] = Pushed(m, x, "readers", p) /\ c[2] = d /\ d = End("PPRD", x) /\ x \in Pipes
    <3>1. Copies(m, d, p) = {<<Pushed(m, d.ref, "readers", p), d>>}
      BY <1>4 DEF Copies, IsPipe, Side
    <3>2. c[1] = Pushed(m, d.ref, "readers", p) /\ c[2] = d
      BY <3>1, <1>c
    <3>. QED
      BY <3>2, <1>1, <1>4, <1>x
  <2>2. m.pipes[x].used
    BY <2>1, <1>d, EndUsed
  <2>3. HasEntry(m.pipes[x], "readers")
    BY <1>4, <1>x, <1>c DEF Room, Premise, IsPipe, Side
  <2>4. \A u : Filled(t, u, p, f, End("PPRD", x)) => Owns(pr, u, Pushed(m, x, "readers", p))
    BY <2>1, <2>2, <2>3, GrowReader
  <2>. QED
    BY <1>1, <2>1, <2>4
<1>5. CASE d.type = "PPWR"
  <2>1. c[1] = Pushed(m, x, "writers", p) /\ c[2] = d /\ d = End("PPWR", x) /\ x \in Pipes
    <3>1. Copies(m, d, p) = {<<Pushed(m, d.ref, "writers", p), d>>}
      BY <1>5 DEF Copies, IsPipe, Side
    <3>2. c[1] = Pushed(m, d.ref, "writers", p) /\ c[2] = d
      BY <3>1, <1>c
    <3>. QED
      BY <3>2, <1>1, <1>5, <1>x
  <2>2. m.pipes[x].used
    BY <2>1, <1>d, EndUsed
  <2>3. HasEntry(m.pipes[x], "writers")
    BY <1>5, <1>x, <1>c DEF Room, Premise, IsPipe, Side
  <2>4. \A u : Filled(t, u, p, f, End("PPWR", x)) => Owns(pr, u, Pushed(m, x, "writers", p))
    BY <2>1, <2>2, <2>3, GrowWriter
  <2>. QED
    BY <1>1, <2>1, <2>4
<1>6. CASE d.type \in {"FREE", "FILE"}
  <2>1. c[1] = m /\ c[2] = d
    <3>1. Copies(m, d, p) = {<<m, d>>}
      BY <1>6 DEF Copies, IsPipe
    <3>. QED
      BY <3>1, <1>c
  <2>2. \A u : Filled(t, u, p, f, d) => Owns(pr, u, m)
    BY <1>6, GrowFile
  <2>. QED
    BY <1>1, <2>1, <2>2
<1>. QED
  BY <1>1, <1>2, <1>3, <1>4, <1>5, <1>6 DEF Descs, FdTypes

-----------------------------------------------------------------------------
(* The calls of a running process.                                         *)

\* What holds of one process that runs.
LEMMA RunsAt ==
    ASSUME Inv, NEW p \in Pids, Runs(p)
    PROVE  /\ proc[p] = "ready"
           /\ Owns(proc, fds, mem) /\ Shape(fds, mem) /\ fds \in Tables /\ mem \in Memory
           /\ fds[p] \in [Fds -> Descs]
           /\ FreeFds(p) \subseteq Fds
           /\ \A f \in FreeFds(p) : fds[p][f].type = "FREE"
<1>1. Owns(proc, fds, mem) /\ Shape(fds, mem)
  BY DEF Inv, Owns
<1>2. fds \in Tables /\ mem \in Memory
  BY <1>1 DEF Shape
<1>3. fds[p] \in [Fds -> Descs]
  BY <1>2 DEF Tables
<1>. QED
  BY <1>1, <1>2, <1>3 DEF Runs, FreeFds

\* The calls change the descriptors of the caller and the memory alone.
LEMMA Mine ==
    ASSUME Inv, NEW p \in Pids, Runs(p), UNCHANGED <<proc, parent, reading>>,
           \A q \in Pids : q # p => fds'[q] = fds[q],
           Owns(proc, fds', mem')
    PROVE  Inv'
<1>1. /\ proc' = proc /\ parent' = parent /\ reading' = reading
      /\ proc[p] = "ready"
      /\ \A q \in Pids : ~(proc[q] = "new" /\ parent[q] = p)
  BY DEF Runs
<1>2. Undeclared'
  <2>. SUFFICES ASSUME NEW q \in Pids, proc[q] = "new"
                PROVE  /\ parent[q] \in Pids
                       /\ proc[parent[q]] \in {"ready", "dead", "victim"}
                       /\ proc[parent[q]] = "ready" => fds'[q] = fds'[parent[q]]
                       /\ \A f \in Fds : fds'[q][f].type # "DIR"
    BY <1>1 DEF Undeclared
  <2>1. q # p /\ parent[q] # p
    BY <1>1
  <2>2. /\ parent[q] \in Pids
        /\ proc[parent[q]] \in {"ready", "dead", "victim"}
        /\ proc[parent[q]] = "ready" => fds[q] = fds[parent[q]]
        /\ \A f \in Fds : fds[q][f].type # "DIR"
    BY DEF Inv, Undeclared
  <2>. QED
    BY <2>1, <2>2
<1>3. Others'
  <2>1. ASSUME NEW q \in Pids, proc[q] \in {"none", "dead", "victim"}, NEW f \in Fds
        PROVE  fds'[q][f] = FreeFd
    <3>1. q # p /\ fds[q][f] = FreeFd
      BY <1>1, <2>1 DEF Inv, Others
    <3>. QED
      BY <3>1
  <2>2. ASSUME NEW q \in Pids, proc[q] = "asleep"
        PROVE  reading[q] \in Fds /\ fds'[q][reading[q]].type = "PPRD"
    <3>1. q # p /\ reading[q] \in Fds /\ fds[q][reading[q]].type = "PPRD"
      BY <1>1, <2>2 DEF Inv, Others
    <3>. QED
      BY <3>1
  <2>. QED
    BY <2>1, <2>2, <1>1 DEF Others
<1>4. Owns(proc', fds', mem')
  BY <1>1
<1>5. /\ proc' \in [Pids -> ProcStates]
      /\ parent' \in [Pids -> 0 .. MaxPid]
      /\ reading' \in [Pids -> Fds \cup {-1}]
  BY <1>1 DEF Inv
<1>. QED
  BY <1>2, <1>3, <1>4, <1>5 DEF Inv

\* A running process closes a descriptor of its own.
LEMMA CloseOwn ==
    ASSUME Inv, NEW p \in Pids, Runs(p), NEW f \in Fds
    PROVE  /\ Cleared(fds, Put(fds, p, f, FreeFd), p, f)
           /\ Owns(proc, Put(fds, p, f, FreeFd), ClosedAt(mem, p, f))
           /\ \A q \in Pids : q # p => Put(fds, p, f, FreeFd)[q] = fds[q]
<1>1. /\ proc[p] = "ready" /\ Owns(proc, fds, mem) /\ fds \in Tables
  BY RunsAt
<1>2. /\ Put(fds, p, f, FreeFd) \in Tables
      /\ Put(fds, p, f, FreeFd)[p][f] = FreeFd
      /\ \A q \in Pids : \A g \in Fds :
            q # p \/ g # f => Put(fds, p, f, FreeFd)[q][g] = fds[q][g]
      /\ \A q \in Pids : q # p => Put(fds, p, f, FreeFd)[q] = fds[q]
  BY <1>1, PutAt, FreeTypes
<1>3. Cleared(fds, Put(fds, p, f, FreeFd), p, f)
  BY <1>2 DEF Cleared, Apart
<1>4. Closer(proc, p, p)
  BY <1>1 DEF Closer
<1>5. Owns(proc, Put(fds, p, f, FreeFd), Closed(mem, fds[p][f], p))
  BY <1>1, <1>3, <1>4, CloseKeeps
<1>. QED
  BY <1>2, <1>3, <1>5 DEF ClosedAt

\* fm_close.
LEMMA CloseInv ==
    ASSUME Inv, NEW p \in Pids, NEW f \in Fds, Close(p, f)
    PROVE  Inv'
<1>1. /\ Runs(p) /\ mem' = ClosedAt(mem, p, f) /\ fds' = Put(fds, p, f, FreeFd)
      /\ UNCHANGED <<proc, parent, reading>>
  BY DEF Close, Put
<1>. QED
  BY <1>1, CloseOwn, Mine

\* A descriptor that is free can be filled.
LEMMA FillAt ==
    ASSUME NEW t, t \in Tables, NEW p \in Pids, NEW f \in Fds, t[p][f].type = "FREE",
           NEW d, d \in Descs
    PROVE  /\ Filled(t, Put(t, p, f, d), p, f, d)
           /\ \A q \in Pids : q # p => Put(t, p, f, d)[q] = t[q]
BY PutAt DEF Filled, Apart

\* The lowest free descriptor is one.
LEMMA LowestFree ==
    ASSUME NEW p \in Pids, FreeFds(p) # {}
    PROVE  LowestFd(FreeFds(p)) \in FreeFds(p)
<1>1. FreeFds(p) \subseteq Nat
  BY Sizes DEF FreeFds
<1>. QED
  BY <1>1, LowestIn

\* fm_reopen.
LEMMA ReopenInv ==
    ASSUME Inv, NEW p \in Pids, NEW f \in Fds \cup {-1}, Reopen(p, f)
    PROVE  Inv'
<1>1. Runs(p) /\ UNCHANGED <<proc, parent, reading>>
  BY DEF Reopen
<1>2. /\ proc[p] = "ready" /\ Owns(proc, fds, mem) /\ fds \in Tables /\ fds[p] \in [Fds -> Descs]
      /\ FreeFds(p) \subseteq Fds /\ \A g \in FreeFds(p) : fds[p][g].type = "FREE"
  BY <1>1, RunsAt
<1>3. CASE f \in Fds
  <2>t. PICK t : t = Put(fds, p, f, FreeFd)
    OBVIOUS
  <2>m. PICK m : m = ClosedAt(mem, p, f)
    OBVIOUS
  <2>1. f >= 0
    BY <1>3, Sizes
  <2>2. /\ t \in Tables /\ t[p][f] = FreeFd /\ Owns(proc, t, m)
        /\ \A q \in Pids : q # p => t[q] = fds[q]
    BY <1>1, <1>3, <2>t, <2>m, CloseOwn DEF Cleared
  <2>3. [fds EXCEPT ![p] = [fds[p] EXCEPT ![f] = FreeFd]] = t
    BY <2>t DEF Put
  <2>4. \A d : [fds EXCEPT ![p] = [[fds[p] EXCEPT ![f] = FreeFd] EXCEPT ![f] = d]] = Put(t, p, f, d)
    BY <2>t, <1>2, <1>3 DEF Put, Tables
  <2>5. \/ mem' = m /\ fds' = t
        \/ \E kind \in Kinds : \E c \in Opened(m, kind) : mem' = c[1] /\ fds' = Put(t, p, f, c[2])
    BY <2>1, <2>3, <2>4, <2>m DEF Reopen
  <2>6. CASE mem' = m /\ fds' = t
    BY <2>6, <2>2, <1>1, Mine
  <2>7. CASE \E kind \in Kinds : \E c \in Opened(m, kind) : mem' = c[1] /\ fds' = Put(t, p, f, c[2])
    <3>k. PICK kind \in Kinds :
             \E c \in Opened(m, kind) : mem' = c[1] /\ fds' = Put(t, p, f, c[2])
      BY <2>7
    <3>1. PICK c \in Opened(m, kind) : mem' = c[1] /\ fds' = Put(t, p, f, c[2])
      BY <3>k
    <3>2. /\ c[2] \in Descs
          /\ \A u : Filled(t, u, p, f, c[2]) => Owns(proc, u, c[1])
      BY <1>2, <1>3, <2>2, OpenKeeps
    <3>3. t[p][f].type = "FREE"
      BY <2>2, FreeTypes
    <3>4. /\ Filled(t, Put(t, p, f, c[2]), p, f, c[2])
          /\ \A q \in Pids : q # p => Put(t, p, f, c[2])[q] = t[q]
      BY <1>3, <2>2, <3>2, <3>3, FillAt
    <3>5. Owns(proc, fds', mem') /\ \A q \in Pids : q # p => fds'[q] = fds[q]
      BY <3>1, <3>2, <3>4, <2>2
    <3>. QED
      BY <3>5, <1>1, Mine
  <2>. QED
    BY <2>5, <2>6, <2>7
<1>4. CASE f = -1
  <2>g. PICK g : g = LowestFd(FreeFds(p))
    OBVIOUS
  <2>1. ~ (f >= 0)
    BY <1>4
  <2>2. [fds EXCEPT ![p] = fds[p]] = fds
    BY <1>2 DEF Tables
  <2>3. \/ mem' = mem /\ fds' = fds
        \/ /\ FreeFds(p) # {}
           /\ \E kind \in Kinds : \E c \in Opened(mem, kind) :
                 mem' = c[1] /\ fds' = [fds EXCEPT ![p] = [fds[p] EXCEPT ![g] = c[2]]]
    BY <1>4, <2>1, <2>2, <2>g DEF Reopen
  <2>4. CASE mem' = mem /\ fds' = fds
    BY <2>4, <1>1, <1>2, Mine
  <2>5. CASE /\ FreeFds(p) # {}
             /\ \E kind \in Kinds : \E c \in Opened(mem, kind) :
                   mem' = c[1] /\ fds' = [fds EXCEPT ![p] = [fds[p] EXCEPT ![g] = c[2]]]
    <3>k. PICK kind \in Kinds :
             \E c \in Opened(mem, kind) : mem' = c[1] /\ fds' = Put(fds, p, g, c[2])
      BY <2>5 DEF Put
    <3>1. PICK c \in Opened(mem, kind) : mem' = c[1] /\ fds' = Put(fds, p, g, c[2])
      BY <3>k
    <3>2. g \in Fds /\ fds[p][g].type = "FREE"
      BY <2>5, <2>g, <1>2, LowestFree
    <3>3. /\ c[2] \in Descs
          /\ \A u : Filled(fds, u, p, g, c[2]) => Owns(proc, u, c[1])
      BY <1>2, <3>2, OpenKeeps
    <3>4. /\ Filled(fds, Put(fds, p, g, c[2]), p, g, c[2])
          /\ \A q \in Pids : q # p => Put(fds, p, g, c[2])[q] = fds[q]
      BY <1>2, <3>2, <3>3, FillAt
    <3>5. Owns(proc, fds', mem') /\ \A q \in Pids : q # p => fds'[q] = fds[q]
      BY <3>1, <3>3, <3>4
    <3>. QED
      BY <3>5, <1>1, Mine
  <2>. QED
    BY <2>3, <2>4, <2>5
<1>. QED
  BY <1>3, <1>4

\* fm_dup2.
LEMMA Dup2Inv ==
    ASSUME Premise, Inv, NEW p \in Pids, NEW f \in Fds, NEW g \in Fds, Dup2(p, f, g)
    PROVE  Inv'
<1>1. Runs(p) /\ UNCHANGED <<proc, parent, reading>>
  BY DEF Dup2
<1>2. proc[p] = "ready" /\ fds \in Tables
  BY <1>1, RunsAt
<1>t. PICK t : t = Put(fds, p, g, FreeFd)
  OBVIOUS
<1>m. PICK m : m = ClosedAt(mem, p, g)
  OBVIOUS
<1>3. /\ t \in Tables /\ t[p][g] = FreeFd /\ Apart(fds, t, p, g) /\ Owns(proc, t, m)
      /\ \A q \in Pids : q # p => t[q] = fds[q]
  BY <1>1, <1>t, <1>m, CloseOwn DEF Cleared
<1>4. CASE f = g
  <2>1. mem' = m /\ fds' = t
    BY <1>4, <1>t, <1>m DEF Dup2, Put
  <2>. QED
    BY <2>1, <1>1, <1>3, Mine
<1>5. CASE f # g
  <2>1. t[p][f] = fds[p][f]
    BY <1>3, <1>5, Zenon DEF Apart
  <2>2. PICK c \in Copies(m, fds[p][f], p) :
           Room(m, fds[p][f]) /\ mem' = c[1] /\ fds' = [fds EXCEPT ![p][g] = c[2]]
    BY <1>5, <1>m DEF Dup2
  <2>3. c \in Copies(m, t[p][f], p) /\ Room(m, t[p][f])
    BY <2>1, <2>2
  <2>4. /\ c[2] \in Descs
        /\ \A u : Filled(t, u, p, g, c[2]) => Owns(proc, u, c[1])
    BY <1>2, <1>3, <2>3, CopyKeeps
  <2>5. t[p][g].type = "FREE"
    BY <1>3, FreeTypes
  <2>6. /\ Filled(t, Put(t, p, g, c[2]), p, g, c[2])
        /\ \A q \in Pids : q # p => Put(t, p, g, c[2])[q] = t[q]
    BY <1>3, <2>4, <2>5, FillAt
  <2>7. fds' = Put(t, p, g, c[2])
    BY <2>2, <1>t, <1>2 DEF Put, Tables
  <2>8. Owns(proc, fds', mem') /\ \A q \in Pids : q # p => fds'[q] = fds[q]
    BY <2>2, <2>4, <2>6, <2>7, <1>3
  <2>. QED
    BY <2>8, <1>1, Mine
<1>. QED
  BY <1>4, <1>5

\* fm_dup and fm_fcntl(F_DUPFD) copy to a descriptor that is free.
LEMMA DupInv ==
    ASSUME Premise, Inv, NEW p \in Pids, NEW f \in Fds, Dup(p, f) \/ DupFd(p, f)
    PROVE  Inv'
<1>1. CASE Dup(p, f)
  <2>1. LowestFd(FreeFds(p)) \in Fds
    BY <1>1, LowestFree DEF Dup, FreeFds
  <2>. QED
    BY <1>1, <2>1, Dup2Inv DEF Dup
<1>2. CASE DupFd(p, f)
  <2>. DEFINE S == {g \in FreeFds(p) : g >= f}
  <2>1. S # {} /\ Dup2(p, f, LowestFd(S))
    BY <1>2 DEF DupFd
  <2>2. S \subseteq Nat /\ S \subseteq Fds
    BY Sizes DEF FreeFds
  <2>. HIDE DEF S
  <2>3. LowestFd(S) \in Fds
    BY <2>1, <2>2, LowestIn
  <2>. QED
    BY <2>1, <2>3, Dup2Inv
<1>. QED
  BY <1>1, <1>2

\* The pipe that fm_pipe makes, and the one it is on the way.
Half(p) == [used |-> TRUE, data |-> 0, readers |-> <<p>>, writers |-> <<>>]
Whole(p) == [used |-> TRUE, data |-> 0, readers |-> <<p>>, writers |-> <<p>>]

\* The types of the two.
LEMMA HalfAt ==
    ASSUME NEW p \in Pids
    PROVE  /\ Half(p) \in PipeRec /\ PipeOK(Half(p))
           /\ Half(p).used /\ Half(p).readers = <<p>> /\ Half(p).writers = <<>>
           /\ [Half(p) EXCEPT !.writers = <<p>>] = Whole(p)
<1>1. <<p>> \in Seq(Pids) /\ <<>> \in Seq(Pids) /\ Len(<<p>>) = 1 /\ Len(<<>>) = 0 /\ <<p>> # <<>>
  OBVIOUS
<1>2. /\ Half(p).used = TRUE /\ Half(p).data = 0
      /\ Half(p).readers = <<p>> /\ Half(p).writers = <<>>
  BY DEF Half
<1>3. Half(p) \in PipeRec
  <2>1. /\ TRUE \in BOOLEAN /\ 0 \in 0 .. MaxBytes
        /\ <<p>> \in Seq(Pids) /\ <<>> \in Seq(Pids)
    BY <1>1, Sizes
  <2>. QED
    BY <2>1, Zenon DEF Half, PipeRec
<1>4. PipeOK(Half(p))
  BY <1>1, <1>2, Sizes DEF PipeOK
<1>5. [Half(p) EXCEPT !.writers = <<p>>] = Whole(p)
  <2>1. <<p>> \in Seq(Pids) /\ TRUE \in BOOLEAN /\ 0 \in 0 .. MaxBytes
    BY <1>1, Sizes
  <2>2. Whole(p) \in PipeRec
    BY <2>1, Zenon DEF Whole, PipeRec
  <2>3. /\ Whole(p).used = TRUE /\ Whole(p).data = 0
        /\ Whole(p).readers = <<p>> /\ Whole(p).writers = <<p>>
    BY DEF Whole
  <2>h. PICK half : half = Half(p)
    OBVIOUS
  <2>w. PICK list : list = <<p>>
    OBVIOUS
  <2>v. PICK whole : whole = Whole(p)
    OBVIOUS
  <2>4. [half EXCEPT !.writers = list] = whole
    <3>1. /\ half \in PipeRec /\ whole \in PipeRec /\ list \in Seq(Pids)
          /\ whole.used = half.used /\ whole.data = half.data
          /\ whole.readers = half.readers /\ whole.writers = list
      BY <1>2, <1>3, <2>1, <2>2, <2>3, <2>h, <2>w, <2>v
    <3>. QED
      BY <3>1 DEF PipeRec
  <2>. QED
    BY <2>4, <2>h, <2>w, <2>v
<1>. QED
  BY <1>2, <1>3, <1>4, <1>5

HalfMade(m, x, p) == [m EXCEPT !.pipes[x] = Half(p)]
WholeMade(m, x, p) == [m EXCEPT !.pipes[x] = Whole(p)]

\* A pipe with a reader has room for a writer.
LEMMA FirstWriter ==
    ASSUME NEW m, m \in Memory, NEW x \in Pipes, NEW p \in Pids
    PROVE  /\ HasEntry(HalfMade(m, x, p).pipes[x], "writers")
           /\ HalfMade(m, x, p) \in Memory /\ HalfMade(m, x, p).pipes[x] = Half(p)
           /\ Pushed(HalfMade(m, x, p), x, "writers", p) = WholeMade(m, x, p)
<1>m. PICK n : n = HalfMade(m, x, p)
  OBVIOUS
<1>n. n = [m EXCEPT !.pipes[x] = Half(p)]
  BY <1>m DEF HalfMade
<1>1. n \in Memory /\ n.pipes[x] = Half(p)
  BY <1>n, HalfAt, SwapAt
<1>2. HasEntry(n.pipes[x], "writers")
  <2>1. HasEntry(n.pipes[x], "writers") <=> Len(Half(p).writers) < PIPE_MAX_REF
    BY <1>1, Zenon DEF HasEntry
  <2>. QED
    BY <2>1, HalfAt, Sizes
<1>3. Append(<<>>, p) = <<p>>
  OBVIOUS
<1>4. Pushed(n, x, "writers", p) = [n EXCEPT !.pipes[x]["writers"] = Append(@, p)]
  BY <1>2, Zenon DEF Pushed
<1>5. [n EXCEPT !.pipes[x]["writers"] = Append(@, p)] = [n EXCEPT !.pipes[x].writers = Append(@, p)]
  BY Zenon
<1>6. [n EXCEPT !.pipes[x].writers = Append(@, p)] =
          [n EXCEPT !.pipes[x] = [Half(p) EXCEPT !.writers = <<p>>]]
  BY <1>1, <1>3, HalfAt
<1>7. \A pipe : [n EXCEPT !.pipes[x] = pipe] = [m EXCEPT !.pipes[x] = pipe]
  BY <1>n DEF Memory
<1>8. [Half(p) EXCEPT !.writers = <<p>>] = Whole(p)
  BY HalfAt
<1>9. Pushed(n, x, "writers", p) = [n EXCEPT !.pipes[x] = Whole(p)]
  BY <1>4, <1>5, <1>6, <1>8, Zenon
<1>10. [n EXCEPT !.pipes[x] = Whole(p)] = WholeMade(m, x, p)
  BY <1>7, Zenon DEF WholeMade
<1>11. Pushed(n, x, "writers", p) = WholeMade(m, x, p)
  BY <1>9, <1>10, Zenon
<1>. QED
  BY <1>m, <1>1, <1>2, <1>11, Zenon

\* The two lowest free descriptors.
LEMMA TwoFree ==
    ASSUME NEW p \in Pids, Cardinality(FreeFds(p)) >= 2,
           NEW r, r = LowestFd(FreeFds(p)), NEW w, w = LowestFd(FreeFds(p) \ {r})
    PROVE  r \in FreeFds(p) /\ w \in FreeFds(p) /\ w # r
<1>1. IsFiniteSet(FreeFds(p)) /\ FreeFds(p) \subseteq Nat
  BY Sizes, FS_Subset DEF FreeFds
<1>2. FreeFds(p) # {}
  BY FS_EmptySet
<1>3. r \in FreeFds(p)
  BY <1>2, LowestFree
<1>s. PICK S : S = FreeFds(p) \ {r}
  OBVIOUS
<1>4. Cardinality(S) = Cardinality(FreeFds(p)) + (-1)
  BY <1>1, <1>3, <1>s, OneLess
<1>5. Cardinality(FreeFds(p)) \in Nat
  BY <1>1, FS_CardinalityType
<1>6. S # {}
  BY <1>4, <1>5, FS_EmptySet
<1>7. w \in S
  <2>1. w = LowestFd(S) /\ S \subseteq Nat
    BY <1>1, <1>s
  <2>. QED
    BY <2>1, <1>6, LowestIn
<1>. QED
  BY <1>3, <1>7, <1>s

\* fm_pipe.
LEMMA PipeInv ==
    ASSUME Premise, Inv, NEW p \in Pids, Pipe(p)
    PROVE  Inv'
<1>x. PICK x : x = LowestFd(FreePipes)
  OBVIOUS
<1>r. PICK r : r = LowestFd(FreeFds(p))
  OBVIOUS
<1>w. PICK w : w = LowestFd(FreeFds(p) \ {r})
  OBVIOUS
<1>1. Runs(p) /\ UNCHANGED <<proc, parent, reading>> /\ FreePipes # {}
  BY DEF Pipe
<1>2. Cardinality(FreeFds(p)) >= 2
  BY DEF Pipe, Premise
<1>3. ~(Cardinality(FreeFds(p)) < 2)
  <2>1. Cardinality(FreeFds(p)) \in Nat
    BY Sizes, FS_Subset, FS_CardinalityType DEF FreeFds
  <2>. QED
    BY <1>2, <2>1
<1>4. /\ mem' = [mem EXCEPT !.pipes[x] = Whole(p)]
      /\ fds' = [fds EXCEPT ![p][r] = [type |-> "PPRD", ref |-> x],
                            ![p][w] = [type |-> "PPWR", ref |-> x]]
  BY <1>3, <1>x, <1>r, <1>w DEF Pipe, Whole
<1>5. /\ proc[p] = "ready" /\ Owns(proc, fds, mem) /\ fds \in Tables /\ mem \in Memory
      /\ FreeFds(p) \subseteq Fds /\ \A g \in FreeFds(p) : fds[p][g].type = "FREE"
  BY <1>1, RunsAt
<1>6. x \in Pipes /\ ~mem.pipes[x].used
  <2>1. FreePipes \subseteq Nat
    BY Sizes DEF FreePipes
  <2>2. x \in FreePipes
    BY <1>1, <1>x, <2>1, LowestIn
  <2>. QED
    BY <2>2 DEF FreePipes
<1>7. r \in Fds /\ w \in Fds /\ w # r /\ fds[p][r].type = "FREE" /\ fds[p][w].type = "FREE"
  BY <1>2, <1>r, <1>w, <1>5, TwoFree
<1>8. End("PPRD", x) \in Descs /\ End("PPWR", x) \in Descs
  BY <1>6 DEF End, Descs, FdTypes
<1>t. PICK t : t = Put(fds, p, r, End("PPRD", x))
  OBVIOUS
<1>u. PICK u : u = Put(t, p, w, End("PPWR", x))
  OBVIOUS
<1>9. fds' = u
  BY <1>4, <1>t, <1>u, <1>5, <1>7 DEF Put, End, Tables
<1>10. /\ Filled(fds, t, p, r, End("PPRD", x)) /\ t \in Tables
       /\ \A q \in Pids : q # p => t[q] = fds[q]
  BY <1>t, <1>5, <1>7, <1>8, FillAt, PutAt
<1>11. t[p][w] = fds[p][w]
  BY <1>t, <1>5, <1>7, <1>8, PutAt
<1>12. t[p][w].type = "FREE"
  BY <1>11, <1>7
<1>13. /\ Filled(t, u, p, w, End("PPWR", x))
       /\ \A q \in Pids : q # p => u[q] = t[q]
  BY <1>u, <1>10, <1>12, <1>7, <1>8, FillAt
<1>n. PICK n : n = [mem EXCEPT !.pipes[x] = Half(p)]
  OBVIOUS
<1>14. /\ HasEntry(n.pipes[x], "writers") /\ n \in Memory /\ n.pipes[x] = Half(p)
       /\ Pushed(n, x, "writers", p) = [mem EXCEPT !.pipes[x] = Whole(p)]
  <2>1. mem \in Memory /\ x \in Pipes
    BY <1>5, <1>6
  <2>2. n = HalfMade(mem, x, p)
    BY <1>n DEF HalfMade
  <2>. QED
    BY <2>1, <2>2, FirstWriter DEF WholeMade
<1>15. /\ Half(p) \in PipeRec /\ PipeOK(Half(p)) /\ Half(p).used
       /\ Half(p).readers = <<p>> /\ Half(p).writers = <<>>
  BY HalfAt
<1>16. /\ \A y \in Pipes : y # x => n.pipes[y] = mem.pipes[y]
       /\ n.paths = mem.paths /\ n.socks = mem.socks /\ n.refs = mem.refs
  BY <1>5, <1>6, <1>15, <1>n, SwapAt
<1>17. Owns(proc, t, n)
  BY <1>5, <1>6, <1>7, <1>10, <1>14, <1>15, <1>16, NewPipe
<1>18. Owns(proc, u, Pushed(n, x, "writers", p))
  BY <1>5, <1>6, <1>7, <1>13, <1>14, <1>15, <1>17, GrowWriter
<1>19. Owns(proc, fds', mem') /\ \A q \in Pids : q # p => fds'[q] = fds[q]
  BY <1>4, <1>9, <1>10, <1>13, <1>14, <1>18
<1>. QED
  BY <1>19, <1>1, Mine

\* socket_socket.
LEMMA OpenSocketInv ==
    ASSUME Inv, NEW p \in Pids, OpenSocket(p)
    PROVE  Inv'
<1>g. PICK g : g = LowestFd(FreeFds(p))
  OBVIOUS
<1>1. Runs(p) /\ UNCHANGED <<proc, parent, reading>> /\ FreeFds(p) # {}
  BY DEF OpenSocket
<1>2. PICK s \in Socks \ mem.socks :
         /\ mem' = [mem EXCEPT !.socks = @ \cup {s}, !.refs[s] = 1]
         /\ fds' = [fds EXCEPT ![p][g] = [type |-> "SOCK", ref |-> s]]
  BY <1>g DEF OpenSocket
<1>3. /\ proc[p] = "ready" /\ Owns(proc, fds, mem) /\ fds \in Tables
      /\ FreeFds(p) \subseteq Fds /\ \A f \in FreeFds(p) : fds[p][f].type = "FREE"
  BY <1>1, RunsAt
<1>4. g \in Fds /\ fds[p][g].type = "FREE"
  BY <1>1, <1>3, <1>g, LowestFree
<1>5. End("SOCK", s) \in Descs
  BY DEF End, Descs, FdTypes
<1>6. fds' = Put(fds, p, g, End("SOCK", s))
  BY <1>2 DEF Put, End
<1>7. /\ Filled(fds, fds', p, g, End("SOCK", s))
      /\ \A q \in Pids : q # p => fds'[q] = fds[q]
  BY <1>3, <1>4, <1>5, <1>6, FillAt
<1>8. Owns(proc, fds', mem')
  BY <1>2, <1>3, <1>4, <1>7, NewSocket
<1>. QED
  BY <1>1, <1>7, <1>8, Mine

\* Bytes that are read leave the lists alone.
LEMMA TakenAt ==
    ASSUME NEW pipe, pipe \in PipeRec, PipeOK(pipe), NEW n \in 1 .. MaxBytes
    PROVE  /\ Taken(pipe, n) \in PipeRec /\ PipeOK(Taken(pipe, n))
           /\ Taken(pipe, n).readers = pipe.readers
           /\ Taken(pipe, n).writers = pipe.writers
<1>. DEFINE d == IF pipe.data < n THEN 0 ELSE pipe.data - n
<1>1. Taken(pipe, n) = [pipe EXCEPT !.data = d]
  BY DEF Taken
<1>2. d \in 0 .. MaxBytes
  BY Sizes DEF PipeRec
<1>. HIDE DEF d
<1>3. /\ [pipe EXCEPT !.data = d] \in PipeRec
      /\ [pipe EXCEPT !.data = d].readers = pipe.readers
      /\ [pipe EXCEPT !.data = d].writers = pipe.writers
      /\ [pipe EXCEPT !.data = d].used = pipe.used
  BY <1>2 DEF PipeRec
<1>. QED
  BY <1>1, <1>3 DEF PipeOK

\* fm_pread of a pipe with an answer.
LEMMA PreadInv ==
    ASSUME Inv, NEW p \in Pids, NEW f \in Fds, NEW n \in 1 .. MaxBytes, Pread(p, f, n)
    PROVE  Inv'
<1>x. PICK x : x = fds[p][f].ref
  OBVIOUS
<1>1. /\ Runs(p) /\ UNCHANGED <<proc, parent, reading>> /\ fds' = fds
      /\ fds[p][f].type = "PPRD"
      /\ mem' = [mem EXCEPT !.pipes[x] = Taken(mem.pipes[x], n)]
  BY <1>x DEF Pread
<1>2. Owns(proc, fds, mem) /\ Shape(fds, mem)
  BY <1>1, RunsAt
<1>3. x \in Pipes
  BY <1>1, <1>2, <1>x, DescAt
<1>4. mem.pipes[x] \in PipeRec /\ PipeOK(mem.pipes[x])
  BY <1>2, <1>3, ShapeAt
<1>5. /\ Taken(mem.pipes[x], n) \in PipeRec /\ PipeOK(Taken(mem.pipes[x], n))
      /\ Taken(mem.pipes[x], n).readers = mem.pipes[x].readers
      /\ Taken(mem.pipes[x], n).writers = mem.pipes[x].writers
  BY <1>4, TakenAt
<1>6. Owns(proc, fds, mem')
  BY <1>1, <1>2, <1>3, <1>5, SwapKeeps
<1>. QED
  BY <1>1, <1>6, Mine

\* fm_pwrite.
LEMMA PwriteInv ==
    ASSUME Inv, NEW p \in Pids, NEW f \in Fds, Pwrite(p, f)
    PROVE  Inv'
<1>x. PICK x : x = fds[p][f].ref
  OBVIOUS
<1>1. /\ Runs(p) /\ UNCHANGED <<proc, parent, reading>> /\ fds' = fds
      /\ fds[p][f].type = "PPWR"
      /\ mem.pipes[x].data < MaxBytes
      /\ mem' = [mem EXCEPT !.pipes[x].data = @ + 1]
  BY <1>x DEF Pwrite
<1>2. Owns(proc, fds, mem) /\ Shape(fds, mem)
  BY <1>1, RunsAt
<1>3. x \in Pipes
  BY <1>1, <1>2, <1>x, DescAt
<1>4. mem.pipes[x] \in PipeRec /\ PipeOK(mem.pipes[x])
  BY <1>2, <1>3, ShapeAt
<1>c. PICK pipe : pipe = mem.pipes[x]
  OBVIOUS
<1>d. PICK d : d = pipe.data + 1
  OBVIOUS
<1>5. d \in 0 .. MaxBytes /\ pipe \in PipeRec /\ PipeOK(pipe)
  <2>1. pipe \in PipeRec /\ PipeOK(pipe) /\ pipe.data < MaxBytes
    BY <1>1, <1>4, <1>c
  <2>2. pipe.data \in 0 .. MaxBytes
    BY <2>1 DEF PipeRec
  <2>. QED
    BY <2>1, <2>2, <1>d, Sizes
<1>6. mem' = [mem EXCEPT !.pipes[x] = [pipe EXCEPT !.data = d]]
  BY <1>1, <1>c, <1>d
<1>7. /\ [pipe EXCEPT !.data = d] \in PipeRec
      /\ [pipe EXCEPT !.data = d].readers = pipe.readers
      /\ [pipe EXCEPT !.data = d].writers = pipe.writers
      /\ [pipe EXCEPT !.data = d].used = pipe.used
  BY <1>5 DEF PipeRec
<1>8. PipeOK([pipe EXCEPT !.data = d])
  BY <1>5, <1>7 DEF PipeOK
<1>9. /\ [pipe EXCEPT !.data = d].readers = mem.pipes[x].readers
      /\ [pipe EXCEPT !.data = d].writers = mem.pipes[x].writers
  BY <1>7, <1>c
<1>10. Owns(proc, fds, mem')
  BY <1>6, <1>2, <1>3, <1>7, <1>8, <1>9, SwapKeeps
<1>. QED
  BY <1>1, <1>10, Mine

\* A process falls asleep or wakes up, and has no child that waits for it.
LEMMA Turns ==
    ASSUME Inv, NEW p \in Pids, NEW s \in {"ready", "asleep"}, proc[p] \in {"ready", "asleep"},
           NEW r \in Fds \cup {-1},
           proc' = [proc EXCEPT ![p] = s], reading' = [reading EXCEPT ![p] = r],
           UNCHANGED <<parent, fds>>,
           \A q \in Pids : ~(proc[q] = "new" /\ parent[q] = p),
           s = "asleep" => r \in Fds /\ fds[p][r].type = "PPRD",
           Owns(proc, fds, mem')
    PROVE  Inv'
<1>1. /\ proc' \in [Pids -> ProcStates]
      /\ reading' \in [Pids -> Fds \cup {-1}]
      /\ parent' \in [Pids -> 0 .. MaxPid]
      /\ proc'[p] = s /\ reading'[p] = r
      /\ \A q \in Pids : q # p => proc'[q] = proc[q] /\ reading'[q] = reading[q]
      /\ parent' = parent /\ fds' = fds
  BY DEF Inv, ProcStates
<1>2. Owns(proc', fds, mem')
  <2>1. \A q \in Pids : proc[q] = "new" <=> proc'[q] = "new"
    BY <1>1
  <2>2. \A q \in Pids : \A a, b \in Nat : Fits(proc[q], a, b) => Fits(proc'[q], a, b)
    <3>. SUFFICES ASSUME NEW q \in Pids, NEW a \in Nat, NEW b \in Nat, Fits(proc[q], a, b)
                  PROVE  Fits(proc'[q], a, b)
      OBVIOUS
    <3>1. CASE q # p
      BY <3>1, <1>1
    <3>2. CASE q = p
      BY <3>2, <1>1 DEF Fits
    <3>. QED
      BY <3>1, <3>2
  <2>. QED
    BY <2>1, <2>2, StatesKeep
<1>3. Undeclared'
  <2>. SUFFICES ASSUME NEW q \in Pids, proc'[q] = "new"
                PROVE  /\ parent[q] \in Pids
                       /\ proc'[parent[q]] \in {"ready", "dead", "victim"}
                       /\ proc'[parent[q]] = "ready" => fds[q] = fds[parent[q]]
                       /\ \A f \in Fds : fds[q][f].type # "DIR"
    BY <1>1 DEF Undeclared
  <2>1. q # p /\ proc[q] = "new" /\ parent[q] # p
    BY <1>1
  <2>2. /\ parent[q] \in Pids
        /\ proc[parent[q]] \in {"ready", "dead", "victim"}
        /\ proc[parent[q]] = "ready" => fds[q] = fds[parent[q]]
        /\ \A f \in Fds : fds[q][f].type # "DIR"
    BY <2>1 DEF Inv, Undeclared
  <2>. QED
    BY <2>1, <2>2, <1>1
<1>4. Others'
  <2>1. ASSUME NEW q \in Pids, proc'[q] \in {"none", "dead", "victim"}, NEW f \in Fds
        PROVE  fds[q][f] = FreeFd
    <3>1. q # p /\ proc[q] \in {"none", "dead", "victim"}
      BY <1>1, <2>1
    <3>. QED
      BY <3>1 DEF Inv, Others
  <2>2. ASSUME NEW q \in Pids, proc'[q] = "asleep"
        PROVE  reading'[q] \in Fds /\ fds[q][reading'[q]].type = "PPRD"
    <3>1. CASE q = p
      BY <3>1, <2>2, <1>1
    <3>2. CASE q # p
      BY <3>2, <2>2, <1>1 DEF Inv, Others
    <3>. QED
      BY <3>1, <3>2
  <2>. QED
    BY <2>1, <2>2, <1>1 DEF Others
<1>5. Owns(proc', fds', mem')
  BY <1>1, <1>2
<1>. QED
  BY <1>1, <1>3, <1>4, <1>5 DEF Inv

\* fm_pread of an empty pipe.
LEMMA PreadSleepInv ==
    ASSUME Inv, NEW p \in Pids, NEW f \in Fds, PreadSleep(p, f)
    PROVE  Inv'
<1>1. /\ Runs(p) /\ proc[p] = "ready"
      /\ \A q \in Pids : ~(proc[q] = "new" /\ parent[q] = p)
      /\ fds[p][f].type = "PPRD"
      /\ proc' = [proc EXCEPT ![p] = "asleep"] /\ reading' = [reading EXCEPT ![p] = f]
      /\ UNCHANGED <<parent, fds, mem>>
  BY DEF PreadSleep, Runs
<1>2. Owns(proc, fds, mem')
  BY <1>1 DEF Inv
<1>. QED
  BY <1>1, <1>2, Turns

\* A writer that is taken out of the list is a victim.
LEMMA PurgedAt ==
    ASSUME Inv, NEW x \in Pipes, mem.pipes[x].readers # <<>>
    PROVE  /\ Purged(mem.pipes[x]) \in PipeRec /\ PipeOK(Purged(mem.pipes[x]))
           /\ Purged(mem.pipes[x]).readers = mem.pipes[x].readers
           /\ \A q \in Pids : proc[q] # "victim" =>
                 Occ(Purged(mem.pipes[x]).writers, q) = Occ(mem.pipes[x].writers, q)
<1>c. PICK pipe : pipe = mem.pipes[x]
  OBVIOUS
<1>1. Owns(proc, fds, mem) /\ Shape(fds, mem) /\ Listed(proc, fds, mem) /\ Others
  BY DEF Inv, Owns
<1>2. /\ pipe \in PipeRec /\ PipeOK(pipe) /\ pipe.readers # <<>>
      /\ pipe.writers \in Seq(Pids) /\ Writers(mem)[x] = pipe.writers
  BY <1>1, <1>c, ShapeAt
<1>3. CASE FirstDead(pipe) = {}
  <2>1. Purged(pipe) = pipe
    BY <1>3 DEF Purged
  <2>. QED
    BY <2>1, <1>2, <1>c
<1>4. CASE FirstDead(pipe) # {}
  <2>i. PICK i : i = CHOOSE j \in FirstDead(pipe) : TRUE
    OBVIOUS
  <2>1. i \in FirstDead(pipe)
    BY <2>i, <1>4
  <2>2. i \in 1 .. Len(pipe.writers) /\ ~IsAlive(pipe.writers[i])
    BY <2>1 DEF FirstDead
  <2>e. PICK e : e = pipe.writers[i]
    OBVIOUS
  <2>3. e \in Pids /\ ~IsAlive(e)
    BY <2>2, <2>e, <1>2
  <2>4. proc[e] \in {"none", "dead", "victim"}
    BY <2>3 DEF IsAlive, Inv, ProcStates
  <2>5. Occ(pipe.writers, e) # 0
    <3>1. \E j \in DOMAIN pipe.writers : pipe.writers[j] = e
      BY <2>2, <2>e, <1>2
    <3>. QED
      BY <3>1, <1>2, OccType
  <2>6. Fits(proc[e], Occ(pipe.writers, e), Held(fds, e, End("PPWR", x)))
    <3>1. Fits(proc[e], Occ(Writers(mem)[x], e), Held(fds, e, End("PPWR", x)))
      BY <1>1, <2>3 DEF Listed, SideFits
    <3>. QED
      BY <3>1, <1>2
  <2>7. proc[e] = "victim"
    <3>1. CASE proc[e] = "none"
      BY <3>1, <2>5, <2>6 DEF Fits
    <3>2. CASE proc[e] = "dead"
      <4>1. \A f \in Fds : fds[e][f] # End("PPWR", x)
        BY <3>2, <2>3, <1>1 DEF Others, FreeFd, End
      <4>2. Held(fds, e, End("PPWR", x)) = 0
        BY <4>1, HeldType
      <4>. QED
        BY <3>2, <4>2, <2>5, <2>6 DEF Fits
    <3>. QED
      BY <2>4, <3>1, <3>2
  <2>w. PICK w : w = RemoveAt(pipe.writers, i)
    OBVIOUS
  <2>8. w \in Seq(Pids) /\ Len(w) = Len(pipe.writers) - 1
    BY <2>w, <2>2, <1>2, OccRemoveAt
  <2>9. \A q \in Pids : q # e => Occ(w, q) = Occ(pipe.writers, q)
    BY <2>w, <2>e, <2>2, <1>2, OccRemoveAt
  <2>10. Purged(pipe) = [pipe EXCEPT !.writers = w]
    BY <1>4, <2>i, <2>w DEF Purged
  <2>11. /\ [pipe EXCEPT !.writers = w] \in PipeRec
         /\ [pipe EXCEPT !.writers = w].readers = pipe.readers
         /\ [pipe EXCEPT !.writers = w].writers = w
         /\ [pipe EXCEPT !.writers = w].used = pipe.used
    BY <1>2, <2>8 DEF PipeRec
  <2>12. PipeOK([pipe EXCEPT !.writers = w])
    <3>1. Len(w) <= PIPE_MAX_REF
      BY <1>2, <2>8, Sizes DEF PipeOK
    <3>. QED
      BY <3>1, <1>2, <2>11 DEF PipeOK
  <2>. QED
    BY <2>7, <2>9, <2>10, <2>11, <2>12, <1>c
<1>. QED
  BY <1>3, <1>4

\* A sleeper in fm_pread gets the CPU.
LEMMA PreadWakeInv ==
    ASSUME Inv, NEW p \in Pids, NEW n \in 1 .. MaxBytes, PreadWake(p, n)
    PROVE  Inv'
<1>f. PICK f : f = reading[p]
  OBVIOUS
<1>x. PICK x : x = fds[p][f].ref
  OBVIOUS
<1>c. PICK pipe : pipe = Purged(mem.pipes[x])
  OBVIOUS
<1>1. proc[p] = "asleep" /\ UNCHANGED <<parent, fds>>
  BY DEF PreadWake
<1>2. \/ mem' = [mem EXCEPT !.pipes[x] = pipe] /\ UNCHANGED <<proc, reading>>
      \/ /\ mem' = [mem EXCEPT !.pipes[x] = Taken(pipe, n)]
         /\ proc' = [proc EXCEPT ![p] = "ready"]
         /\ reading' = [reading EXCEPT ![p] = -1]
  BY <1>f, <1>x, <1>c DEF PreadWake
<1>3. Owns(proc, fds, mem) /\ Shape(fds, mem)
  BY DEF Inv, Owns
<1>4. f \in Fds /\ fds[p][f].type = "PPRD"
  BY <1>1, <1>f DEF Inv, Others
<1>5. x \in Pipes /\ fds[p][f] = End("PPRD", x)
  BY <1>3, <1>4, <1>x, DescAt
<1>6. mem.pipes[x].readers # <<>>
  <2>1. Occ(mem.pipes[x].readers, p) > 0
    BY <1>1, <1>3, <1>4, <1>5, EndUsed
  <2>2. mem.pipes[x].readers \in Seq(Pids)
    BY <1>3, <1>5, ShapeAt
  <2>. QED
    BY <2>1, <2>2, OccNonempty
<1>7. /\ pipe \in PipeRec /\ PipeOK(pipe)
      /\ pipe.readers = mem.pipes[x].readers
      /\ \A q \in Pids : proc[q] # "victim" => Occ(pipe.writers, q) = Occ(mem.pipes[x].writers, q)
  BY <1>5, <1>6, <1>c, PurgedAt
<1>8. /\ Taken(pipe, n) \in PipeRec /\ PipeOK(Taken(pipe, n))
      /\ Taken(pipe, n).readers = pipe.readers
      /\ Taken(pipe, n).writers = pipe.writers
  BY <1>7, TakenAt
<1>9. Owns(proc, fds, mem')
  <2>1. Owns(proc, fds, [mem EXCEPT !.pipes[x] = pipe])
    BY <1>3, <1>5, <1>7, SwapKeeps
  <2>2. Owns(proc, fds, [mem EXCEPT !.pipes[x] = Taken(pipe, n)])
    BY <1>3, <1>5, <1>7, <1>8, SwapKeeps
  <2>. QED
    BY <1>2, <2>1, <2>2
<1>10. \A q \in Pids : ~(proc[q] = "new" /\ parent[q] = p)
  BY <1>1 DEF Inv, Undeclared
<1>11. proc \in [Pids -> ProcStates] /\ reading \in [Pids -> Fds \cup {-1}]
  BY DEF Inv
<1>12. CASE UNCHANGED <<proc, reading>>
  <2>1. proc' = [proc EXCEPT ![p] = "asleep"] /\ reading' = [reading EXCEPT ![p] = f]
    BY <1>1, <1>11, <1>12, <1>f
  <2>. QED
    BY <2>1, <1>1, <1>4, <1>9, <1>10, Turns
<1>13. CASE proc' = [proc EXCEPT ![p] = "ready"] /\ reading' = [reading EXCEPT ![p] = -1]
  BY <1>13, <1>1, <1>9, <1>10, Turns
<1>. QED
  BY <1>2, <1>12, <1>13

\* process_fork.
LEMMA ForkInv ==
    ASSUME Premise, Inv, NEW p \in Pids, Fork(p)
    PROVE  Inv'
<1>1. Runs(p) /\ proc[p] = "ready" /\ \A f \in Fds : fds[p][f].type # "DIR"
  BY DEF Fork, Runs, Premise
<1>2. PICK q \in Pids :
         /\ proc[q] = "none"
         /\ proc' = [proc EXCEPT ![q] = "new"]
         /\ parent' = [parent EXCEPT ![q] = p]
         /\ fds' = [fds EXCEPT ![q] = fds[p]]
         /\ UNCHANGED <<reading, mem>>
  BY DEF Fork
<1>3. Owns(proc, fds, mem) /\ Shape(fds, mem) /\ fds \in Tables /\ fds[p] \in [Fds -> Descs]
  BY <1>1, RunsAt
<1>4. q # p /\ \A f \in Fds : fds[q][f] = FreeFd
  BY <1>1, <1>2 DEF Inv, Others
<1>5. /\ proc' \in [Pids -> ProcStates] /\ proc'[q] = "new"
      /\ \A o \in Pids : o # q => proc'[o] = proc[o]
      /\ parent' \in [Pids -> 0 .. MaxPid] /\ parent'[q] = p
      /\ \A o \in Pids : o # q => parent'[o] = parent[o]
  BY <1>2 DEF Inv, ProcStates, Pids
<1>6. /\ fds' \in Tables /\ fds'[q] = fds[p]
      /\ \A o \in Pids : o # q => fds'[o] = fds[o]
  <2>1. fds' = [fds EXCEPT ![q] = fds[p]]
    BY <1>2
  <2>. QED
    BY <2>1, <1>3 DEF Tables
<1>7. Shape(fds', mem)
  <2>1. ASSUME NEW o \in Pids, NEW f \in Fds
        PROVE  \E e \in Pids : fds'[o][f] = fds[e][f]
    BY <1>6
  <2>. QED
    BY <1>3, <1>6, <2>1 DEF Shape
<1>8. Listed(proc', fds', mem)
  <2>1. ASSUME NEW type, NEW lists, SideFits(proc, fds, type, lists)
        PROVE  SideFits(proc', fds', type, lists)
    <3>. SUFFICES ASSUME NEW o \in Pids, NEW x \in Pipes
                  PROVE  Fits(proc'[o], Occ(lists[x], o), Held(fds', o, End(type, x)))
      BY DEF SideFits
    <3>1. Fits(proc[o], Occ(lists[x], o), Held(fds, o, End(type, x)))
      BY <2>1 DEF SideFits
    <3>2. CASE o # q
      <4>1. Held(fds', o, End(type, x)) = Held(fds, o, End(type, x))
        BY <3>2, <1>6, Zenon DEF Held
      <4>. QED
        BY <3>1, <3>2, <4>1, <1>5
    <3>3. CASE o = q
      <4>1. Occ(lists[x], o) = 0
        BY <3>1, <3>3, <1>2 DEF Fits
      <4>. QED
        BY <3>3, <4>1, <1>5 DEF Fits
    <3>. QED
      BY <3>2, <3>3
  <2>. QED
    BY <2>1, <1>3 DEF Listed, Owns
<1>9. FreeFd.type # "DIR" /\ FreeFd.type # "SOCK"
  BY FreeTypes
<1>10. PathsFit(fds', mem)
  <2>1. PathsFit(fds, mem)
    BY <1>3 DEF Owns
  <2>2. \A f \in Fds : fds'[q][f].type # "DIR" /\ fds[q][f].type # "DIR"
    BY <1>1, <1>4, <1>6, <1>9
  <2>3. ASSUME NEW a \in mem.paths
        PROVE  \E o \in Pids : \E f \in Fds : fds'[o][f] = End("DIR", a)
    <3>1. PICK o \in Pids, f \in Fds : fds[o][f] = End("DIR", a)
      BY <2>1 DEF PathsFit
    <3>2. o # q
      BY <3>1, <2>2 DEF End
    <3>. QED
      BY <3>1, <3>2, <1>6
  <2>4. ASSUME NEW o \in Pids, NEW e \in Pids, NEW f \in Fds, NEW g \in Fds,
               fds'[o][f].type = "DIR", fds'[o][f] = fds'[e][g]
        PROVE  o = e /\ f = g
    <3>1. fds'[e][g].type = "DIR"
      BY <2>4
    <3>2. o # q /\ e # q
      BY <2>2, <2>4, <3>1
    <3>3. fds[o][f].type = "DIR" /\ fds[o][f] = fds[e][g]
      BY <2>4, <3>2, <1>6
    <3>. QED
      BY <2>1, <3>3, OneOwner
  <2>. QED
    BY <2>3, <2>4 DEF PathsFit
<1>11. RefsFit(proc', fds', mem)
  <2>1. RefsFit(proc, fds, mem)
    BY <1>3 DEF Owns
  <2>2. ASSUME NEW s \in mem.socks
        PROVE  Users(proc', fds', s) = Users(proc, fds, s)
    <3>1. ASSUME NEW o \in Pids, NEW f \in Fds
          PROVE  proc[o] # "new" /\ fds[o][f] = End("SOCK", s)
                    <=> proc'[o] # "new" /\ fds'[o][f] = End("SOCK", s)
      <4>1. CASE o # q
        BY <4>1, <1>5, <1>6
      <4>2. CASE o = q
        BY <4>2, <1>4, <1>5, <1>9 DEF End
      <4>. QED
        BY <4>1, <4>2
    <3>. QED
      BY <3>1, UsersSame
  <2>. QED
    BY <2>1, <2>2 DEF RefsFit
<1>12. Undeclared'
  <2>. SUFFICES ASSUME NEW o \in Pids, proc'[o] = "new"
                PROVE  /\ parent'[o] \in Pids
                       /\ proc'[parent'[o]] \in {"ready", "dead", "victim"}
                       /\ proc'[parent'[o]] = "ready" => fds'[o] = fds'[parent'[o]]
                       /\ \A f \in Fds : fds'[o][f].type # "DIR"
    BY DEF Undeclared
  <2>1. CASE o = q
    BY <2>1, <1>1, <1>4, <1>5, <1>6
  <2>2. CASE o # q
    <3>1. /\ parent[o] \in Pids
          /\ proc[parent[o]] \in {"ready", "dead", "victim"}
          /\ proc[parent[o]] = "ready" => fds[o] = fds[parent[o]]
          /\ \A f \in Fds : fds[o][f].type # "DIR"
      BY <2>2, <1>5 DEF Inv, Undeclared
    <3>2. parent[o] # q
      BY <3>1, <1>2
    <3>. QED
      BY <2>2, <3>1, <3>2, <1>5, <1>6
  <2>. QED
    BY <2>1, <2>2
<1>13. Others'
  <2>1. ASSUME NEW o \in Pids, proc'[o] \in {"none", "dead", "victim"}, NEW f \in Fds
        PROVE  fds'[o][f] = FreeFd
    BY <2>1, <1>5, <1>6 DEF Inv, Others
  <2>2. ASSUME NEW o \in Pids, proc'[o] = "asleep"
        PROVE  reading[o] \in Fds /\ fds'[o][reading[o]].type = "PPRD"
    BY <2>2, <1>5, <1>6 DEF Inv, Others
  <2>. QED
    BY <2>1, <2>2, <1>2 DEF Others
<1>14. Owns(proc', fds', mem')
  BY <1>2, <1>7, <1>8, <1>10, <1>11 DEF Owns
<1>15. reading' \in [Pids -> Fds \cup {-1}]
  BY <1>2 DEF Inv
<1>. QED
  BY <1>5, <1>12, <1>13, <1>14, <1>15 DEF Inv

-----------------------------------------------------------------------------
(* Loops.                                                                  *)

\* What holds before the first round and is kept by every round holds after all.
LEMMA UpTo ==
    ASSUME NEW n \in Nat, NEW S, 0 \in S, \A i \in 0 .. n - 1 : i \in S => i + 1 \in S
    PROVE  \A i \in 0 .. n : i \in S
<1>. DEFINE T == {i \in 0 .. n : i \notin S}
<1>1. SUFFICES ASSUME T # {} PROVE FALSE
  OBVIOUS
<1>2. T \subseteq Nat
  OBVIOUS
<1>3. PICK x \in T : \A y \in T : x <= y
  <2>. HIDE DEF T
  <2>. QED
    BY <1>1, <1>2, LeastNumber
<1>4. x \in 0 .. n /\ x # 0
  OBVIOUS
<1>5. x - 1 \in 0 .. n - 1 /\ x - 1 \in 0 .. n /\ ~(x <= x - 1) /\ x - 1 + 1 = x
  BY <1>4
<1>6. x - 1 \in S
  BY <1>3, <1>5
<1>. QED
  BY <1>5, <1>6

\* Round i of the loops of the module: fm_declare_child, __atdeath, process_kill.
Round(kind, acc, i, p, k, victims) ==
    CASE kind = "declare" -> Declared(acc, fds[p][i - 1], k)
      [] kind = "close"   -> Closed(acc, fds[p][i - 1], k)
      [] kind = "kill"    -> IF i \in victims THEN ClosedAll(acc, i, k) ELSE acc

\* f[i] is what the loop has after i of n rounds.
IsLoop(f, kind, base, p, k, victims, n) ==
    f = [i \in 0 .. n |-> IF i = 0 THEN base ELSE Round(kind, f[i - 1], i, p, k, victims)]

\* All the rounds.
Rounds(f, kind, base, p, k, victims, n) ==
    \A i \in 0 .. n : f[i] = IF i = 0 THEN base ELSE Round(kind, f[i - 1], i, p, k, victims)

\* A loop goes through its rounds.
LEMMA LoopRounds ==
    ASSUME NEW f, NEW kind, NEW base, NEW p, NEW k, NEW victims, NEW n,
           IsLoop(f, kind, base, p, k, victims, n)
    PROVE  Rounds(f, kind, base, p, k, victims, n)
<1>1. PICK g : g = [j \in 0 .. n |-> IF j = 0 THEN base
                                     ELSE Round(kind, f[j - 1], j, p, k, victims)]
  OBVIOUS
<1>2. f = g
  BY <1>1, Zenon DEF IsLoop
<1>3. ASSUME NEW i \in 0 .. n
      PROVE  g[i] = IF i = 0 THEN base ELSE Round(kind, f[i - 1], i, p, k, victims)
  BY <1>1, Zenon
<1>. QED
  BY <1>2, <1>3, Zenon DEF Rounds

\* The loop is a function of the number of rounds.
LEMMA LoopExists ==
    ASSUME NEW kind, NEW base, NEW p, NEW k, NEW victims, NEW n \in Nat
    PROVE  \E f : IsLoop(f, kind, base, p, k, victims, n)
<1>. DEFINE S == {m \in Nat : \E f : IsLoop(f, kind, base, p, k, victims, m)}
<1>1. ASSUME NEW m \in Nat, \E f : IsLoop(f, kind, base, p, k, victims, m)
      PROVE  \E f : IsLoop(f, kind, base, p, k, victims, m + 1)
  <2>1. PICK f : IsLoop(f, kind, base, p, k, victims, m)
    BY <1>1
  <2>. DEFINE g == [i \in 0 .. m + 1 |-> IF i = 0 THEN base
                                         ELSE Round(kind, f[i - 1], i, p, k, victims)]
  <2>2. \A i \in 0 .. m : g[i] = f[i]
    <3>. SUFFICES ASSUME NEW i \in 0 .. m
                  PROVE  g[i] = f[i]
      OBVIOUS
    <3>1. i \in 0 .. m + 1
      OBVIOUS
    <3>2. g[i] = IF i = 0 THEN base ELSE Round(kind, f[i - 1], i, p, k, victims)
      BY <3>1, Zenon
    <3>3. f[i] = IF i = 0 THEN base ELSE Round(kind, f[i - 1], i, p, k, victims)
      <4>. HIDE DEF g, S
      <4>1. Rounds(f, kind, base, p, k, victims, m)
        BY <2>1, LoopRounds
      <4>. QED
        BY <4>1 DEF Rounds
    <3>. QED
      BY <3>2, <3>3, Zenon
  <2>3. g = [i \in 0 .. m + 1 |-> IF i = 0 THEN base
                                  ELSE Round(kind, g[i - 1], i, p, k, victims)]
    <3>1. \A i \in 0 .. m + 1 : i # 0 => i - 1 \in 0 .. m
      OBVIOUS
    <3>2. \A i \in 0 .. m + 1 : i # 0 => g[i - 1] = f[i - 1]
      BY <2>2, <3>1
    <3>. QED
      BY <3>2
  <2>. HIDE DEF g
  <2>. QED
    BY <2>3 DEF IsLoop
<1>2. \E f : IsLoop(f, kind, base, p, k, victims, 0)
  <2>. DEFINE f == [i \in 0 .. 0 |-> base]
  <2>1. IsLoop(f, kind, base, p, k, victims, 0)
    BY DEF IsLoop
  <2>. QED
    BY <2>1
<1>3. 0 \in S /\ \A i \in 0 .. n - 1 : i \in S => i + 1 \in S
  BY <1>1, <1>2
<1>4. n \in 0 .. n
  OBVIOUS
<1>5. n \in S
  <2>. HIDE DEF S
  <2>. QED
    BY <1>3, <1>4, UpTo
<1>. QED
  BY <1>5

\* Row p of the table, as far as the loop of __atdeath has come.
RowClosed(t, p, n) == [t EXCEPT ![p] = [f \in Fds |-> IF f < n THEN FreeFd ELSE t[p][f]]]

\* All of the row.
RowFree(t, p) == [t EXCEPT ![p] = [f \in Fds |-> FreeFd]]

\* The rows before, after and during the loop.
LEMMA RowClosedAt ==
    ASSUME NEW t, t \in Tables, NEW p \in Pids
    PROVE  /\ RowClosed(t, p, 0) = t
           /\ RowClosed(t, p, MAX_FD) = RowFree(t, p)
           /\ \A n \in Fds : /\ RowClosed(t, p, n)[p][n] = t[p][n]
                             /\ Cleared(RowClosed(t, p, n), RowClosed(t, p, n + 1), p, n)
<1>1. t[p] \in [Fds -> Descs]
  BY DEF Tables
<1>2. FreeFd \in Descs
  BY FreeTypes
<1>3. \A n \in Nat : /\ RowClosed(t, p, n) \in Tables
                     /\ \A f \in Fds : RowClosed(t, p, n)[p][f] = IF f < n THEN FreeFd ELSE t[p][f]
                     /\ \A q \in Pids : q # p => RowClosed(t, p, n)[q] = t[q]
  BY <1>1, <1>2 DEF RowClosed, Tables
<1>4. RowClosed(t, p, 0) = t
  <2>1. [f \in Fds |-> IF f < 0 THEN FreeFd ELSE t[p][f]] = t[p]
    <3>1. \A f \in Fds : ~(f < 0)
      BY DEF Fds
    <3>2. [f \in Fds |-> IF f < 0 THEN FreeFd ELSE t[p][f]] = [f \in Fds |-> t[p][f]]
      BY <3>1
    <3>. QED
      BY <1>1, <3>2
  <2>2. [t EXCEPT ![p] = t[p]] = t
    BY DEF Tables
  <2>. QED
    BY <2>1, <2>2, Zenon DEF RowClosed
<1>5. RowClosed(t, p, MAX_FD) = RowFree(t, p)
  <2>1. [f \in Fds |-> IF f < MAX_FD THEN FreeFd ELSE t[p][f]] = [f \in Fds |-> FreeFd]
    BY Sizes DEF Fds
  <2>. QED
    BY <2>1, Zenon DEF RowClosed, RowFree
<1>6. ASSUME NEW n \in Fds
      PROVE  /\ RowClosed(t, p, n)[p][n] = t[p][n]
             /\ Cleared(RowClosed(t, p, n), RowClosed(t, p, n + 1), p, n)
  <2>1. n \in Nat /\ n + 1 \in Nat /\ ~(n < n) /\ n < n + 1
    BY Sizes
  <2>2. RowClosed(t, p, n)[p][n] = t[p][n] /\ RowClosed(t, p, n + 1)[p][n] = FreeFd
    BY <1>3, <2>1
  <2>3. ASSUME NEW q \in Pids, NEW f \in Fds, q # p \/ f # n
        PROVE  RowClosed(t, p, n + 1)[q][f] = RowClosed(t, p, n)[q][f]
    <3>1. CASE q # p
      BY <3>1, <1>3, <2>1
    <3>2. CASE q = p
      <4>1. f # n /\ f \in Nat
        BY <2>3, <3>2, Sizes
      <4>2. f < n <=> f < n + 1
        BY <2>1, <4>1
      <4>. QED
        BY <1>3, <2>1, <3>2, <4>2
    <3>. QED
      BY <3>1, <3>2
  <2>4. RowClosed(t, p, n + 1) \in Tables
    BY <1>3, <2>1
  <2>. QED
    BY <2>2, <2>3, <2>4 DEF Cleared, Apart
<1>. QED
  BY <1>4, <1>5, <1>6

\* __atdeath closes the descriptors of one process, one after the other.
LEMMA ClosedAllKeeps ==
    ASSUME NEW pr, NEW t, NEW m, Owns(pr, t, m), NEW p \in Pids, t[p] = fds[p],
           NEW k \in Pids, Closer(pr, p, k)
    PROVE  Owns(pr, RowFree(t, p), ClosedAll(m, p, k))
<1>1. PICK L : IsLoop(L, "close", m, p, k, {}, MAX_FD) /\ ClosedAll(m, p, k) = L[MAX_FD]
  <2>. DEFINE P(f) == f = [n \in 0 .. MAX_FD |->
                             IF n = 0 THEN m ELSE Closed(f[n - 1], fds[p][n - 1], k)]
  <2>1. ASSUME NEW f PROVE P(f) <=> IsLoop(f, "close", m, p, k, {}, MAX_FD)
    BY DEF IsLoop, Round
  <2>2. \E f : P(f)
    BY <2>1, LoopExists, Sizes
  <2>3. P(CHOOSE f : P(f))
    BY <2>2
  <2>4. ClosedAll(m, p, k) = (CHOOSE f : P(f))[MAX_FD]
    BY DEF ClosedAll
  <2>. HIDE DEF P
  <2>. QED
    BY <2>1, <2>3, <2>4
<1>2. MAX_FD \in Nat /\ t \in Tables
  BY Sizes DEF Owns, Shape
<1>3. L[0] = m /\ \A n \in Fds : L[n + 1] = Closed(L[n], fds[p][n], k)
  <2>1. Rounds(L, "close", m, p, k, {}, MAX_FD)
    BY <1>1, <1>2, LoopRounds
  <2>2. \A i \in 1 .. MAX_FD : L[i] = Closed(L[i - 1], fds[p][i - 1], k)
    <3>. SUFFICES ASSUME NEW i \in 1 .. MAX_FD
                  PROVE  L[i] = Closed(L[i - 1], fds[p][i - 1], k)
      OBVIOUS
    <3>1. i \in 0 .. MAX_FD /\ i # 0
      OBVIOUS
    <3>2. L[i] = Round("close", L[i - 1], i, p, k, {})
      BY <2>1, <3>1, Zenon DEF Rounds
    <3>. QED
      BY <3>2 DEF Round
  <2>3. \A n \in Fds : n + 1 \in 1 .. MAX_FD /\ (n + 1) - 1 = n
    BY <1>2 DEF Fds
  <2>4. L[0] = m
    <3>1. 0 \in 0 .. MAX_FD
      BY <1>2
    <3>. QED
      BY <2>1, <3>1, Zenon DEF Rounds
  <2>. QED
    BY <2>2, <2>3, <2>4
<1>. DEFINE S == {n \in 0 .. MAX_FD : Owns(pr, RowClosed(t, p, n), L[n])}
<1>4. 0 \in S
  BY <1>2, <1>3, RowClosedAt
<1>5. ASSUME NEW n \in 0 .. MAX_FD - 1, n \in S
      PROVE  n + 1 \in S
  <2>1. n \in Fds /\ n + 1 \in 0 .. MAX_FD
    BY <1>2 DEF Fds
  <2>2. /\ RowClosed(t, p, n)[p][n] = fds[p][n]
        /\ Cleared(RowClosed(t, p, n), RowClosed(t, p, n + 1), p, n)
    BY <1>2, <2>1, RowClosedAt
  <2>3. Owns(pr, RowClosed(t, p, n), L[n])
    BY <1>5
  <2>4. Owns(pr, RowClosed(t, p, n + 1), Closed(L[n], RowClosed(t, p, n)[p][n], k))
    BY <2>1, <2>2, <2>3, CloseKeeps
  <2>. QED
    BY <2>1, <2>2, <2>4, <1>3
<1>6. MAX_FD \in S
  <2>1. MAX_FD \in 0 .. MAX_FD
    BY <1>2
  <2>. HIDE DEF S
  <2>. QED
    BY <1>2, <1>4, <1>5, <2>1, UpTo
<1>. QED
  BY <1>1, <1>2, <1>6, RowClosedAt

\* The table, as far as process_kill has come with its victims.
Buried(t, victims, n) == [o \in Pids |-> IF o \in victims /\ o <= n THEN [f \in Fds |-> FreeFd] ELSE t[o]]

\* The tables before, after and during the loop.
LEMMA BuriedAt ==
    ASSUME NEW t, t \in Tables, NEW victims
    PROVE  /\ Buried(t, victims, 0) = t
           /\ Buried(t, victims, MaxPid) =
                 [o \in Pids |-> IF o \in victims THEN [f \in Fds |-> FreeFd] ELSE t[o]]
           /\ \A n \in 0 .. MaxPid - 1 :
                 /\ n + 1 \in victims =>
                       /\ Buried(t, victims, n)[n + 1] = t[n + 1]
                       /\ Buried(t, victims, n + 1) = RowFree(Buried(t, victims, n), n + 1)
                 /\ n + 1 \notin victims => Buried(t, victims, n + 1) = Buried(t, victims, n)
<1>1. Buried(t, victims, 0) = t
  <2>1. \A o \in Pids : ~(o <= 0)
    BY DEF Pids
  <2>2. Buried(t, victims, 0) = [o \in Pids |-> t[o]]
    BY <2>1 DEF Buried
  <2>. QED
    BY <2>2 DEF Tables
<1>2. Buried(t, victims, MaxPid) =
         [o \in Pids |-> IF o \in victims THEN [f \in Fds |-> FreeFd] ELSE t[o]]
  <2>1. \A o \in Pids : o <= MaxPid
    BY DEF Pids
  <2>. QED
    BY <2>1 DEF Buried
<1>3. ASSUME NEW n \in 0 .. MaxPid - 1, n + 1 \in victims
      PROVE  /\ Buried(t, victims, n)[n + 1] = t[n + 1]
             /\ Buried(t, victims, n + 1) = RowFree(Buried(t, victims, n), n + 1)
  <2>c. PICK c : c = [f \in Fds |-> FreeFd]
    OBVIOUS
  <2>b. PICK b : b = Buried(t, victims, n)
    OBVIOUS
  <2>1. n + 1 \in Pids /\ ~(n + 1 <= n) /\ n + 1 <= n + 1
    BY Sizes DEF Pids
  <2>2. \A o \in Pids : o # n + 1 => (o <= n + 1 <=> o <= n)
    BY DEF Pids
  <2>3. /\ b = [o \in Pids |-> IF o \in victims /\ o <= n THEN c ELSE t[o]]
        /\ Buried(t, victims, n + 1) = [o \in Pids |-> IF o \in victims /\ o <= n + 1 THEN c ELSE t[o]]
        /\ RowFree(b, n + 1) = [b EXCEPT ![n + 1] = c]
    BY <2>b, <2>c, Zenon DEF Buried, RowFree
  <2>4. b[n + 1] = t[n + 1]
    BY <2>1, <2>3
  <2>5. Buried(t, victims, n + 1) = [b EXCEPT ![n + 1] = c]
    BY <1>3, <2>1, <2>2, <2>3
  <2>. QED
    BY <2>b, <2>3, <2>4, <2>5
<1>4. ASSUME NEW n \in 0 .. MaxPid - 1, n + 1 \notin victims
      PROVE  Buried(t, victims, n + 1) = Buried(t, victims, n)
  <2>1. \A o \in Pids : o \in victims => (o <= n + 1 <=> o <= n)
    BY <1>4 DEF Pids
  <2>. QED
    BY <2>1 DEF Buried
<1>. QED
  BY <1>1, <1>2, <1>3, <1>4

\* One __atdeath after the other, all in the context of k.
LEMMA AtDeathKeeps ==
    ASSUME NEW pr, Owns(pr, fds, mem), NEW k \in Pids, NEW victims,
           \A p \in Pids : p \in victims => Closer(pr, p, k)
    PROVE  Owns(pr, [o \in Pids |-> IF o \in victims THEN [f \in Fds |-> FreeFd] ELSE fds[o]],
                AtDeath(mem, victims, k))
<1>1. PICK L : IsLoop(L, "kill", mem, 0, k, victims, MaxPid) /\ AtDeath(mem, victims, k) = L[MaxPid]
  <2>. DEFINE P(f) == f = [n \in 0 .. MaxPid |->
                             IF n = 0 THEN mem
                             ELSE IF n \in victims THEN ClosedAll(f[n - 1], n, k)
                             ELSE f[n - 1]]
  <2>1. ASSUME NEW f PROVE P(f) <=> IsLoop(f, "kill", mem, 0, k, victims, MaxPid)
    BY DEF IsLoop, Round
  <2>2. \E f : P(f)
    BY <2>1, LoopExists, Sizes
  <2>3. P(CHOOSE f : P(f))
    BY <2>2
  <2>4. AtDeath(mem, victims, k) = (CHOOSE f : P(f))[MaxPid]
    BY DEF AtDeath
  <2>. HIDE DEF P
  <2>. QED
    BY <2>1, <2>3, <2>4
<1>2. MaxPid \in Nat /\ fds \in Tables
  BY Sizes DEF Owns, Shape
<1>3. /\ L[0] = mem
      /\ \A n \in 0 .. MaxPid - 1 :
            L[n + 1] = IF n + 1 \in victims THEN ClosedAll(L[n], n + 1, k) ELSE L[n]
  <2>1. Rounds(L, "kill", mem, 0, k, victims, MaxPid)
    BY <1>1, <1>2, LoopRounds
  <2>2. L[0] = mem
    <3>1. 0 \in 0 .. MaxPid
      BY <1>2
    <3>. QED
      BY <2>1, <3>1, Zenon DEF Rounds
  <2>3. ASSUME NEW n \in 0 .. MaxPid - 1
        PROVE  L[n + 1] = IF n + 1 \in victims THEN ClosedAll(L[n], n + 1, k) ELSE L[n]
    <3>i. PICK i : i = n + 1
      OBVIOUS
    <3>1. i \in 0 .. MaxPid /\ i # 0 /\ i - 1 = n
      BY <3>i, <1>2
    <3>2. L[i] = Round("kill", L[i - 1], i, 0, k, victims)
      BY <2>1, <3>1, Zenon DEF Rounds
    <3>3. L[i] = IF i \in victims THEN ClosedAll(L[i - 1], i, k) ELSE L[i - 1]
      BY <3>2 DEF Round
    <3>. QED
      BY <3>1, <3>3, <3>i
  <2>. QED
    BY <2>2, <2>3
<1>. DEFINE S == {n \in 0 .. MaxPid : Owns(pr, Buried(fds, victims, n), L[n])}
<1>4. 0 \in S
  BY <1>2, <1>3, BuriedAt
<1>5. ASSUME NEW n \in 0 .. MaxPid - 1, n \in S
      PROVE  n + 1 \in S
  <2>t. PICK t : t = Buried(fds, victims, n)
    OBVIOUS
  <2>1. n + 1 \in Pids /\ n + 1 \in 0 .. MaxPid
    BY <1>2 DEF Pids
  <2>2. Owns(pr, t, L[n])
    BY <1>5, <2>t
  <2>3. CASE n + 1 \in victims
    <3>1. t[n + 1] = fds[n + 1] /\ Buried(fds, victims, n + 1) = RowFree(t, n + 1)
      <4>1. /\ Buried(fds, victims, n)[n + 1] = fds[n + 1]
            /\ Buried(fds, victims, n + 1) = RowFree(Buried(fds, victims, n), n + 1)
        BY <2>3, <1>2, BuriedAt
      <4>. QED
        BY <4>1, <2>t
    <3>2. Owns(pr, RowFree(t, n + 1), ClosedAll(L[n], n + 1, k))
      BY <2>1, <2>2, <2>3, <3>1, ClosedAllKeeps
    <3>. QED
      BY <2>1, <2>3, <3>1, <3>2, <1>3
  <2>4. CASE n + 1 \notin victims
    <3>1. Buried(fds, victims, n + 1) = t
      BY <2>4, <2>t, <1>2, BuriedAt
    <3>. QED
      BY <2>1, <2>2, <2>4, <3>1, <1>3
  <2>. QED
    BY <2>3, <2>4
<1>6. MaxPid \in S
  <2>1. MaxPid \in 0 .. MaxPid
    BY <1>2
  <2>. HIDE DEF S
  <2>. QED
    BY <1>2, <1>4, <1>5, <2>1, UpTo
<1>. QED
  BY <1>1, <1>2, <1>6, BuriedAt

\* A process that has closed all of its descriptors is dead.
LEMMA LeaverDies ==
    ASSUME NEW pr, NEW t, NEW m, Owns(pr, t, m), NEW k \in Pids, pr[k] = "leaving",
           \A f \in Fds : t[k][f] = FreeFd,
           NEW qr, qr[k] = "dead", \A p \in Pids : p # k => qr[p] = pr[p]
    PROVE  Owns(qr, t, m)
<1>1. Shape(t, m) /\ Listed(pr, t, m) /\ PathsFit(t, m) /\ RefsFit(pr, t, m)
  BY DEF Owns
<1>2. ASSUME NEW type \in {"PPRD", "PPWR"}, NEW lists, SideFits(pr, t, type, lists),
             \A x \in Pipes : lists[x] \in Seq(Pids)
      PROVE  SideFits(qr, t, type, lists)
  <2>. SUFFICES ASSUME NEW p \in Pids, NEW x \in Pipes
                PROVE  Fits(qr[p], Occ(lists[x], p), Held(t, p, End(type, x)))
    BY DEF SideFits
  <2>1. Fits(pr[p], Occ(lists[x], p), Held(t, p, End(type, x)))
    BY <1>2 DEF SideFits
  <2>2. CASE p # k
    BY <2>1, <2>2
  <2>3. CASE p = k
    <3>1. \A f \in Fds : t[p][f] # End(type, x)
      BY <2>3 DEF FreeFd, End
    <3>2. Held(t, p, End(type, x)) = 0
      BY <3>1, HeldType
    <3>3. Occ(lists[x], p) \in Nat
      BY <1>2, OccType
    <3>4. Occ(lists[x], p) <= 0
      BY <2>1, <2>3, <3>2 DEF Fits
    <3>5. Occ(lists[x], p) = 0
      BY <3>3, <3>4
    <3>. QED
      BY <2>3, <3>2, <3>5 DEF Fits
  <2>. QED
    BY <2>2, <2>3
<1>3. /\ \A x \in Pipes : Readers(m)[x] \in Seq(Pids)
      /\ \A x \in Pipes : Writers(m)[x] \in Seq(Pids)
  BY <1>1, ShapeAt
<1>4. Listed(qr, t, m)
  BY <1>1, <1>2, <1>3 DEF Listed
<1>5. RefsFit(qr, t, m)
  <2>1. ASSUME NEW s \in m.socks
        PROVE  Users(qr, t, s) = Users(pr, t, s)
    <3>1. \A p \in Pids : pr[p] # "new" <=> qr[p] # "new"
      OBVIOUS
    <3>2. \A p \in Pids : \A f \in Fds :
             pr[p] # "new" /\ t[p][f] = End("SOCK", s) <=> qr[p] # "new" /\ t[p][f] = End("SOCK", s)
      BY <3>1
    <3>. QED
      BY <3>2, UsersSame
  <2>. QED
    BY <1>1, <2>1 DEF RefsFit
<1>. QED
  BY <1>1, <1>4, <1>5 DEF Owns

\* process_kill of the running process, and of the children that it has left.
LEMMA KillInv ==
    ASSUME Premise, Inv, NEW k \in Pids, NEW q \in Pids, Kill(k, q)
    PROVE  Inv'
<1>v. PICK V : V = Victims(k)
  OBVIOUS
<1>1. /\ k = q /\ proc[k] = "ready"
      /\ mem' = AtDeath(mem, V, k)
      /\ proc' = [p \in Pids |-> IF p \notin V THEN proc[p] ELSE IF p = k THEN "dead" ELSE "victim"]
      /\ fds' = [p \in Pids |-> IF p \in V THEN [f \in Fds |-> FreeFd] ELSE fds[p]]
      /\ reading' = [p \in Pids |-> IF p \in V THEN -1 ELSE reading[p]]
      /\ UNCHANGED parent
      /\ \A p \in V : proc[p] # "new"
  BY <1>v DEF Kill, Premise
<1>2. k \in V /\ V \subseteq Pids /\ \A p \in V : proc[p] \in {"ready", "asleep"}
  BY <1>1, <1>v DEF Victims, IsAlive
<1>3. Owns(proc, fds, mem)
  BY DEF Inv
<1>. DEFINE pr == [p \in Pids |-> IF p \notin V THEN proc[p]
                                  ELSE IF p = k THEN "leaving" ELSE "victim"]
<1>4. /\ \A p \in Pids : p \notin V => pr[p] = proc[p]
      /\ pr[k] = "leaving"
      /\ \A p \in V : p # k => pr[p] = "victim"
  BY <1>2
<1>5. /\ \A p \in Pids : p \notin V => proc'[p] = proc[p] /\ fds'[p] = fds[p] /\ reading'[p] = reading[p]
      /\ proc'[k] = "dead"
      /\ \A p \in V : p # k => proc'[p] = "victim"
      /\ \A p \in V : \A f \in Fds : fds'[p][f] = FreeFd
      /\ parent' = parent
  BY <1>1, <1>2
<1>. HIDE DEF pr
<1>6. Owns(pr, fds, mem)
  <2>1. \A p \in Pids : proc[p] = "new" <=> pr[p] = "new"
    BY <1>2, <1>4
  <2>2. ASSUME NEW p \in Pids, NEW a \in Nat, NEW b \in Nat, Fits(proc[p], a, b)
        PROVE  Fits(pr[p], a, b)
    <3>1. CASE p \notin V
      BY <3>1, <2>2, <1>4
    <3>2. CASE p \in V /\ p # k
      BY <3>2, <1>4 DEF Fits
    <3>3. CASE p = k
      BY <3>3, <2>2, <1>1, <1>4 DEF Fits
    <3>. QED
      BY <3>1, <3>2, <3>3
  <2>. QED
    BY <1>3, <2>1, <2>2, StatesKeep
<1>7. \A p \in Pids : p \in V => Closer(pr, p, k)
  BY <1>4 DEF Closer
<1>8. Owns(pr, fds', mem')
  BY <1>1, <1>6, <1>7, AtDeathKeeps
<1>9. Owns(proc', fds', mem')
  <2>1. \A f \in Fds : fds'[k][f] = FreeFd
    BY <1>2, <1>5
  <2>2. \A p \in Pids : p # k => proc'[p] = pr[p]
    BY <1>4, <1>5
  <2>. QED
    BY <1>4, <1>5, <1>8, <2>1, <2>2, LeaverDies
<1>10. Undeclared'
  <2>. SUFFICES ASSUME NEW o \in Pids, proc'[o] = "new"
                PROVE  /\ parent'[o] \in Pids
                       /\ proc'[parent'[o]] \in {"ready", "dead", "victim"}
                       /\ proc'[parent'[o]] = "ready" => fds'[o] = fds'[parent'[o]]
                       /\ \A f \in Fds : fds'[o][f].type # "DIR"
    BY DEF Undeclared
  <2>1. o \notin V /\ proc[o] = "new" /\ fds'[o] = fds[o] /\ parent'[o] = parent[o]
    BY <1>2, <1>5
  <2>e. PICK e : e = parent[o]
    OBVIOUS
  <2>2. /\ e \in Pids
        /\ proc[e] \in {"ready", "dead", "victim"}
        /\ proc[e] = "ready" => fds[o] = fds[e]
        /\ \A f \in Fds : fds[o][f].type # "DIR"
    BY <2>1, <2>e DEF Inv, Undeclared
  <2>3. CASE e \in V
    <3>1. proc'[e] \in {"dead", "victim"}
      BY <2>3, <1>5
    <3>. QED
      BY <2>1, <2>2, <2>e, <3>1
  <2>4. CASE e \notin V
    BY <2>1, <2>2, <2>4, <2>e, <1>5
  <2>. QED
    BY <2>3, <2>4
<1>11. Others'
  <2>1. ASSUME NEW p \in Pids, proc'[p] \in {"none", "dead", "victim"}, NEW f \in Fds
        PROVE  fds'[p][f] = FreeFd
    <3>1. CASE p \in V
      BY <3>1, <1>5
    <3>2. CASE p \notin V
      BY <3>2, <2>1, <1>5 DEF Inv, Others
    <3>. QED
      BY <3>1, <3>2
  <2>2. ASSUME NEW p \in Pids, proc'[p] = "asleep"
        PROVE  reading'[p] \in Fds /\ fds'[p][reading'[p]].type = "PPRD"
    <3>1. p \notin V
      BY <2>2, <1>5
    <3>. QED
      BY <3>1, <2>2, <1>5 DEF Inv, Others
  <2>. QED
    BY <2>1, <2>2 DEF Others
<1>12. /\ proc' \in [Pids -> ProcStates]
       /\ parent' \in [Pids -> 0 .. MaxPid]
       /\ reading' \in [Pids -> Fds \cup {-1}]
  BY <1>1 DEF Inv, ProcStates
<1>. QED
  BY <1>9, <1>10, <1>11, <1>12 DEF Inv

-----------------------------------------------------------------------------
(* fm_declare_child.                                                       *)

Going(m) == [m |-> m, ok |-> TRUE]
Ended(m) == [m |-> m, ok |-> FALSE]

\* What the loop has.
LEMMA AccAt ==
    ASSUME NEW m
    PROVE  /\ Going(m).m = m /\ Going(m).ok
           /\ Ended(m).m = m /\ ~Ended(m).ok
BY DEF Going, Ended

\* A round with a pipe that has room.
LEMMA DeclaredEnd ==
    ASSUME NEW m, NEW d, NEW q, IsPipe(d), HasEntry(m.pipes[d.ref], Side(d.type))
    PROVE  Declared(Going(m), d, q) = Going(Pushed(m, d.ref, Side(d.type), q))
<1>a. PICK a : a = Going(m)
  OBVIOUS
<1>1. a.m = m /\ a.ok
  BY <1>a, AccAt
<1>2. Declared(a, d, q) = Going(Pushed(m, d.ref, Side(d.type), q))
  BY <1>1, Zenon DEF Declared, Going
<1>. QED
  BY <1>a, <1>2, Zenon

\* The other rounds.
LEMMA DeclaredAt ==
    ASSUME NEW m, NEW d, NEW q
    PROVE  /\ Declared(Ended(m), d, q) = Ended(m)
           /\ IsPipe(d) /\ ~HasEntry(m.pipes[d.ref], Side(d.type)) =>
                 Declared(Going(m), d, q) = Ended(m)
           /\ d.type = "SOCK" =>
                 Declared(Going(m), d, q) = Going([m EXCEPT !.refs[d.ref] = @ + 1])
           /\ ~IsPipe(d) /\ d.type # "SOCK" => Declared(Going(m), d, q) = Going(m)
<1>a. PICK a : a = Going(m)
  OBVIOUS
<1>b. PICK b : b = Ended(m)
  OBVIOUS
<1>1. a.m = m /\ a.ok /\ ~b.ok
  BY <1>a, <1>b, AccAt
<1>2. Declared(b, d, q) = b
  BY <1>1, Zenon DEF Declared
<1>3. ASSUME IsPipe(d), ~HasEntry(m.pipes[d.ref], Side(d.type))
      PROVE  Declared(a, d, q) = Ended(m)
  BY <1>1, <1>3, Zenon DEF Declared, Ended
<1>4. ASSUME d.type = "SOCK"
      PROVE  Declared(a, d, q) = Going([m EXCEPT !.refs[d.ref] = @ + 1])
  <2>1. ~IsPipe(d)
    BY <1>4 DEF IsPipe
  <2>. QED
    BY <1>1, <1>4, <2>1, Zenon DEF Declared, Going
<1>5. ASSUME ~IsPipe(d), d.type # "SOCK"
      PROVE  Declared(a, d, q) = a
  BY <1>1, <1>5, Zenon DEF Declared
<1>. QED
  BY <1>a, <1>b, <1>2, <1>3, <1>4, <1>5, Zenon

\* The table, as far as the loop has come with child q of p.
RowGiven(t, p, q, n) == [t EXCEPT ![q] = [f \in Fds |-> IF f < n THEN t[p][f] ELSE FreeFd]]

\* The rows before, after and during the loop.
LEMMA RowGivenAt ==
    ASSUME NEW t, t \in Tables, NEW p \in Pids, NEW q \in Pids, q # p
    PROVE  /\ \A n \in Nat : /\ RowGiven(t, p, q, n) \in Tables
                             /\ \A o \in Pids : o # q => RowGiven(t, p, q, n)[o] = t[o]
           /\ \A f \in Fds : RowGiven(t, p, q, 0)[q][f] = FreeFd
           /\ t[q] = t[p] => RowGiven(t, p, q, MAX_FD) = t
           /\ \A n \in Fds : Filled(RowGiven(t, p, q, n), RowGiven(t, p, q, n + 1), q, n, t[p][n])
<1>1. t[p] \in [Fds -> Descs] /\ t[q] \in [Fds -> Descs]
  BY DEF Tables
<1>2. FreeFd \in Descs /\ FreeFd.type = "FREE"
  BY FreeTypes
<1>3. \A n \in Nat : /\ RowGiven(t, p, q, n) \in Tables
                     /\ \A f \in Fds : RowGiven(t, p, q, n)[q][f] = IF f < n THEN t[p][f] ELSE FreeFd
                     /\ \A o \in Pids : o # q => RowGiven(t, p, q, n)[o] = t[o]
  BY <1>1, <1>2 DEF RowGiven, Tables
<1>4. \A f \in Fds : RowGiven(t, p, q, 0)[q][f] = FreeFd
  <2>1. \A f \in Fds : ~(f < 0)
    BY DEF Fds
  <2>. QED
    BY <1>3, <2>1
<1>5. ASSUME t[q] = t[p] PROVE RowGiven(t, p, q, MAX_FD) = t
  <2>1. [f \in Fds |-> IF f < MAX_FD THEN t[p][f] ELSE FreeFd] = t[p]
    <3>1. \A f \in Fds : f < MAX_FD
      BY Sizes DEF Fds
    <3>2. [f \in Fds |-> IF f < MAX_FD THEN t[p][f] ELSE FreeFd] = [f \in Fds |-> t[p][f]]
      BY <3>1
    <3>. QED
      BY <1>1, <3>2
  <2>2. [t EXCEPT ![q] = t[q]] = t
    BY DEF Tables
  <2>. QED
    BY <1>5, <2>1, <2>2, Zenon DEF RowGiven
<1>6. ASSUME NEW n \in Fds
      PROVE  Filled(RowGiven(t, p, q, n), RowGiven(t, p, q, n + 1), q, n, t[p][n])
  <2>1. n \in Nat /\ n + 1 \in Nat /\ ~(n < n) /\ n < n + 1
    BY Sizes
  <2>2. RowGiven(t, p, q, n)[q][n] = FreeFd /\ RowGiven(t, p, q, n + 1)[q][n] = t[p][n]
    BY <1>3, <2>1
  <2>3. ASSUME NEW o \in Pids, NEW f \in Fds, o # q \/ f # n
        PROVE  RowGiven(t, p, q, n + 1)[o][f] = RowGiven(t, p, q, n)[o][f]
    <3>1. CASE o # q
      BY <3>1, <1>3, <2>1
    <3>2. CASE o = q
      <4>1. f # n /\ f \in Nat
        BY <2>3, <3>2, Sizes
      <4>2. f < n <=> f < n + 1
        BY <2>1, <4>1
      <4>. QED
        BY <1>3, <2>1, <3>2, <4>2
    <3>. QED
      BY <3>1, <3>2
  <2>4. RowGiven(t, p, q, n + 1) \in Tables
    BY <1>3, <2>1
  <2>5. RowGiven(t, p, q, n)[q][n].type = "FREE"
    BY <1>2, <2>2
  <2>. QED
    BY <2>2, <2>3, <2>4, <2>5 DEF Filled, Apart
<1>. QED
  BY <1>3, <1>4, <1>5, <1>6

\* A child without descriptors can be declared at once.
LEMMA DeclareStart ==
    ASSUME NEW pr, NEW t, NEW m, Owns(pr, t, m), NEW q \in Pids, pr[q] = "new",
           \A f \in Fds : t[q][f].type # "DIR",
           NEW qr, qr[q] = "ready", \A o \in Pids : o # q => qr[o] = pr[o],
           NEW u, u \in Tables, \A o \in Pids : o # q => u[o] = t[o],
           \A f \in Fds : u[q][f] = FreeFd
    PROVE  Owns(qr, u, m)
<1>1. Shape(t, m) /\ Listed(pr, t, m) /\ PathsFit(t, m) /\ RefsFit(pr, t, m)
  BY DEF Owns
<1>2. FreeFd.type = "FREE" /\ ~IsPipe(FreeFd)
  BY FreeTypes
<1>3. Shape(u, m)
  <2>1. ASSUME NEW o \in Pids, NEW f \in Fds
        PROVE  /\ IsPipe(u[o][f]) => u[o][f].ref \in Pipes
               /\ u[o][f].type = "SOCK" => u[o][f].ref \in m.socks
               /\ u[o][f].type = "DIR" => u[o][f].ref \in m.paths
    <3>1. CASE o = q
      BY <3>1, <1>2
    <3>2. CASE o # q
      <4>1. u[o][f] = t[o][f]
        BY <3>2
      <4>. QED
        BY <4>1, <1>1 DEF Shape
    <3>. QED
      BY <3>1, <3>2
  <2>. QED
    BY <2>1, <1>1 DEF Shape
<1>4. ASSUME NEW type \in {"PPRD", "PPWR"}, NEW lists, SideFits(pr, t, type, lists)
      PROVE  SideFits(qr, u, type, lists)
  <2>. SUFFICES ASSUME NEW o \in Pids, NEW x \in Pipes
                PROVE  Fits(qr[o], Occ(lists[x], o), Held(u, o, End(type, x)))
    BY DEF SideFits
  <2>1. Fits(pr[o], Occ(lists[x], o), Held(t, o, End(type, x)))
    BY <1>4 DEF SideFits
  <2>2. CASE o # q
    <3>1. Held(u, o, End(type, x)) = Held(t, o, End(type, x))
      BY <2>2, Zenon DEF Held
    <3>. QED
      BY <2>1, <2>2, <3>1
  <2>3. CASE o = q
    <3>1. Occ(lists[x], o) = 0
      BY <2>1, <2>3 DEF Fits
    <3>2. \A f \in Fds : u[o][f] # End(type, x)
      BY <2>3 DEF FreeFd, End
    <3>3. Held(u, o, End(type, x)) = 0
      BY <3>2, HeldType
    <3>. QED
      BY <2>3, <3>1, <3>3 DEF Fits
  <2>. QED
    BY <2>2, <2>3
<1>5. Listed(qr, u, m)
  BY <1>1, <1>4 DEF Listed
<1>6. PathsFit(u, m)
  <2>1. ASSUME NEW a \in m.paths
        PROVE  \E o \in Pids : \E f \in Fds : u[o][f] = End("DIR", a)
    <3>1. PICK o \in Pids, f \in Fds : t[o][f] = End("DIR", a)
      BY <1>1 DEF PathsFit
    <3>2. o # q
      BY <3>1 DEF End
    <3>. QED
      BY <3>1, <3>2
  <2>2. ASSUME NEW o \in Pids, NEW e \in Pids, NEW f \in Fds, NEW g \in Fds,
               u[o][f].type = "DIR", u[o][f] = u[e][g]
        PROVE  o = e /\ f = g
    <3>1. u[e][g].type = "DIR"
      BY <2>2
    <3>2. o # q /\ e # q
      BY <2>2, <3>1, <1>2
    <3>3. t[o][f].type = "DIR" /\ t[o][f] = t[e][g]
      BY <2>2, <3>2
    <3>. QED
      BY <1>1, <3>3, OneOwner
  <2>. QED
    BY <2>1, <2>2 DEF PathsFit
<1>7. RefsFit(qr, u, m)
  <2>1. ASSUME NEW s \in m.socks
        PROVE  Users(qr, u, s) = Users(pr, t, s)
    <3>1. ASSUME NEW o \in Pids, NEW f \in Fds
          PROVE  pr[o] # "new" /\ t[o][f] = End("SOCK", s)
                    <=> qr[o] # "new" /\ u[o][f] = End("SOCK", s)
      <4>1. CASE o # q
        BY <4>1
      <4>2. CASE o = q
        BY <4>2, <1>2 DEF End
      <4>. QED
        BY <4>1, <4>2
    <3>. QED
      BY <3>1, UsersSame
  <2>. QED
    BY <2>1, <1>1 DEF RefsFit
<1>. QED
  BY <1>3, <1>5, <1>6, <1>7 DEF Owns

\* A round that finds room makes the copy of one descriptor good.
LEMMA DeclareRound ==
    ASSUME Premise, NEW pr, NEW t, NEW m, Owns(pr, t, m), NEW p \in Pids, NEW q \in Pids,
           pr[p] = "ready", pr[q] = "ready", NEW f \in Fds, t[p][f].type # "DIR",
           Declared(Going(m), t[p][f], q).ok,
           NEW u, Filled(t, u, q, f, t[p][f])
    PROVE  Owns(pr, u, Declared(Going(m), t[p][f], q).m)
<1>d. PICK d : d = t[p][f]
  OBVIOUS
<1>a. PICK a : a = Declared(Going(m), d, q)
  OBVIOUS
<1>c. PICK c : c = <<a.m, d>>
  OBVIOUS
<1>1. d.type # "DIR" /\ a.ok
  BY <1>d, <1>a
<1>2. Room(m, d) /\ c \in Copies(m, d, q)
  <2>1. CASE IsPipe(d)
    <3>h. HasEntry(m.pipes[d.ref], Side(d.type))
      <4>1. SUFFICES ASSUME ~HasEntry(m.pipes[d.ref], Side(d.type)) PROVE FALSE
        OBVIOUS
      <4>2. a = Ended(m)
        BY <1>a, <2>1, <4>1, DeclaredAt, Zenon
      <4>. QED
        BY <1>1, <4>2, AccAt
    <3>1. a = Going(Pushed(m, d.ref, Side(d.type), q))
      <4>1. Declared(Going(m), d, q) = Going(Pushed(m, d.ref, Side(d.type), q))
        BY <2>1, <3>h, DeclaredEnd
      <4>. QED
        BY <1>a, <4>1
    <3>2. a.m = Pushed(m, d.ref, Side(d.type), q)
      BY <3>1, AccAt, Zenon
    <3>3. Room(m, d)
      BY <3>h, Zenon DEF Room
    <3>4. Copies(m, d, q) = {<<Pushed(m, d.ref, Side(d.type), q), d>>}
      BY <2>1 DEF Copies, IsPipe
    <3>. QED
      BY <3>2, <3>3, <3>4, <1>c
  <2>2. CASE d.type = "SOCK"
    <3>1. a = Going([m EXCEPT !.refs[d.ref] = @ + 1])
      BY <1>a, <2>2, DeclaredAt, Zenon
    <3>2. a.m = [m EXCEPT !.refs[d.ref] = @ + 1]
      BY <3>1, AccAt, Zenon
    <3>3. Copies(m, d, q) = {<<[m EXCEPT !.refs[d.ref] = @ + 1], d>>}
      BY <2>2 DEF Copies, IsPipe
    <3>4. Room(m, d)
      BY <2>2 DEF Room, IsPipe
    <3>. QED
      BY <3>2, <3>3, <3>4, <1>c
  <2>3. CASE ~IsPipe(d) /\ d.type # "SOCK"
    <3>1. a = Going(m)
      BY <1>a, <2>3, DeclaredAt, Zenon
    <3>2. a.m = m
      BY <3>1, AccAt, Zenon
    <3>3. Copies(m, d, q) = {<<m, d>>}
      BY <1>1, <2>3 DEF Copies
    <3>4. Room(m, d)
      BY <2>3 DEF Room
    <3>. QED
      BY <3>2, <3>3, <3>4, <1>c
  <2>. QED
    BY <2>1, <2>2, <2>3
<1>3. Room(m, t[p][f]) /\ c \in Copies(m, t[p][f], q)
  BY <1>2, <1>d
<1>4. \A v : Filled(t, v, q, f, c[2]) => Owns(pr, v, c[1])
  BY <1>3, CopyKeeps
<1>5. c[1] = Declared(Going(m), t[p][f], q).m /\ c[2] = t[p][f]
  BY <1>c, <1>d, <1>a
<1>. QED
  BY <1>4, <1>5

\* fm_declare_child counts the child's descriptors, one after the other.
LEMMA DeclareLoop ==
    ASSUME Premise, Inv, NEW p \in Pids, NEW q \in Pids, DeclareChild(p, q)
    PROVE  \E L : /\ L[0] = Going(mem)
                  /\ \A n \in Fds : L[n + 1] = Declared(L[n], fds[p][n], q)
                  /\ L[MAX_FD].ok
                  /\ mem' = L[MAX_FD].m
<1>1. PICK L : /\ IsLoop(L, "declare", Going(mem), p, q, {}, MAX_FD)
               /\ L[MAX_FD].ok /\ mem' = L[MAX_FD].m
  <2>. DEFINE P(f) == f = [n \in 0 .. MAX_FD |->
                             IF n = 0 THEN [m |-> mem, ok |-> TRUE]
                             ELSE Declared(f[n - 1], fds[p][n - 1], q)]
  <2>1. ASSUME NEW f PROVE P(f) <=> IsLoop(f, "declare", Going(mem), p, q, {}, MAX_FD)
    BY DEF IsLoop, Round, Going
  <2>2. \E f : P(f)
    BY <2>1, LoopExists, Sizes
  <2>3. P(CHOOSE f : P(f))
    BY <2>2
  <2>4. (CHOOSE f : P(f))[MAX_FD].ok /\ mem' = (CHOOSE f : P(f))[MAX_FD].m
    BY DEF DeclareChild, Premise
  <2>. HIDE DEF P
  <2>. QED
    BY <2>1, <2>3, <2>4
<1>2. MAX_FD \in Nat
  BY Sizes
<1>3. Rounds(L, "declare", Going(mem), p, q, {}, MAX_FD)
  BY <1>1, <1>2, LoopRounds
<1>4. L[0] = Going(mem)
  <2>1. 0 \in 0 .. MAX_FD
    BY <1>2
  <2>. QED
    BY <1>3, <2>1, Zenon DEF Rounds
<1>5. ASSUME NEW n \in Fds
      PROVE  L[n + 1] = Declared(L[n], fds[p][n], q)
  <2>i. PICK i : i = n + 1
    OBVIOUS
  <2>1. i \in 0 .. MAX_FD /\ i # 0 /\ i - 1 = n
    BY <2>i, <1>2 DEF Fds
  <2>2. L[i] = Round("declare", L[i - 1], i, p, q, {})
    BY <1>3, <2>1, Zenon DEF Rounds
  <2>3. L[i] = Declared(L[i - 1], fds[p][i - 1], q)
    BY <2>2 DEF Round
  <2>. QED
    BY <2>1, <2>3, <2>i
<1>. QED
  BY <1>1, <1>4, <1>5

\* fm_declare_child.
LEMMA DeclareChildInv ==
    ASSUME Premise, Inv, NEW p \in Pids, NEW q \in Pids, DeclareChild(p, q)
    PROVE  Inv'
<1>1. /\ proc[p] = "ready" /\ proc[q] = "new" /\ parent[q] = p
      /\ proc' = [proc EXCEPT ![q] = "ready"]
      /\ UNCHANGED <<parent, fds, reading>>
  BY DEF DeclareChild
<1>2. /\ q # p /\ fds[q] = fds[p]
      /\ \A f \in Fds : fds[p][f].type # "DIR"
      /\ \A f \in Fds : fds[q][f].type # "DIR"
  BY <1>1 DEF Inv, Undeclared
<1>3. Owns(proc, fds, mem) /\ fds \in Tables
  BY DEF Inv, Owns, Shape
<1>4. /\ proc' \in [Pids -> ProcStates] /\ proc'[q] = "ready" /\ proc'[p] = "ready"
      /\ \A o \in Pids : o # q => proc'[o] = proc[o]
  BY <1>1, <1>2 DEF Inv, ProcStates
<1>5. PICK L : /\ L[0] = Going(mem)
               /\ \A n \in Fds : L[n + 1] = Declared(L[n], fds[p][n], q)
               /\ L[MAX_FD].ok
               /\ mem' = L[MAX_FD].m
  BY DeclareLoop
<1>6. /\ \A n \in Nat : /\ RowGiven(fds, p, q, n) \in Tables
                        /\ \A o \in Pids : o # q => RowGiven(fds, p, q, n)[o] = fds[o]
      /\ \A f \in Fds : RowGiven(fds, p, q, 0)[q][f] = FreeFd
      /\ RowGiven(fds, p, q, MAX_FD) = fds
      /\ \A n \in Fds : Filled(RowGiven(fds, p, q, n), RowGiven(fds, p, q, n + 1), q, n, fds[p][n])
  BY <1>2, <1>3, RowGivenAt
<1>r. PICK pr : pr = proc'
  OBVIOUS
<1>7. pr[q] = "ready" /\ pr[p] = "ready" /\ \A o \in Pids : o # q => pr[o] = proc[o]
  BY <1>4, <1>r
<1>8. MAX_FD \in Nat
  BY Sizes
<1>. DEFINE S == {n \in 0 .. MAX_FD : \/ L[n] = Ended(L[n].m)
                                      \/ /\ L[n] = Going(L[n].m)
                                         /\ Owns(pr, RowGiven(fds, p, q, n), L[n].m)}
<1>9. 0 \in S
  <2>1. 0 \in Nat /\ 0 \in 0 .. MAX_FD
    BY <1>8
  <2>u. PICK u : u = RowGiven(fds, p, q, 0)
    OBVIOUS
  <2>2. u \in Tables /\ (\A o \in Pids : o # q => u[o] = fds[o]) /\ \A f \in Fds : u[q][f] = FreeFd
    BY <1>6, <2>1, <2>u
  <2>3. Owns(pr, u, mem)
    BY <1>1, <1>2, <1>3, <1>7, <2>2, DeclareStart
  <2>4. L[0].m = mem
    BY <1>5, AccAt
  <2>. QED
    BY <2>1, <2>3, <2>4, <2>u, <1>5
<1>10. ASSUME NEW n \in 0 .. MAX_FD - 1, n \in S
       PROVE  n + 1 \in S
  <2>1. n \in Fds /\ n \in Nat /\ n + 1 \in 0 .. MAX_FD
    BY <1>8 DEF Fds
  <2>m. PICK m : m = L[n].m
    OBVIOUS
  <2>a. PICK a : a = L[n + 1]
    OBVIOUS
  <2>d. PICK d : d = fds[p][n]
    OBVIOUS
  <2>t. PICK t : t = RowGiven(fds, p, q, n)
    OBVIOUS
  <2>u. PICK u : u = RowGiven(fds, p, q, n + 1)
    OBVIOUS
  <2>2. L[n] = Ended(m) \/ (L[n] = Going(m) /\ Owns(pr, t, m))
    BY <1>10, <2>m, <2>t
  <2>3. a = Declared(L[n], d, q)
    BY <1>5, <2>1, <2>a, <2>d
  <2>4. Filled(t, u, q, n, d) /\ t[p] = fds[p]
    BY <1>2, <1>6, <2>1, <2>d, <2>t, <2>u
  <2>5. CASE L[n] = Ended(m)
    <3>1. a = Ended(m)
      BY <2>3, <2>5, DeclaredAt
    <3>2. a = Ended(a.m)
      BY <3>1, AccAt
    <3>. QED
      BY <2>1, <2>a, <3>2
  <2>6. CASE L[n] = Going(m) /\ Owns(pr, t, m)
    <3>1. a = Declared(Going(m), d, q)
      BY <2>3, <2>6
    <3>2. \/ \E o : a = Ended(o)
          \/ \E o : a = Going(o)
      <4>1. CASE IsPipe(d) /\ HasEntry(m.pipes[d.ref], Side(d.type))
        BY <3>1, <4>1, DeclaredEnd
      <4>2. CASE IsPipe(d) /\ ~HasEntry(m.pipes[d.ref], Side(d.type))
        <5>1. a = Ended(m)
          BY <3>1, <4>2, DeclaredAt
        <5>. QED
          BY <5>1, Zenon
      <4>3. CASE d.type = "SOCK"
        <5>1. a = Going([m EXCEPT !.refs[d.ref] = @ + 1])
          BY <3>1, <4>3, DeclaredAt
        <5>. QED
          BY <5>1, Zenon
      <4>4. CASE ~IsPipe(d) /\ d.type # "SOCK"
        <5>1. a = Going(m)
          BY <3>1, <4>4, DeclaredAt
        <5>. QED
          BY <5>1, Zenon
      <4>. QED
        BY <4>1, <4>2, <4>3, <4>4
    <3>3. a = Ended(a.m) \/ a = Going(a.m)
      BY <3>2, AccAt
    <3>4. ASSUME a = Going(a.m) PROVE Owns(pr, u, a.m)
      <4>1. a.ok
        BY <3>4, AccAt
      <4>2. t[p][n] = d /\ d.type # "DIR"
        BY <1>2, <2>1, <2>4, <2>d
      <4>3. Declared(Going(m), t[p][n], q).ok /\ Filled(t, u, q, n, t[p][n])
        BY <3>1, <4>1, <4>2, <2>4
      <4>4. Owns(pr, u, Declared(Going(m), t[p][n], q).m)
        BY <1>7, <2>1, <2>6, <4>2, <4>3, DeclareRound
      <4>. QED
        BY <3>1, <4>2, <4>4
    <3>. QED
      BY <2>1, <2>a, <2>u, <3>3, <3>4
  <2>. QED
    BY <2>2, <2>5, <2>6
<1>11. MAX_FD \in S
  <2>1. MAX_FD \in 0 .. MAX_FD
    BY <1>8
  <2>. HIDE DEF S
  <2>. QED
    BY <1>8, <1>9, <1>10, <2>1, UpTo
<1>12. Owns(proc', fds', mem')
  <2>1. L[MAX_FD] # Ended(L[MAX_FD].m)
    BY <1>5, AccAt
  <2>2. Owns(pr, RowGiven(fds, p, q, MAX_FD), L[MAX_FD].m)
    BY <1>11, <2>1
  <2>. QED
    BY <2>2, <1>r, <1>1, <1>5, <1>6
<1>13. Undeclared'
  <2>. SUFFICES ASSUME NEW o \in Pids, proc'[o] = "new"
                PROVE  /\ parent[o] \in Pids
                       /\ proc'[parent[o]] \in {"ready", "dead", "victim"}
                       /\ proc'[parent[o]] = "ready" => fds[o] = fds[parent[o]]
                       /\ \A f \in Fds : fds[o][f].type # "DIR"
    BY <1>1 DEF Undeclared
  <2>1. o # q /\ proc[o] = "new"
    BY <1>4
  <2>2. /\ parent[o] \in Pids
        /\ proc[parent[o]] \in {"ready", "dead", "victim"}
        /\ proc[parent[o]] = "ready" => fds[o] = fds[parent[o]]
        /\ \A f \in Fds : fds[o][f].type # "DIR"
    BY <2>1 DEF Inv, Undeclared
  <2>3. parent[o] # q
    BY <2>2, <1>1
  <2>. QED
    BY <2>2, <2>3, <1>4
<1>14. Others'
  <2>1. ASSUME NEW o \in Pids, proc'[o] \in {"none", "dead", "victim"}, NEW f \in Fds
        PROVE  fds[o][f] = FreeFd
    BY <2>1, <1>4 DEF Inv, Others
  <2>2. ASSUME NEW o \in Pids, proc'[o] = "asleep"
        PROVE  reading[o] \in Fds /\ fds[o][reading[o]].type = "PPRD"
    BY <2>2, <1>4 DEF Inv, Others
  <2>. QED
    BY <2>1, <2>2, <1>1 DEF Others
<1>15. parent' \in [Pids -> 0 .. MaxPid] /\ reading' \in [Pids -> Fds \cup {-1}]
  BY <1>1 DEF Inv
<1>. QED
  BY <1>4, <1>12, <1>13, <1>14, <1>15 DEF Inv

-----------------------------------------------------------------------------
(* The invariant.                                                          *)

\* Process 1 begins without descriptors and no pipe is in use.
LEMMA InitInv ==
    ASSUME Init
    PROVE  Inv
<1>1. /\ proc \in [Pids -> ProcStates]
      /\ \A p \in Pids : proc[p] \in {"ready", "none"}
      /\ parent \in [Pids -> 0 .. MaxPid]
      /\ reading \in [Pids -> Fds \cup {-1}]
  BY Sizes DEF Init, ProcStates
<1>2. \A p \in Pids : \A f \in Fds : fds[p][f] = FreeFd
  BY DEF Init
<1>3. /\ mem.pipes = [x \in Pipes |-> FreePipe]
      /\ mem.paths = {} /\ mem.socks = {} /\ mem.refs = [s \in Socks |-> 0]
      /\ mem = [pipes |-> mem.pipes, paths |-> mem.paths, socks |-> mem.socks, refs |-> mem.refs]
  BY DEF Init
<1>4. /\ FreePipe.used = FALSE /\ FreePipe.data = 0
      /\ FreePipe.readers = <<>> /\ FreePipe.writers = <<>>
  BY DEF FreePipe
<1>5. <<>> \in Seq(Pids) /\ Len(<<>>) = 0 /\ DOMAIN <<>> = {}
  OBVIOUS
<1>6. FreePipe \in PipeRec
  <2>1. FALSE \in BOOLEAN /\ 0 \in 0 .. MaxBytes /\ <<>> \in Seq(Pids)
    BY <1>5, Sizes
  <2>. QED
    BY <2>1, Zenon DEF FreePipe, PipeRec
<1>7. mem \in Memory
  <2>1. /\ mem.pipes \in [Pipes -> PipeRec] /\ mem.paths \in SUBSET Paths
        /\ mem.socks \in SUBSET Socks /\ mem.refs \in [Socks -> Int]
    BY <1>3, <1>6
  <2>. QED
    BY <2>1, <1>3, Zenon DEF Memory
<1>8. FreeFd.type = "FREE" /\ ~IsPipe(FreeFd) /\ FreeFd \in Descs
  BY FreeTypes
<1>9. Shape(fds, mem)
  <2>1. fds \in Tables
    BY <1>8 DEF Init, Tables
  <2>2. \A x \in Pipes : PipeOK(mem.pipes[x])
    BY <1>3, <1>4, <1>5, Sizes DEF PipeOK
  <2>. QED
    BY <2>1, <2>2, <1>2, <1>7, <1>8 DEF Shape
<1>10. \A p : Occ(<<>>, p) = 0
  BY <1>5, OccType
<1>11. ASSUME NEW type \in {"PPRD", "PPWR"}, NEW lists, \A x \in Pipes : lists[x] = <<>>
       PROVE  SideFits(proc, fds, type, lists)
  <2>. SUFFICES ASSUME NEW p \in Pids, NEW x \in Pipes
                PROVE  Fits(proc[p], Occ(lists[x], p), Held(fds, p, End(type, x)))
    BY DEF SideFits
  <2>1. \A f \in Fds : fds[p][f] # End(type, x)
    BY <1>2 DEF FreeFd, End
  <2>2. Held(fds, p, End(type, x)) = 0
    BY <2>1, HeldType
  <2>3. Occ(lists[x], p) = 0
    BY <1>10, <1>11
  <2>. QED
    BY <2>2, <2>3 DEF Fits
<1>12. Listed(proc, fds, mem)
  <2>1. \A x \in Pipes : Readers(mem)[x] = <<>> /\ Writers(mem)[x] = <<>>
    BY <1>3, <1>4 DEF Readers, Writers
  <2>. QED
    BY <2>1, <1>11 DEF Listed
<1>13. PathsFit(fds, mem) /\ RefsFit(proc, fds, mem)
  BY <1>2, <1>3, <1>8 DEF PathsFit, RefsFit
<1>14. Undeclared /\ Others
  BY <1>1, <1>2 DEF Undeclared, Others
<1>. QED
  BY <1>1, <1>9, <1>12, <1>13, <1>14 DEF Inv, Owns

\* Every call keeps the invariant.
LEMMA StepInv ==
    ASSUME Premise, Inv, [Next]_vars
    PROVE  Inv'
<1>1. CASE UNCHANGED vars
  <2>1. /\ proc' = proc /\ parent' = parent /\ fds' = fds /\ reading' = reading /\ mem' = mem
    BY <1>1 DEF vars
  <2>2. Undeclared' /\ Others'
    BY <2>1 DEF Inv, Undeclared, Others
  <2>3. Owns(proc', fds', mem')
    BY <2>1 DEF Inv
  <2>. QED
    BY <2>1, <2>2, <2>3 DEF Inv
<1>2. CASE Next
  <2>1. PICK p \in Pids :
           \/ Pipe(p)
           \/ OpenSocket(p)
           \/ Fork(p)
           \/ \E n \in 1 .. MaxBytes : PreadWake(p, n)
           \/ \E q \in Pids : DeclareChild(p, q)
           \/ \E q \in Pids : Kill(p, q)
           \/ \E f \in Fds \cup {-1} : Reopen(p, f)
           \/ \E f \in Fds :
                 \/ Close(p, f)
                 \/ Dup(p, f)
                 \/ DupFd(p, f)
                 \/ PreadSleep(p, f)
                 \/ Pwrite(p, f)
                 \/ \E n \in 1 .. MaxBytes : Pread(p, f, n)
                 \/ \E g \in Fds : Dup2(p, f, g)
    BY <1>2, Zenon DEF Next
  <2>2. CASE Pipe(p)
    BY <2>2, PipeInv
  <2>3. CASE OpenSocket(p)
    BY <2>3, OpenSocketInv
  <2>4. CASE Fork(p)
    BY <2>4, ForkInv
  <2>5. CASE \E n \in 1 .. MaxBytes : PreadWake(p, n)
    BY <2>5, PreadWakeInv
  <2>6. CASE \E q \in Pids : DeclareChild(p, q)
    BY <2>6, DeclareChildInv
  <2>7. CASE \E q \in Pids : Kill(p, q)
    BY <2>7, KillInv
  <2>8. CASE \E f \in Fds \cup {-1} : Reopen(p, f)
    BY <2>8, ReopenInv
  <2>9. CASE \E f \in Fds : Close(p, f)
    BY <2>9, CloseInv
  <2>10. CASE \E f \in Fds : Dup(p, f) \/ DupFd(p, f)
    BY <2>10, DupInv
  <2>11. CASE \E f \in Fds : PreadSleep(p, f)
    BY <2>11, PreadSleepInv
  <2>12. CASE \E f \in Fds : Pwrite(p, f)
    BY <2>12, PwriteInv
  <2>13. CASE \E f \in Fds : \E n \in 1 .. MaxBytes : Pread(p, f, n)
    BY <2>13, PreadInv
  <2>14. CASE \E f \in Fds : \E g \in Fds : Dup2(p, f, g)
    BY <2>14, Dup2Inv
  <2>. QED
    BY <2>1, <2>2, <2>3, <2>4, <2>5, <2>6, <2>7, <2>8, <2>9, <2>10, <2>11, <2>12, <2>13, <2>14, Zenon
<1>. QED
  BY <1>1, <1>2

\* What descriptors share is counted right after every call.
THEOREM AlwaysCounted == ASSUME Premise PROVE Spec => []Inv
<1>1. Init => Inv
  BY InitInv
<1>2. Inv /\ [Next]_vars => Inv'
  BY StepInv
<1>. QED
  BY <1>1, <1>2, PTL DEF Spec

-----------------------------------------------------------------------------
(* The properties.                                                         *)

\* What the invariant says of one process and one pipe.
LEMMA EntriesAt ==
    ASSUME Inv, NEW p \in Pids, NEW x \in Pipes
    PROVE  /\ mem.pipes[x].readers \in Seq(Pids) /\ mem.pipes[x].writers \in Seq(Pids)
           /\ mem.pipes[x] \in PipeRec /\ PipeOK(mem.pipes[x])
           /\ Fits(proc[p], Occ(mem.pipes[x].readers, p), Held(fds, p, End("PPRD", x)))
           /\ Fits(proc[p], Occ(mem.pipes[x].writers, p), Held(fds, p, End("PPWR", x)))
           /\ Entries(x, "readers", p) = Occ(mem.pipes[x].readers, p)
           /\ Entries(x, "writers", p) = Occ(mem.pipes[x].writers, p)
<1>1. Shape(fds, mem) /\ Listed(proc, fds, mem)
  BY DEF Inv, Owns
<1>2. /\ mem.pipes[x].readers \in Seq(Pids) /\ mem.pipes[x].writers \in Seq(Pids)
      /\ mem.pipes[x] \in PipeRec /\ PipeOK(mem.pipes[x])
      /\ Readers(mem)[x] = mem.pipes[x].readers /\ Writers(mem)[x] = mem.pipes[x].writers
  BY <1>1, ShapeAt
<1>3. /\ Fits(proc[p], Occ(Readers(mem)[x], p), Held(fds, p, End("PPRD", x)))
      /\ Fits(proc[p], Occ(Writers(mem)[x], p), Held(fds, p, End("PPWR", x)))
  BY <1>1 DEF Listed, SideFits
<1>4. /\ Entries(x, "readers", p) = Occ(mem.pipes[x].readers, p)
      /\ Entries(x, "writers", p) = Occ(mem.pipes[x].writers, p)
  BY Zenon DEF Entries, Occ
<1>. QED
  BY <1>2, <1>3, <1>4

\* An entry makes a pipe used, and a pipe that is used has one.
LEMMA UsedEntry ==
    ASSUME Inv, NEW x \in Pipes
    PROVE  mem.pipes[x].used <=>
              \E p \in Pids : \/ Occ(mem.pipes[x].readers, p) > 0
                              \/ Occ(mem.pipes[x].writers, p) > 0
<1>1. Shape(fds, mem)
  BY DEF Inv, Owns
<1>2. /\ mem.pipes[x].readers \in Seq(Pids) /\ mem.pipes[x].writers \in Seq(Pids)
      /\ PipeOK(mem.pipes[x])
  BY <1>1, ShapeAt
<1>3. mem.pipes[x].used <=> mem.pipes[x].readers # <<>> \/ mem.pipes[x].writers # <<>>
  BY <1>2 DEF PipeOK
<1>4. mem.pipes[x].readers # <<>> <=> \E p \in Pids : Occ(mem.pipes[x].readers, p) > 0
  BY <1>2, OccNonempty
<1>5. mem.pipes[x].writers # <<>> <=> \E p \in Pids : Occ(mem.pipes[x].writers, p) > 0
  BY <1>2, OccNonempty
<1>. QED
  BY <1>3, <1>4, <1>5, Zenon

\* The types.
LEMMA InvTypes == Inv => TypeOK
<1>. SUFFICES ASSUME Inv PROVE TypeOK
  OBVIOUS
<1>1. Shape(fds, mem) /\ Others
  BY DEF Inv, Owns
<1>2. fds \in [Pids -> [Fds -> [type : FdTypes, ref : Pipes \cup Paths \cup Socks \cup {0}]]]
  BY <1>1 DEF Shape, Tables, Descs
<1>3. ASSUME NEW s, s \in Seq(Pids), Len(s) <= PIPE_MAX_REF
      PROVE  s \in BoundedSeq(Pids, PIPE_MAX_REF)
  <2>1. Len(s) \in 0 .. PIPE_MAX_REF /\ s \in [1 .. Len(s) -> Pids]
    BY <1>3, Sizes
  <2>. QED
    BY <2>1 DEF BoundedSeq, SeqOf
<1>4. mem.pipes \in [Pipes -> PipeType]
  <2>1. mem.pipes \in [Pipes -> PipeRec]
    BY <1>1 DEF Shape, Memory
  <2>2. ASSUME NEW x \in Pipes PROVE mem.pipes[x] \in PipeType
    <3>c. PICK pipe : pipe = mem.pipes[x]
      OBVIOUS
    <3>1. pipe \in PipeRec /\ PipeOK(pipe)
      BY <2>1, <3>c, <1>1 DEF Shape
    <3>2. /\ pipe.used \in BOOLEAN /\ pipe.data \in 0 .. MaxBytes
          /\ pipe.readers \in Seq(Pids) /\ pipe.writers \in Seq(Pids)
          /\ pipe = [used |-> pipe.used, data |-> pipe.data,
                     readers |-> pipe.readers, writers |-> pipe.writers]
      BY <3>1 DEF PipeRec
    <3>3. /\ pipe.readers \in BoundedSeq(Pids, PIPE_MAX_REF)
          /\ pipe.writers \in BoundedSeq(Pids, PIPE_MAX_REF)
      BY <3>1, <3>2, <1>3 DEF PipeOK
    <3>4. pipe \in PipeType
      BY <3>2, <3>3, Zenon DEF PipeType
    <3>. QED
      BY <3>4, <3>c
  <2>. QED
    BY <2>1, <2>2
<1>. QED
  BY <1>1, <1>2, <1>4 DEF Inv, TypeOK, Others

\* The entries of a process are its descriptors.
LEMMA InvEntries == Inv => EntriesMatch
<1>. SUFFICES ASSUME Inv, NEW p \in Pids, proc[p] \in {"ready", "asleep", "dead"},
                     NEW x \in Pipes, NEW type \in {"PPRD", "PPWR"}
              PROVE  /\ Entries(x, Side(type), p) = Held(fds, p, End(type, x))
                     /\ Held(fds, p, End(type, x)) > 0 => mem.pipes[x].used
  BY Zenon DEF EntriesMatch, Held, End
<1>1. /\ Fits(proc[p], Occ(mem.pipes[x].readers, p), Held(fds, p, End("PPRD", x)))
      /\ Fits(proc[p], Occ(mem.pipes[x].writers, p), Held(fds, p, End("PPWR", x)))
      /\ Entries(x, "readers", p) = Occ(mem.pipes[x].readers, p)
      /\ Entries(x, "writers", p) = Occ(mem.pipes[x].writers, p)
  BY EntriesAt
<1>2. CASE type = "PPRD"
  <2>1. Side(type) = "readers"
    BY <1>2 DEF Side
  <2>2. Entries(x, "readers", p) = Held(fds, p, End("PPRD", x))
    BY <1>1 DEF Fits
  <2>3. Held(fds, p, End("PPRD", x)) > 0 => mem.pipes[x].used
    BY <1>1, <2>2, UsedEntry
  <2>. QED
    BY <1>2, <2>1, <2>2, <2>3
<1>3. CASE type = "PPWR"
  <2>1. Side(type) = "writers"
    BY <1>3 DEF Side
  <2>2. Entries(x, "writers", p) = Held(fds, p, End("PPWR", x))
    BY <1>1 DEF Fits
  <2>3. Held(fds, p, End("PPWR", x)) > 0 => mem.pipes[x].used
    BY <1>1, <2>2, UsedEntry
  <2>. QED
    BY <1>3, <2>1, <2>2, <2>3
<1>. QED
  BY <1>2, <1>3

\* A process with an entry holds the pipe, or is a victim.
LEMMA EntryHolder ==
    ASSUME Inv, NEW x \in Pipes, NEW p \in Pids, NEW n \in Nat, n > 0, NEW type \in {"PPRD", "PPWR"},
           Fits(proc[p], n, Held(fds, p, End(type, x)))
    PROVE  p \in Holders(type, x) \/ proc[p] = "victim"
<1>1. proc[p] \in ProcStates /\ Others
  BY DEF Inv
<1>2. CASE proc[p] \in {"ready", "asleep"}
  <2>1. Held(fds, p, End(type, x)) # 0
    BY <1>2 DEF Fits
  <2>2. \E f \in Fds : fds[p][f] = End(type, x)
    BY <2>1, HeldType
  <2>. QED
    BY <1>2, <2>2 DEF Holders, IsAlive, End
<1>3. CASE proc[p] = "dead"
  <2>1. \A f \in Fds : fds[p][f] # End(type, x)
    BY <1>1, <1>3 DEF Others, FreeFd, End
  <2>2. Held(fds, p, End(type, x)) = 0
    BY <2>1, HeldType
  <2>. QED
    BY <1>3, <2>2 DEF Fits
<1>4. CASE proc[p] \in {"none", "new"}
  BY <1>4 DEF Fits
<1>. QED
  BY <1>1, <1>2, <1>3, <1>4 DEF ProcStates

\* No pipe is lost but to a victim.
LEMMA InvNoPipeLost == Inv => NoPipeLost
<1>. SUFFICES ASSUME Inv, NEW x \in Pipes, mem.pipes[x].used
              PROVE  \/ Holders("PPRD", x) \cup Holders("PPWR", x) # {}
                     \/ \E p \in Pids : /\ proc[p] = "victim"
                                        /\ Entries(x, "readers", p) + Entries(x, "writers", p) > 0
  BY DEF NoPipeLost
<1>1. PICK p \in Pids : \/ Occ(mem.pipes[x].readers, p) > 0
                        \/ Occ(mem.pipes[x].writers, p) > 0
  BY UsedEntry
<1>r. PICK r : r = Occ(mem.pipes[x].readers, p)
  OBVIOUS
<1>w. PICK w : w = Occ(mem.pipes[x].writers, p)
  OBVIOUS
<1>2. /\ mem.pipes[x].readers \in Seq(Pids) /\ mem.pipes[x].writers \in Seq(Pids)
      /\ Fits(proc[p], r, Held(fds, p, End("PPRD", x)))
      /\ Fits(proc[p], w, Held(fds, p, End("PPWR", x)))
      /\ Entries(x, "readers", p) = r
      /\ Entries(x, "writers", p) = w
  BY <1>r, <1>w, EntriesAt
<1>3. r \in Nat /\ w \in Nat
  <2>1. Occ(mem.pipes[x].readers, p) \in Nat /\ Occ(mem.pipes[x].writers, p) \in Nat
    BY <1>2, OccType, Zenon
  <2>. QED
    BY <2>1, <1>r, <1>w, Zenon
<1>4. r > 0 \/ w > 0
  BY <1>1, <1>r, <1>w
<1>5. \/ p \in Holders("PPRD", x)
      \/ p \in Holders("PPWR", x)
      \/ proc[p] = "victim"
  <2>1. CASE r > 0
    BY <2>1, <1>2, <1>3, EntryHolder
  <2>2. CASE w > 0
    BY <2>2, <1>2, <1>3, EntryHolder
  <2>. QED
    BY <2>1, <2>2, <1>4
<1>6. Entries(x, "readers", p) + Entries(x, "writers", p) > 0
  BY <1>2, <1>3, <1>4
<1>. QED
  BY <1>5, <1>6

\* A path has one owner.
LEMMA InvPaths == Inv => PathsOwned
<1>. SUFFICES ASSUME Inv PROVE PathsOwned
  OBVIOUS
<1>. DEFINE Dirs == {d \in Pids \X Fds : fds[d[1]][d[2]].type = "DIR"}
            R(d) == fds[d[1]][d[2]].ref
            h == [d \in Dirs |-> R(d)]
<1>1. Shape(fds, mem) /\ PathsFit(fds, mem) /\ fds \in Tables
  BY DEF Inv, Owns, Shape
<1>2. \A d \in Dirs : R(d) \in mem.paths
  BY <1>1 DEF Shape
<1>3. ASSUME NEW a \in mem.paths
      PROVE  \E d \in Dirs : R(d) = a
  <2>1. PICK p \in Pids, f \in Fds : fds[p][f] = End("DIR", a)
    BY <1>1 DEF PathsFit
  <2>2. fds[p][f].type = "DIR" /\ fds[p][f].ref = a
    BY <2>1 DEF End
  <2>3. <<p, f>> \in Dirs /\ R(<<p, f>>) = a
    BY <2>2
  <2>. QED
    BY <2>3, Zenon
<1>4. ASSUME NEW d \in Dirs, NEW e \in Dirs, R(d) = R(e)
      PROVE  d = e
  <2>1. PICK p \in Pids, f \in Fds : d = <<p, f>>
    OBVIOUS
  <2>2. PICK q \in Pids, g \in Fds : e = <<q, g>>
    OBVIOUS
  <2>3. /\ fds[p][f].type = "DIR" /\ fds[q][g].type = "DIR"
        /\ fds[p][f].ref = fds[q][g].ref
    BY <1>4, <2>1, <2>2
  <2>4. /\ fds[p][f] = End(fds[p][f].type, fds[p][f].ref)
        /\ fds[q][g] = End(fds[q][g].type, fds[q][g].ref)
    BY <1>1, DescAt
  <2>5. fds[p][f] = fds[q][g]
    BY <2>3, <2>4
  <2>6. p = q /\ f = g
    BY <1>1, <2>3, <2>5, OneOwner
  <2>. QED
    BY <2>1, <2>2, <2>6
<1>5. IsFiniteSet(Dirs)
  BY Sizes, FS_Subset
<1>6. mem.paths = {R(d) : d \in Dirs}
  <2>. HIDE DEF Dirs, R
  <2>. QED
    BY <1>2, <1>3
<1>7. ExistsBijection(Dirs, mem.paths)
  <2>. HIDE DEF Dirs, R
  <2>1. h \in [Dirs -> mem.paths]
    BY <1>2
  <2>2. \A d, e \in Dirs : h[d] = h[e] => d = e
    BY <1>4
  <2>3. \A a \in mem.paths : \E d \in Dirs : h[d] = a
    BY <1>3
  <2>. HIDE DEF h
  <2>4. h \in Injection(Dirs, mem.paths)
    BY <2>1, <2>2, Fun_IsInj
  <2>5. h \in Surjection(Dirs, mem.paths)
    BY <2>1, <2>3, Fun_IsSurj
  <2>. QED
    BY <2>4, <2>5 DEF ExistsBijection, Bijection
<1>8. Cardinality(mem.paths) = Cardinality(Dirs)
  <2>. HIDE DEF Dirs
  <2>. QED
    BY <1>5, <1>7, FS_Bijection
<1>. QED
  BY <1>6, <1>8, Zenon DEF PathsOwned

\* A socket is counted once for each descriptor.
LEMMA InvSockets == Inv => SocketRefs
<1>. SUFFICES ASSUME Inv PROVE SocketRefs
  OBVIOUS
<1>1. \A s \in mem.socks : mem.refs[s] = Users(proc, fds, s)
  BY DEF Inv, Owns, RefsFit
<1>. QED
  BY <1>1, Zenon DEF SocketRefs, Users, End

\* The state has its types: no list grows past its array, and a sleeper has
\* open the end of the pipe that fm_pread holds on to.
THEOREM TypeCorrect == ASSUME Premise PROVE Spec => []TypeOK
BY AlwaysCounted, InvTypes, PTL

\* The lists that fm_dup2, fm_declare_child, fm_close_data and __atdeath keep by
\* pid go with the descriptors.
THEOREM EntriesAlwaysMatch == ASSUME Premise PROVE Spec => []EntriesMatch
BY AlwaysCounted, InvEntries, PTL

\* A pipe is free again with its last holder, unless fm_close_data left the
\* entries of a process that died in the context of another.
THEOREM PipesNeverLost == ASSUME Premise PROVE Spec => []NoPipeLost
BY AlwaysCounted, InvNoPipeLost, PTL

\* The path that fm_reopen and fm_dup2 allocate belongs to one descriptor and
\* is freed with it.
THEOREM PathsAlwaysOwned == ASSUME Premise PROVE Spec => []PathsOwned
BY AlwaysCounted, InvPaths, PTL

\* A socket's count is the number of its descriptors, over fork, dup and death.
THEOREM SocketsAlwaysCounted == ASSUME Premise PROVE Spec => []SocketRefs
BY AlwaysCounted, InvSockets, PTL
=============================================================================
