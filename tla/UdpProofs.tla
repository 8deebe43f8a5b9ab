------------------------------ MODULE UdpProofs ------------------------------
(***************************************************************************)
(* Proofs about Udp: a socket lives as long as somebody refers to it, and  *)
(* every accepted packet leaves once and in order, for any number of       *)
(* processes, sockets and packets, any length of the queues and any set of *)
(* ports.                                                                  *)
(*                                                                         *)
(* Inv is the inductive invariant.  Array relates the array to the table   *)
(* of descriptors and to the bitmap of ports, Flow the queues to the log;  *)
(* both take the array as a parameter, for in one step socket_tick shifts  *)
(* a queue, ends sockets, delivers a packet and compacts, and each of      *)
(* these is a lemma of its own about an array.                             *)
(***************************************************************************)
EXTENDS Udp, FiniteSetTheorems, WellFoundedInduction, TLAPS

\* What a socket and what the log of a socket are made of.
SocketType == [id : Ids, ref_count : Int, do_remove : BOOLEAN, local_port : Nat,
               send : Seq(Nat), recv : Seq(Nat)]

LogType == [accepted : Nat, wire : Seq(Nat), delivered : Nat, read : Seq(Nat)]

Types ==
    /\ last_id \in Nat
    /\ held \in [Procs -> SUBSET Ids]
    /\ call \in [Procs -> [op : {"none", "send", "recv"}, id : Ids \cup {0}]]
    /\ inbox \in Seq(Nat)
    /\ sp \in [pc : {"timed", "forever", "woken", "running", "sending"}, at : Nat, packet : Int]
    /\ log \in [Ids -> LogType]

\* How many processes have a descriptor of a socket, in a table of descriptors.
Count(h, id) == Cardinality({p \in Procs : id \in h[p]})

Locked(ss) == {htons(ss[i].local_port) : i \in {k \in DOMAIN ss : ss[k].local_port # 0}}

\* The array ss goes with the descriptors h and the locked ports b, before
\* identifier n is given out.
Array(ss, h, b, n) ==
    /\ ss \in Seq(SocketType) /\ n \in Nat
    /\ \A i, j \in DOMAIN ss : ss[i].id = ss[j].id => i = j
    /\ \A i \in DOMAIN ss :
          /\ ss[i].id < n
          /\ ~ss[i].do_remove => ss[i].ref_count = Count(h, ss[i].id)
          /\ ss[i].do_remove => ss[i].local_port = 0 /\ Count(h, ss[i].id) = 0
          /\ ss[i].local_port \in Ports \cup {0}
    /\ \A i, j \in DOMAIN ss : ss[i].local_port = ss[j].local_port => i = j \/ ss[i].local_port = 0
    /\ \A p \in Procs : \A id \in h[p] : \E i \in DOMAIN ss : ss[i].id = id
    /\ b = Locked(ss)

NoLog == [accepted |-> 0, wire |-> <<>>, delivered |-> 0, read |-> <<>>]

\* The queues of a socket hold what the log lg has accepted and not yet given
\* to the card, delivered and not yet read; the card has the first packet of
\* socket at.
Flow(ss, at, lg, n) ==
    /\ \A i \in DOMAIN ss : ~ss[i].do_remove =>
          /\ lg[ss[i].id].wire \o (IF i = at THEN Tail(ss[i].send) ELSE ss[i].send)
                = Upto(lg[ss[i].id].accepted)
          /\ lg[ss[i].id].read \o ss[i].recv = Upto(lg[ss[i].id].delivered)
    /\ \A id \in Ids : (\A i \in DOMAIN ss : ss[i].id = id => ss[i].do_remove)
                           => lg[id].wire = Upto(lg[id].accepted)
    /\ \A id \in Ids : id >= n => lg[id] = NoLog

\* The index of the socket whose first packet the card has, or 0.
InFlight == IF sp.pc = "sending" THEN sp.at ELSE 0

\* The socket process sleeps in eth_send on a socket of the array that has
\* not ended, and only those before it can have; elsewhere none has.
Sending ==
    IF sp.pc = "sending"
    THEN /\ sp.at \in DOMAIN sockets /\ sockets[sp.at].send # <<>>
         /\ \A i \in DOMAIN sockets : sockets[i].do_remove => i < sp.at
    ELSE \A i \in DOMAIN sockets : ~sockets[i].do_remove

\* Who sleeps in a call has the descriptor; who is dead has nothing.
Calls ==
    \A p \in Procs : /\ call[p].op # "none" => call[p].id \in held[p]
                     /\ p \notin alive => held[p] = {} /\ call[p] = NoCall

\* The inductive invariant.
Inv ==
    /\ Types
    /\ Array(sockets, held, bitmap, last_id)
    /\ Flow(sockets, InFlight, log, last_id)
    /\ Sending
    /\ Calls

-----------------------------------------------------------------------------
\* A set of numbers has a least one.
LEMMA LeastNumber ==
    ASSUME NEW S, S \subseteq Nat, S # {}
    PROVE  \E x \in S : \A y \in S : x <= y
<1>1. PICK x \in S : \A y \in S : ~ (<<y, x>> \in OpToRel(<, Nat))
  BY WFMin, NatLessThanWellFounded
<1>2. \A y \in S : ~ (y < x)
  BY <1>1 DEF OpToRel
<1>. QED
  BY <1>2

\* SelectInSeq and SelectInSubSeq return an index they looked for.
LEMMA MinIn ==
    ASSUME NEW S, S \subseteq Nat, S # {}
    PROVE  Min(S) \in S
BY LeastNumber DEF Min
-----------------------------------------------------------------------------
(* Ports                                                                   *)

\* A number in base b has one pair of digits.
LEMMA Digits ==
    ASSUME NEW b \in Nat, NEW r \in Nat, NEW q \in Nat, NEW s \in Nat, NEW t \in Nat,
           q < b, t < b, r * b + q = s * b + t
    PROVE  r = s /\ q = t
<1>1. ASSUME NEW x \in Nat, NEW y \in Nat, x < y
      PROVE  y * b >= x * b + b
  <2>1. PICK d \in Nat : y = x + 1 + d
    <3>1. y - (x + 1) \in Nat /\ y = x + 1 + (y - (x + 1))
      BY <1>1
    <3>. QED
      BY <3>1
  <2>2. y * b = x * b + b + d * b
    BY <2>1, SMT
  <2>3. d * b \in Nat /\ x * b \in Nat
    BY SMT
  <2>. DEFINE m == d * b  k == x * b  l == y * b
  <2>4. m \in Nat /\ k \in Nat /\ l = k + b + m
    BY <2>2, <2>3
  <2>. HIDE DEF m, k, l
  <2>5. l >= k + b
    BY <2>4
  <2>. QED
    BY <2>5 DEF k, l
<1>. DEFINE k == r * b  l == s * b
<1>2. /\ k \in Nat /\ l \in Nat
      /\ k + q = l + t
      /\ r < s => l >= k + b
      /\ s < r => k >= l + b
  BY <1>1
<1>. HIDE DEF k, l
<1>3. ~ (r < s) /\ ~ (s < r)
  BY <1>2
<1>4. r = s
  BY <1>3
<1>5. k = l
  <2>1. r * b = s * b
    BY <1>4, Zenon
  <2>. QED
    BY <2>1 DEF k, l
<1>. QED
  BY <1>2, <1>4, <1>5

\* The two bytes of a port.
LEMMA Bytes ==
    ASSUME NEW a \in Ports \cup {0}
    PROVE  /\ a % Base \in Nat /\ a % Base < Base
           /\ a \div Base \in Nat /\ a \div Base < Base
           /\ a = (a \div Base) * Base + (a % Base)
           /\ htons(a) = (a % Base) * Base + a \div Base
<1>. DEFINE q == a \div Base
            r == a % Base
<1>1. Base \in Nat /\ Base > 0 /\ a \in Nat /\ a < Base * Base
  <2>1. Base \in Nat /\ Base > 0
    BY SizeAssumption
  <2>2. Base * Base \in Nat /\ Base * Base > 0
    BY <2>1, SMT
  <2>. QED
    BY <2>1, <2>2 DEF Ports
<1>2. q \in Int /\ r \in Int /\ r >= 0 /\ r < Base /\ a = Base * q + r
  BY <1>1, SMT
<1>3. htons(a) = r * Base + q
  BY DEF htons
<1>. HIDE DEF q, r
<1>4. q >= 0
  BY <1>1, <1>2, SMT
<1>5. q < Base
  <2>1. ASSUME q >= Base PROVE FALSE
    <3>1. Base * q >= Base * Base
      BY <1>1, <1>2, <2>1, SMT
    <3>. DEFINE m == Base * q  n == Base * Base
    <3>2. m \in Int /\ n \in Int /\ m >= n /\ a = m + r /\ a < n
      BY <1>1, <1>2, <3>1
    <3>. HIDE DEF m, n
    <3>. QED
      BY <1>2, <3>2
  <2>. QED
    BY <1>1, <1>2, <2>1
<1>6. Base * q = q * Base
  BY <1>1, <1>2, SMT
<1>7. r \in Nat /\ q \in Nat /\ a = q * Base + r
  BY <1>2, <1>4, <1>6
<1>. QED
  BY <1>2, <1>3, <1>5, <1>7, Zenon DEF q, r

\* ntohs is one to one and leaves 0 alone.
LEMMA PortOrder ==
    ASSUME NEW a \in Ports \cup {0}, NEW b \in Ports \cup {0}, htons(a) = htons(b)
    PROVE  a = b
<1>1. a % Base = b % Base /\ a \div Base = b \div Base
  <2>1. PICK x \in Nat, y \in Nat, u \in Nat, v \in Nat :
           /\ x = a % Base /\ y = a \div Base /\ u = b % Base /\ v = b \div Base
           /\ y < Base /\ v < Base
           /\ x * Base + y = u * Base + v
    BY Bytes
  <2>2. Base \in Nat
    BY SizeAssumption
  <2>3. /\ x \in Nat /\ y \in Nat /\ u \in Nat /\ v \in Nat
        /\ y < Base /\ v < Base /\ x * Base + y = u * Base + v
    BY <2>1
  <2>4. x = u /\ y = v
    BY <2>2, <2>3, Digits, ZenonT(40)
  <2>. QED
    BY <2>1, <2>4
<1>2. a = (a \div Base) * Base + (a % Base) /\ b = (b \div Base) * Base + (b % Base)
  BY Bytes
<1>. QED
  BY <1>1, <1>2, Zenon

\* ntohs of a port is a port.
LEMMA PortKept ==
    ASSUME NEW a \in Ports \cup {0}
    PROVE  htons(a) \in Ports \cup {0}
<1>1. PICK x \in Nat, y \in Nat : x < Base /\ y < Base /\ htons(a) = x * Base + y
  BY Bytes
<1>2. Base \in Nat /\ Base > 0
  BY SizeAssumption
<1>3. x * Base + y >= 0 /\ x * Base + y < Base * Base /\ x * Base + y \in Int
  <2>1. PICK d \in Nat : Base = x + 1 + d
    <3>1. Base - (x + 1) \in Nat /\ Base = x + 1 + (Base - (x + 1))
      BY <1>1, <1>2
    <3>. QED
      BY <3>1
  <2>2. Base * Base = x * Base + Base + d * Base
    BY <2>1, <1>2, SMT
  <2>3. x * Base \in Nat /\ d * Base \in Nat
    BY <1>2, SMT
  <2>. DEFINE k == x * Base  m == d * Base  l == Base * Base
  <2>4. k \in Nat /\ m \in Nat /\ l = k + Base + m
    BY <2>2, <2>3
  <2>. HIDE DEF k, m, l
  <2>5. k + y >= 0 /\ k + y < l /\ k + y \in Int
    BY <2>4, <1>1, <1>2
  <2>. QED
    BY <2>5 DEF k, l
<1>. DEFINE z == x * Base + y
            l == Base * Base
<1>4. z \in Int /\ z >= 0 /\ z < l /\ l \in Nat
  BY <1>2, <1>3
<1>. HIDE DEF z, l
<1>5. z \in 1 .. l - 1 \cup {0}
  BY <1>4
<1>. QED
  BY <1>1, <1>5 DEF z, l, Ports

\* udp_get_free_port returns a port.
LEMMA FreePortIsPort == FreePort \in Ports
<1>. DEFINE l == Base * Base
            c == IF CLT_PORT_START \in bitmap THEN CLT_PORT_START + 1 ELSE CLT_PORT_START
<1>1. l \in Nat /\ CLT_PORT_START \in 1 .. l - 2
  BY SizeAssumption
<1>. HIDE DEF l
<1>2. c \in 1 .. l - 1
  BY <1>1
<1>. HIDE DEF c
<1>3. c \in Ports /\ c # 0
  BY <1>2 DEF Ports, l
<1>4. htons(c) \in Ports \cup {0}
  BY <1>3, PortKept
<1>5. htons(0) = 0
  <2>1. Base \in Nat /\ Base > 0
    BY SizeAssumption
  <2>2. 0 % Base = 0 /\ 0 \div Base = 0
    BY <2>1, SMT
  <2>. QED
    BY <2>1, <2>2 DEF htons
<1>6. htons(c) # 0
  BY <1>3, <1>5, PortOrder
<1>. QED
  BY <1>4, <1>6 DEF FreePort, c
-----------------------------------------------------------------------------
(* Counting descriptors                                                    *)

\* A socket is counted 0 times when nobody has a descriptor of it.
LEMMA CountType ==
    ASSUME NEW h, NEW id
    PROVE  /\ Count(h, id) \in Nat
           /\ Count(h, id) = 0 <=> \A p \in Procs : id \notin h[p]
<1>. DEFINE S == {p \in Procs : id \in h[p]}
<1>1. IsFiniteSet(S)
  BY SizeAssumption, FS_Subset
<1>2. Cardinality(S) \in Nat
  BY <1>1, FS_CardinalityType
<1>3. Cardinality(S) = 0 <=> S = {}
  BY <1>1, FS_EmptySet
<1>. QED
  BY <1>2, <1>3 DEF Count

\* Descriptors of other sockets do not count.
LEMMA CountSame ==
    ASSUME NEW h, NEW g, NEW id, \A p \in Procs : id \in h[p] <=> id \in g[p]
    PROVE  Count(g, id) = Count(h, id)
<1>1. {p \in Procs : id \in h[p]} = {p \in Procs : id \in g[p]}
  OBVIOUS
<1>. QED
  BY <1>1 DEF Count

\* One process more has a descriptor.
LEMMA CountMore ==
    ASSUME NEW h, NEW g, NEW id, NEW q \in Procs, id \notin h[q], id \in g[q],
           \A p \in Procs \ {q} : id \in h[p] <=> id \in g[p]
    PROVE  Count(g, id) = Count(h, id) + 1
<1>. DEFINE S == {p \in Procs : id \in h[p]}
            T == {p \in Procs : id \in g[p]}
<1>1. IsFiniteSet(S)
  BY SizeAssumption, FS_Subset
<1>2. T = S \cup {q} /\ q \notin S
  OBVIOUS
<1>. HIDE DEF S, T
<1>3. Cardinality(T) = Cardinality(S) + 1
  BY <1>1, <1>2, FS_AddElement
<1>. QED
  BY <1>3 DEF Count, S, T

-----------------------------------------------------------------------------
(* Changes of the array                                                    *)

\* Two sockets that differ in their queues.
SameButQueues(s, t) ==
    /\ s.id = t.id /\ s.ref_count = t.ref_count
    /\ s.do_remove = t.do_remove /\ s.local_port = t.local_port

\* What joins and leaves the queues leaves the array as it is.
LEMMA QueuesChange ==
    ASSUME NEW ss, NEW tt, NEW h, NEW b, NEW n, Array(ss, h, b, n),
           tt \in Seq(SocketType), Len(tt) = Len(ss),
           \A i \in DOMAIN ss : SameButQueues(ss[i], tt[i])
    PROVE  Array(tt, h, b, n)
<1>1. ss \in Seq(SocketType)
  BY DEF Array
<1>2. DOMAIN tt = DOMAIN ss
  BY <1>1
<1>3. \A i \in DOMAIN ss : /\ tt[i].id = ss[i].id /\ tt[i].ref_count = ss[i].ref_count
                           /\ tt[i].do_remove = ss[i].do_remove
                           /\ tt[i].local_port = ss[i].local_port
  BY DEF SameButQueues
<1>4. Locked(tt) = Locked(ss)
  BY <1>2, <1>3 DEF Locked
<1>. QED
  BY <1>2, <1>3, <1>4 DEF Array

\* A socket without a port gets one that no other has.
LEMMA PortTaken ==
    ASSUME NEW ss, NEW tt, NEW h, NEW b, NEW n, Array(ss, h, b, n),
           NEW i \in DOMAIN ss, NEW port \in Ports, ~ss[i].do_remove,
           \A k \in DOMAIN ss : ss[k].local_port # port, ss[i].local_port = 0,
           tt = [ss EXCEPT ![i].local_port = port]
    PROVE  Array(tt, h, b \cup {htons(port)}, n)
<1>1. ss \in Seq(SocketType) /\ port \in Nat /\ port # 0
  <2>1. Base * Base \in Int
    BY SizeAssumption
  <2>. QED
    BY <2>1 DEF Array, Ports
<1>2. ss[i] \in SocketType
  BY <1>1
<1>3. [ss[i] EXCEPT !.local_port = port] \in SocketType
  BY <1>1, <1>2 DEF SocketType
<1>4. tt = [ss EXCEPT ![i] = [ss[i] EXCEPT !.local_port = port]]
  OBVIOUS
<1>5. tt \in Seq(SocketType) /\ DOMAIN tt = DOMAIN ss
  BY <1>1, <1>3, <1>4
<1>6. /\ tt[i].id = ss[i].id /\ tt[i].ref_count = ss[i].ref_count
      /\ tt[i].do_remove = ss[i].do_remove /\ tt[i].local_port = port
  BY <1>1, <1>2, <1>4 DEF SocketType
<1>7. \A k \in DOMAIN ss \ {i} : tt[k] = ss[k]
  BY <1>1, <1>4
<1>8. Locked(tt) = Locked(ss) \cup {htons(port)}
  <2>1. {k \in DOMAIN tt : tt[k].local_port # 0} = {k \in DOMAIN ss : ss[k].local_port # 0} \cup {i}
    BY <1>1, <1>5, <1>6, <1>7
  <2>2. \A k \in {m \in DOMAIN ss : ss[m].local_port # 0} : tt[k].local_port = ss[k].local_port
    BY <1>7
  <2>. QED
    BY <1>6, <2>1, <2>2 DEF Locked
<1>. HIDE DEF Locked
<1>9. \A k \in DOMAIN ss : /\ tt[k].id = ss[k].id /\ tt[k].ref_count = ss[k].ref_count
                           /\ tt[k].do_remove = ss[k].do_remove
  BY <1>6, <1>7
<1>10. \A k, m \in DOMAIN tt : tt[k].local_port = tt[m].local_port => k = m \/ tt[k].local_port = 0
  BY <1>5, <1>6, <1>7 DEF Array
<1>11. \A k \in DOMAIN tt :
          /\ tt[k].id < n
          /\ ~tt[k].do_remove => tt[k].ref_count = Count(h, tt[k].id)
          /\ tt[k].do_remove => tt[k].local_port = 0 /\ Count(h, tt[k].id) = 0
          /\ tt[k].local_port \in Ports \cup {0}
  BY <1>5, <1>6, <1>7, <1>9 DEF Array
<1>12. \A k, m \in DOMAIN tt : tt[k].id = tt[m].id => k = m
  BY <1>5, <1>9 DEF Array
<1>13. \A p \in Procs : \A id \in h[p] : \E k \in DOMAIN tt : tt[k].id = id
  BY <1>5, <1>9 DEF Array
<1>14. b \cup {htons(port)} = Locked(tt)
  BY <1>8 DEF Array
<1>. QED
  BY <1>5, <1>10, <1>11, <1>12, <1>13, <1>14 DEF Array

\* Sockets that are referred to more or less often.
LEMMA Recounted ==
    ASSUME NEW ss, NEW tt, NEW h, NEW g, NEW b, NEW n, Array(ss, h, b, n),
           tt \in Seq(SocketType), Len(tt) = Len(ss),
           \A i \in DOMAIN ss : /\ tt[i].id = ss[i].id /\ tt[i].do_remove = ss[i].do_remove
                                /\ tt[i].local_port = ss[i].local_port
                                /\ ~ss[i].do_remove => tt[i].ref_count = Count(g, ss[i].id)
                                /\ ss[i].do_remove => Count(g, ss[i].id) = 0,
           \A p \in Procs : \A id \in g[p] : \E q \in Procs : id \in h[q]
    PROVE  Array(tt, g, b, n)
<1>1. ss \in Seq(SocketType)
  BY DEF Array
<1>2. DOMAIN tt = DOMAIN ss
  BY <1>1
<1>4. Locked(tt) = Locked(ss)
  BY <1>2 DEF Locked
<1>5. \A p \in Procs : \A id \in g[p] : \E i \in DOMAIN ss : ss[i].id = id
  BY DEF Array
<1>. QED
  BY <1>2, <1>4, <1>5 DEF Array
-----------------------------------------------------------------------------
(* Changes of the queues                                                   *)

\* The packet after the first n.
LEMMA UptoNext ==
    ASSUME NEW n \in Nat
    PROVE  /\ Upto(n) \in Seq(Nat)
           /\ Append(Upto(n), n + 1) = Upto(n + 1)
<1>1. Upto(n) \in Seq(Nat) /\ Len(Upto(n)) = n
  BY DEF Upto
<1>2. Upto(n + 1) \in Seq(Nat) /\ Len(Upto(n + 1)) = n + 1
  BY DEF Upto
<1>3. Len(Append(Upto(n), n + 1)) = n + 1
  BY <1>1
<1>4. \A k \in 1 .. n + 1 : Append(Upto(n), n + 1)[k] = Upto(n + 1)[k]
  BY <1>1 DEF Upto
<1>. QED
  BY <1>1, <1>2, <1>3, <1>4

\* A queue behind what has left it, when a packet joins or leaves it.
LEMMA JoinQueue ==
    ASSUME NEW u \in Seq(Nat), NEW v \in Seq(Nat), NEW x \in Nat
    PROVE  /\ u \o Append(v, x) = Append(u \o v, x)
           /\ Append(v, x) \in Seq(Nat) /\ Append(v, x) # <<>>
           /\ v # <<>> => Tail(Append(v, x)) = Append(Tail(v), x)
           /\ v # <<>> => Tail(v) \in Seq(Nat) /\ Head(v) \in Nat
<1>1. u \o Append(v, x) = Append(u \o v, x)
  OBVIOUS
<1>2. Append(v, x) \in Seq(Nat) /\ Append(v, x) # <<>>
  OBVIOUS
<1>3. ASSUME v # <<>>
      PROVE  Tail(v) \in Seq(Nat) /\ Head(v) \in Nat
  BY <1>3
<1>4. ASSUME v # <<>>
      PROVE  Tail(Append(v, x)) = Append(Tail(v), x)
  <2>1. Len(v) >= 1 /\ Len(v) \in Nat
    BY <1>4
  <2>2. Len(Tail(Append(v, x))) = Len(v) /\ Len(Append(Tail(v), x)) = Len(v)
    BY <2>1, <1>4
  <2>3. \A k \in 1 .. Len(v) : Tail(Append(v, x))[k] = Append(Tail(v), x)[k]
    BY <2>1, <1>4
  <2>4. Tail(Append(v, x)) \in Seq(Nat) /\ Append(Tail(v), x) \in Seq(Nat)
    BY <1>2, <1>3, <1>4
  <2>. QED
    BY <2>2, <2>3, <2>4, SMTT(30)
<1>. QED
  BY <1>1, <1>2, <1>3, <1>4

\* The first packet of a queue moves to the end of what has left it.
LEMMA LeaveQueue ==
    ASSUME NEW u \in Seq(Nat), NEW v \in Seq(Nat), v # <<>>
    PROVE  Append(u, Head(v)) \o Tail(v) = u \o v
BY SMTT(30)

\* A step that leaves the queues alone.
LEMMA FlowKept ==
    ASSUME NEW ss, NEW tt, NEW at, NEW lg, NEW n, Flow(ss, at, lg, n),
           DOMAIN tt = DOMAIN ss,
           \A i \in DOMAIN ss : /\ tt[i].id = ss[i].id /\ tt[i].do_remove = ss[i].do_remove
                                /\ tt[i].send = ss[i].send /\ tt[i].recv = ss[i].recv
    PROVE  Flow(tt, at, lg, n)
BY DEF Flow

\* The same socket, there or removed.
SameSocket(s, t) == s.id = t.id /\ s.do_remove = t.do_remove

\* A step that changes the queues of socket i only, or whose packet the card has.
LEMMA FlowOne ==
    ASSUME NEW ss, NEW tt, NEW at, NEW to, NEW lg, NEW mg, NEW n, NEW h, NEW b,
           Flow(ss, at, lg, n), Array(ss, h, b, n),
           DOMAIN tt = DOMAIN ss, NEW i \in DOMAIN ss, ~ss[i].do_remove,
           \A k \in DOMAIN ss : SameSocket(ss[k], tt[k]),
           \A k \in DOMAIN ss \ {i} : /\ tt[k].send = ss[k].send /\ tt[k].recv = ss[k].recv
                                      /\ k = at <=> k = to,
           \A id \in Ids \ {ss[i].id} : mg[id] = lg[id],
           mg[ss[i].id].wire \o (IF i = to THEN Tail(tt[i].send) ELSE tt[i].send)
                = Upto(mg[ss[i].id].accepted),
           mg[ss[i].id].read \o tt[i].recv = Upto(mg[ss[i].id].delivered)
    PROVE  Flow(tt, to, mg, n)
<1>. USE DEF SameSocket
<1>1. ss \in Seq(SocketType)
  BY DEF Array
<1>2. \A k \in DOMAIN ss : ss[k].id \in Ids
  <2>1. \A k \in DOMAIN ss : ss[k] \in SocketType
    BY <1>1
  <2>. QED
    BY <2>1 DEF SocketType
<1>3. \A k \in DOMAIN ss \ {i} : ss[k].id # ss[i].id
  BY DEF Array
<1>4. ss[i].id < n
  BY DEF Array
<1>5. ASSUME NEW k \in DOMAIN tt, ~tt[k].do_remove
      PROVE  /\ mg[tt[k].id].wire \o (IF k = to THEN Tail(tt[k].send) ELSE tt[k].send)
                   = Upto(mg[tt[k].id].accepted)
             /\ mg[tt[k].id].read \o tt[k].recv = Upto(mg[tt[k].id].delivered)
  <2>1. CASE k = i
    BY <2>1
  <2>2. CASE k # i
    <3>1. k \in DOMAIN ss \ {i} /\ ~ss[k].do_remove
      BY <1>5, <2>2
    <3>2. mg[ss[k].id] = lg[ss[k].id]
      BY <1>2, <1>3, <3>1
    <3>3. /\ lg[ss[k].id].wire \o (IF k = at THEN Tail(ss[k].send) ELSE ss[k].send)
                = Upto(lg[ss[k].id].accepted)
          /\ lg[ss[k].id].read \o ss[k].recv = Upto(lg[ss[k].id].delivered)
      BY <3>1 DEF Flow
    <3>. QED
      BY <3>1, <3>2, <3>3
  <2>. QED
    BY <2>1, <2>2
<1>6. \A id \in Ids : (\A k \in DOMAIN tt : tt[k].id = id => tt[k].do_remove)
                          => mg[id].wire = Upto(mg[id].accepted)
  BY DEF Flow
<1>7. \A id \in Ids : id >= n => mg[id] = NoLog
  <2>1. ss[i].id \in Nat /\ n \in Nat
    BY <1>2, SizeAssumption DEF Ids, Array
  <2>2. ~ (ss[i].id >= n)
    BY <1>4, <2>1
  <2>. QED
    BY <2>2 DEF Flow
<1>. QED
  BY <1>5, <1>6, <1>7 DEF Flow
-----------------------------------------------------------------------------
(* Calls                                                                   *)

\* socket_find_id finds the socket of a descriptor.
LEMMA Found ==
    ASSUME Inv, NEW p \in Procs, NEW id \in held[p]
    PROVE  /\ id \in Ids /\ id \in Nat
           /\ IndexOf(id) \in DOMAIN sockets
           /\ sockets[IndexOf(id)].id = id
           /\ ~sockets[IndexOf(id)].do_remove
           /\ sockets[IndexOf(id)] \in SocketType
           /\ log[id] \in LogType
<1>1. id \in Ids /\ log[id] \in LogType
  BY DEF Inv, Types
<1>2. \E i \in DOMAIN sockets : sockets[i].id = id
  BY DEF Inv, Array
<1>3. IndexOf(id) \in DOMAIN sockets /\ sockets[IndexOf(id)].id = id
  BY <1>2 DEF IndexOf
<1>4. Count(held, id) # 0
  BY CountType
<1>5. ~sockets[IndexOf(id)].do_remove
  BY <1>3, <1>4 DEF Inv, Array
<1>6. sockets[IndexOf(id)] \in SocketType
  BY <1>3 DEF Inv, Array
<1>. QED
  BY <1>1, <1>3, <1>5, <1>6, SizeAssumption DEF Ids

\* What a step that stays out of the table of descriptors and the socket
\* process has to show.
LEMMA InvOfArray ==
    ASSUME Inv, UNCHANGED <<last_id, held, inbox, sp, alive>>,
           \A p \in Procs : call'[p] = call[p] \/ call'[p] = NoCall
                               \/ (p \in alive /\ call'[p].id \in held[p]
                                   /\ call'[p].op \in {"send", "recv"}),
           call' \in [Procs -> [op : {"none", "send", "recv"}, id : Ids \cup {0}]],
           log' \in [Ids -> LogType],
           DOMAIN sockets' = DOMAIN sockets,
           \A i \in DOMAIN sockets : sockets'[i].do_remove = sockets[i].do_remove,
           \A i \in DOMAIN sockets : sockets[i].send # <<>> => sockets'[i].send # <<>>,
           Array(sockets', held, bitmap', last_id),
           Flow(sockets', InFlight, log', last_id)
    PROVE  Inv'
<1>1. Types'
  BY DEF Inv, Types
<1>2. InFlight' = InFlight
  BY DEF InFlight
<1>3. Array(sockets, held, bitmap, last_id)' /\ Flow(sockets, InFlight, log, last_id)'
  BY <1>2
<1>4. Sending'
  BY DEF Inv, Sending
<1>5. Calls'
  BY DEF Inv, Calls, NoCall
<1>. QED
  BY <1>1, <1>3, <1>4, <1>5 DEF Inv

\* The sockets when socket i has got a port.
WithPort(i, port) == [sockets EXCEPT ![i].local_port = port]

\* bind, and the bind that sendto and connect do first.
LEMMA Binds ==
    ASSUME Inv, NEW i \in DOMAIN sockets, ~sockets[i].do_remove, sockets[i].local_port = 0,
           NEW port \in Ports, PortIsNew(port),
           NEW tt, tt = WithPort(i, port)
    PROVE  /\ Array(tt, held, bitmap \cup {htons(port)}, last_id)
           /\ Flow(tt, InFlight, log, last_id)
           /\ DOMAIN tt = DOMAIN sockets
           /\ tt[i].local_port = port
           /\ \A k \in DOMAIN sockets :
                 /\ tt[k].id = sockets[k].id /\ tt[k].do_remove = sockets[k].do_remove
                 /\ tt[k].send = sockets[k].send /\ tt[k].recv = sockets[k].recv
<1>1. sockets \in Seq(SocketType)
  BY DEF Inv, Array
<1>2. Array(tt, held, bitmap \cup {htons(port)}, last_id)
  BY PortTaken DEF Inv, PortIsNew, WithPort
<1>3. DOMAIN tt = DOMAIN sockets
  BY <1>1 DEF WithPort
<1>4. \A k \in DOMAIN sockets : sockets[k] \in SocketType
  BY <1>1
<1>5. \A k \in DOMAIN sockets \ {i} : tt[k] = sockets[k]
  BY <1>1 DEF WithPort
<1>6. tt[i] = [sockets[i] EXCEPT !.local_port = port]
  BY <1>1 DEF WithPort
<1>7. \A k \in DOMAIN sockets :
         /\ tt[k].id = sockets[k].id /\ tt[k].do_remove = sockets[k].do_remove
         /\ tt[k].send = sockets[k].send /\ tt[k].recv = sockets[k].recv
  <2>1. /\ tt[i].id = sockets[i].id
        /\ tt[i].send = sockets[i].send /\ tt[i].recv = sockets[i].recv
    BY <1>4, <1>6 DEF SocketType
  <2>2. tt[i].do_remove = sockets[i].do_remove
    BY <1>4, <1>6 DEF SocketType
  <2>. QED
    BY <1>5, <2>1, <2>2
<1>8. tt[i].local_port = port
  BY <1>4, <1>6 DEF SocketType
<1>9. Flow(tt, InFlight, log, last_id)
  BY <1>3, <1>7, FlowKept DEF Inv
<1>. QED
  BY <1>2, <1>3, <1>7, <1>8, <1>9

\* socket_udp_bind and socket_udp_connect keep the invariant.
LEMMA BindInv ==
    ASSUME Inv, NEW p \in Procs, NEW id \in Ids,
           BindAny(p, id) \/ \E port \in Asked : BindTo(p, id, port)
    PROVE  Inv'
<1>1. PICK port \in Ports :
         /\ id \in held[p]
         /\ The(id).local_port = 0
         /\ PortIsNew(port)
         /\ bitmap' = bitmap \cup {htons(port)}
         /\ sockets' = [sockets EXCEPT ![IndexOf(id)].local_port = port]
         /\ UNCHANGED <<last_id, held, call, inbox, sp, alive, log>>
  BY FreePortIsPort, AskedAssumption DEF BindAny, BindTo
<1>2. PICK i \in DOMAIN sockets : i = IndexOf(id) /\ ~sockets[i].do_remove /\ sockets[i].local_port = 0
  BY <1>1, Found DEF The
<1>3. /\ Array(sockets', held, bitmap \cup {htons(port)}, last_id)
      /\ Flow(sockets', InFlight, log, last_id)
      /\ DOMAIN sockets' = DOMAIN sockets
      /\ \A k \in DOMAIN sockets :
            /\ sockets'[k].id = sockets[k].id /\ sockets'[k].do_remove = sockets[k].do_remove
            /\ sockets'[k].send = sockets[k].send /\ sockets'[k].recv = sockets[k].recv
  <2>1. sockets' = WithPort(i, port)
    BY <1>1, <1>2 DEF WithPort
  <2>2. PortIsNew(port) /\ bitmap' = bitmap \cup {htons(port)}
    BY <1>1
  <2>3. PICK tt : tt = WithPort(i, port)
    OBVIOUS
  <2>4. /\ Array(tt, held, bitmap \cup {htons(port)}, last_id)
        /\ Flow(tt, InFlight, log, last_id)
        /\ DOMAIN tt = DOMAIN sockets
        /\ \A k \in DOMAIN sockets :
              /\ tt[k].id = sockets[k].id /\ tt[k].do_remove = sockets[k].do_remove
              /\ tt[k].send = sockets[k].send /\ tt[k].recv = sockets[k].recv
    BY <1>2, <2>2, <2>3, Binds
  <2>. QED
    BY <2>1, <2>3, <2>4, Zenon
<1>4. log' \in [Ids -> LogType]
      /\ call' \in [Procs -> [op : {"none", "send", "recv"}, id : Ids \cup {0}]]
  BY <1>1 DEF Inv, Types
<1>. QED
  BY <1>1, <1>3, <1>4, InvOfArray

\* A packet joins the queue of a socket, which gets a port if it has none.
LEMMA PutKeeps ==
    ASSUME Inv, NEW p \in Procs, NEW id \in held[p], Put(id)
    PROVE  /\ Array(sockets', held, bitmap', last_id)
           /\ Flow(sockets', InFlight, log', last_id)
           /\ DOMAIN sockets' = DOMAIN sockets
           /\ \A i \in DOMAIN sockets : sockets'[i].do_remove = sockets[i].do_remove
           /\ \A i \in DOMAIN sockets : sockets[i].send # <<>> => sockets'[i].send # <<>>
           /\ log' \in [Ids -> LogType]
<1>1. PICK i \in DOMAIN sockets :
         /\ i = IndexOf(id) /\ ~sockets[i].do_remove /\ sockets[i].id = id
         /\ sockets[i] \in SocketType
  BY Found
<1>2. id \in Ids /\ log[id] \in LogType
  BY Found
<1>3. PICK port \in Ports :
         /\ port = IF sockets[i].local_port = 0 THEN FreePort ELSE sockets[i].local_port
         /\ sockets[i].local_port = 0 => PortIsNew(port)
         /\ bitmap' = bitmap \cup {htons(port)}
  <2>1. sockets[i].local_port \in Ports \cup {0}
    BY DEF Inv, Array
  <2>. QED
    BY <1>1, <2>1, FreePortIsPort DEF Put, The
<1>4. PICK x \in Nat : x = log[id].accepted + 1 /\ log[id].accepted \in Nat
  BY <1>2 DEF LogType
<1>5. /\ log' = [log EXCEPT ![id].accepted = @ + 1]
      /\ log' \in [Ids -> LogType]
      /\ \A k \in Ids \ {id} : log'[k] = log[k]
      /\ log'[id].accepted = x /\ log'[id].wire = log[id].wire
      /\ log'[id].delivered = log[id].delivered /\ log'[id].read = log[id].read
  <2>1. log' = [log EXCEPT ![id].accepted = @ + 1] /\ log \in [Ids -> LogType]
    BY DEF Put, Inv, Types
  <2>2. [log[id] EXCEPT !.accepted = x] \in LogType
    BY <1>2, <1>4 DEF LogType
  <2>3. log' = [log EXCEPT ![id] = [log[id] EXCEPT !.accepted = x]]
    BY <1>4, <2>1
  <2>4. log'[id] = [log[id] EXCEPT !.accepted = x]
    BY <1>2, <2>1, <2>3
  <2>. QED
    BY <1>2, <1>4, <2>1, <2>2, <2>3, <2>4 DEF LogType
<1>6. PICK tt : tt = IF sockets[i].local_port = 0 THEN WithPort(i, port) ELSE sockets
  OBVIOUS
<1>7. /\ Array(tt, held, bitmap', last_id)
      /\ Flow(tt, InFlight, log, last_id)
      /\ DOMAIN tt = DOMAIN sockets
      /\ tt[i].local_port = port
      /\ \A k \in DOMAIN sockets :
            /\ tt[k].id = sockets[k].id /\ tt[k].do_remove = sockets[k].do_remove
            /\ tt[k].send = sockets[k].send /\ tt[k].recv = sockets[k].recv
  <2>1. CASE sockets[i].local_port = 0
    BY <1>1, <1>3, <1>6, <2>1, Binds
  <2>2. CASE sockets[i].local_port # 0
    <3>1. htons(port) \in bitmap
      BY <1>3, <2>2 DEF Inv, Array, Locked
    <3>2. bitmap' = bitmap
      BY <1>3, <3>1
    <3>. QED
      BY <1>3, <1>6, <2>2, <3>2 DEF Inv
  <2>. QED
    BY <2>1, <2>2
<1>8. sockets' = [tt EXCEPT ![i].send = Append(@, x)]
  <2>1. sockets' = [sockets EXCEPT ![i].local_port = port, ![i].send = Append(@, x)]
    BY <1>1, <1>3, <1>5 DEF Put, The
  <2>2. CASE sockets[i].local_port = 0
    BY <1>6, <2>1, <2>2 DEF WithPort
  <2>3. CASE sockets[i].local_port # 0
    <3>1. [sockets EXCEPT ![i].local_port = port] = sockets
      <4>1. [sockets[i] EXCEPT !.local_port = port] = sockets[i]
        BY <1>1, <1>3, <2>3 DEF SocketType
      <4>2. sockets \in Seq(SocketType)
        BY DEF Inv, Array
      <4>. QED
        BY <4>1, <4>2
    <3>. QED
      BY <1>6, <2>1, <2>3, <3>1
  <2>. QED
    BY <2>2, <2>3
<1>9. tt \in Seq(SocketType) /\ tt[i] \in SocketType
  BY <1>7 DEF Array
<1>10. tt[i].send \in Seq(Nat) /\ tt[i].recv \in Seq(Nat)
  BY <1>9 DEF SocketType
<1>11. [tt[i] EXCEPT !.send = Append(@, x)] \in SocketType
  <2>1. Append(tt[i].send, x) \in Seq(Nat)
    BY <1>10
  <2>. QED
    BY <1>9, <2>1 DEF SocketType
<1>12. /\ sockets' \in Seq(SocketType) /\ DOMAIN sockets' = DOMAIN tt /\ Len(sockets') = Len(tt)
       /\ sockets'[i] = [tt[i] EXCEPT !.send = Append(@, x)]
       /\ \A k \in DOMAIN tt \ {i} : sockets'[k] = tt[k]
  <2>1. sockets' = [tt EXCEPT ![i] = [tt[i] EXCEPT !.send = Append(@, x)]]
    BY <1>8
  <2>. QED
    BY <1>7, <1>9, <1>11, <2>1
<1>13. /\ sockets'[i].id = tt[i].id /\ sockets'[i].ref_count = tt[i].ref_count
       /\ sockets'[i].local_port = tt[i].local_port
       /\ sockets'[i].send = Append(tt[i].send, x) /\ sockets'[i].recv = tt[i].recv
  BY <1>9, <1>12 DEF SocketType
<1>14. sockets'[i].do_remove = tt[i].do_remove
  BY <1>9, <1>12 DEF SocketType
<1>15. Array(sockets', held, bitmap', last_id)
  <2>1. \A k \in DOMAIN tt : SameButQueues(tt[k], sockets'[k])
    BY <1>12, <1>13, <1>14 DEF SameButQueues
  <2>. QED
    BY <1>7, <1>12, <2>1, QueuesChange
<1>16. Flow(sockets', InFlight, log', last_id)
  <2>1. ~tt[i].do_remove /\ tt[i].id = id
    BY <1>1, <1>7
  <2>. DEFINE a == log[id].accepted
              q == IF i = InFlight THEN Tail(tt[i].send) ELSE tt[i].send
  <2>2. /\ log[id].wire \o q = Upto(a)
        /\ log[id].read \o tt[i].recv = Upto(log[id].delivered)
    BY <1>7, <2>1 DEF Flow
  <2>3. q \in Seq(Nat)
        /\ (IF i = InFlight THEN Tail(sockets'[i].send) ELSE sockets'[i].send) = Append(q, x)
    <3>1. i = InFlight => tt[i].send # <<>>
      <4>1. sockets \in Seq(SocketType)
        BY DEF Inv, Array
      <4>2. i # 0
        BY <4>1
      <4>. QED
        BY <1>7, <4>2 DEF Inv, Sending, InFlight
    <3>2. CASE i = InFlight
      BY <1>10, <1>13, <3>1, <3>2, JoinQueue, SMTT(30)
    <3>3. CASE i # InFlight
      BY <1>10, <1>13, <3>3
    <3>. QED
      BY <3>2, <3>3
  <2>4. log[id].wire \o Append(q, x) = Upto(x)
    <3>1. log[id].wire \in Seq(Nat)
      BY <1>2 DEF LogType
    <3>2. log[id].wire \o Append(q, x) = Append(log[id].wire \o q, x)
      BY <2>3, <3>1, JoinQueue, ZenonT(40)
    <3>. QED
      BY <1>4, <2>2, <3>2, UptoNext
  <2>. HIDE DEF q
  <2>5. log'[id].wire \o (IF i = InFlight THEN Tail(sockets'[i].send) ELSE sockets'[i].send)
          = Upto(log'[id].accepted)
    BY <1>5, <2>3, <2>4
  <2>6. log'[id].read \o sockets'[i].recv = Upto(log'[id].delivered)
    BY <1>5, <1>13, <2>2
  <2>7. \A k \in DOMAIN tt : sockets'[k].id = tt[k].id /\ sockets'[k].do_remove = tt[k].do_remove
    BY <1>12, <1>13, <1>14
  <2>8. \A k \in DOMAIN tt \ {i} : /\ sockets'[k].send = tt[k].send /\ sockets'[k].recv = tt[k].recv
                                    /\ k = InFlight <=> k = InFlight
    BY <1>12
  <2>9. PICK uu, mg, f : uu = sockets' /\ mg = log' /\ f = InFlight
    OBVIOUS
  <2>10. /\ mg[tt[i].id].wire \o (IF i = f THEN Tail(uu[i].send) ELSE uu[i].send)
               = Upto(mg[tt[i].id].accepted)
         /\ mg[tt[i].id].read \o uu[i].recv = Upto(mg[tt[i].id].delivered)
    BY <2>1, <2>5, <2>6, <2>9
  <2>11. /\ DOMAIN uu = DOMAIN tt
         /\ \A k \in DOMAIN tt : SameSocket(tt[k], uu[k])
         /\ \A k \in DOMAIN tt \ {i} : /\ uu[k].send = tt[k].send /\ uu[k].recv = tt[k].recv
                                       /\ k = f <=> k = f
         /\ \A k \in Ids \ {tt[i].id} : mg[k] = log[k]
    BY <1>5, <1>12, <2>1, <2>7, <2>8, <2>9 DEF SameSocket
  <2>12. Flow(tt, f, log, last_id) /\ Array(tt, held, bitmap', last_id) /\ i \in DOMAIN tt
    BY <1>7, <2>9
  <2>13. Flow(uu, f, mg, last_id)
    BY <2>1, <2>10, <2>11, <2>12, FlowOne, ZenonT(40)
  <2>. QED
    BY <2>9, <2>13
<1>17. \A k \in DOMAIN sockets : sockets[k].send # <<>> => sockets'[k].send # <<>>
  <2>1. sockets'[i].send # <<>>
    BY <1>10, <1>13, JoinQueue
  <2>. QED
    BY <1>7, <1>12, <2>1
<1>. QED
  BY <1>5, <1>7, <1>12, <1>14, <1>15, <1>16, <1>17, ZenonT(40)

\* socket_udp_sendto keeps the invariant, also when it has slept.
LEMMA SendInv ==
    ASSUME Inv, NEW p \in Procs,
           SendWake(p) \/ \E id \in Ids : Send(p, id)
    PROVE  Inv'
<1>1. ASSUME NEW id \in held[p], Put(id),
             UNCHANGED <<last_id, held, inbox, sp, alive>>,
             call' = call \/ call' = [call EXCEPT ![p] = NoCall]
      PROVE  Inv'
  <2>1. \A q \in Procs : call'[q] = call[q] \/ call'[q] = NoCall
    BY <1>1 DEF Inv, Types
  <2>2. call' \in [Procs -> [op : {"none", "send", "recv"}, id : Ids \cup {0}]]
    BY <1>1 DEF Inv, Types, NoCall
  <2>3. /\ Array(sockets', held, bitmap', last_id)
        /\ Flow(sockets', InFlight, log', last_id)
        /\ DOMAIN sockets' = DOMAIN sockets
        /\ \A i \in DOMAIN sockets : sockets'[i].do_remove = sockets[i].do_remove
        /\ \A i \in DOMAIN sockets : sockets[i].send # <<>> => sockets'[i].send # <<>>
        /\ log' \in [Ids -> LogType]
    BY <1>1, PutKeeps
  <2>. QED
    BY <1>1, <2>1, <2>2, <2>3, InvOfArray
<1>2. CASE SendWake(p)
  <2>1. call[p].id \in held[p]
    BY <1>2 DEF SendWake, Inv, Calls
  <2>. QED
    BY <1>1, <1>2, <2>1 DEF SendWake
<1>3. ASSUME NEW id \in Ids, Send(p, id)
      PROVE  Inv'
  <2>1. CASE Len(The(id).send) = QueueMax
    <3>1. /\ call' = [call EXCEPT ![p] = [op |-> "send", id |-> id]]
          /\ id \in held[p] /\ p \in alive
          /\ UNCHANGED <<sockets, bitmap, log, last_id, held, inbox, sp, alive>>
      BY <1>3, <2>1 DEF Send, Free
    <3>2. /\ call' \in [Procs -> [op : {"none", "send", "recv"}, id : Ids \cup {0}]]
          /\ log' \in [Ids -> LogType]
      BY <3>1 DEF Inv, Types
    <3>3. \A q \in Procs : call'[q] = call[q] \/ (q \in alive /\ call'[q].id \in held[q]
                                                  /\ call'[q].op \in {"send", "recv"})
      BY <3>1 DEF Inv, Types
    <3>4. Array(sockets', held, bitmap', last_id) /\ Flow(sockets', InFlight, log', last_id)
      BY <3>1 DEF Inv
    <3>. QED
      BY <3>1, <3>2, <3>3, <3>4, InvOfArray
  <2>2. CASE Len(The(id).send) # QueueMax
    BY <1>1, <1>3, <2>2 DEF Send
  <2>. QED
    BY <2>1, <2>2
<1>. QED
  BY <1>2, <1>3

\* A packet is read and leaves the queue.
LEMMA TakeKeeps ==
    ASSUME Inv, NEW p \in Procs, NEW id \in held[p], The(id).recv # <<>>,
           NEW peek \in BOOLEAN, Take(id, peek)
    PROVE  /\ Array(sockets', held, bitmap, last_id)
           /\ Flow(sockets', InFlight, log', last_id)
           /\ DOMAIN sockets' = DOMAIN sockets
           /\ \A i \in DOMAIN sockets : sockets'[i].do_remove = sockets[i].do_remove
           /\ \A i \in DOMAIN sockets : sockets'[i].send = sockets[i].send
           /\ log' \in [Ids -> LogType]
<1>1. CASE peek
  BY <1>1 DEF Take, Inv, Types
<1>2. CASE ~peek
  <2>1. PICK i \in DOMAIN sockets :
           /\ i = IndexOf(id) /\ ~sockets[i].do_remove /\ sockets[i].id = id
           /\ sockets[i] \in SocketType
    BY Found
  <2>2. id \in Ids /\ log[id] \in LogType
    BY Found
  <2>3. sockets \in Seq(SocketType) /\ log \in [Ids -> LogType]
    BY DEF Inv, Array, Types
  <2>4. PICK q \in Seq(Nat), r \in Seq(Nat), x \in Nat :
           /\ q = sockets[i].recv /\ r = log[id].read /\ x = Head(q) /\ q # <<>>
           /\ Tail(q) \in Seq(Nat)
    <3>1. sockets[i].recv \in Seq(Nat) /\ log[id].read \in Seq(Nat)
      BY <2>1, <2>2 DEF SocketType, LogType
    <3>2. sockets[i].recv # <<>>
      BY <2>1 DEF The
    <3>. QED
      BY <3>1, <3>2, JoinQueue
  <2>5. /\ log' \in [Ids -> LogType]
        /\ \A k \in Ids \ {id} : log'[k] = log[k]
        /\ log'[id].read = Append(r, x) /\ log'[id].wire = log[id].wire
        /\ log'[id].delivered = log[id].delivered /\ log'[id].accepted = log[id].accepted
    <3>1. log' = [log EXCEPT ![id].read = Append(@, Head(The(id).recv))]
      BY <1>2 DEF Take
    <3>2. [log[id] EXCEPT !.read = Append(r, x)] \in LogType
      <4>1. Append(r, x) \in Seq(Nat)
        BY <2>4, JoinQueue
      <4>. QED
        BY <2>2, <4>1 DEF LogType
    <3>3. log' = [log EXCEPT ![id] = [log[id] EXCEPT !.read = Append(r, x)]]
      BY <2>1, <2>4, <3>1 DEF The
    <3>4. log'[id] = [log[id] EXCEPT !.read = Append(r, x)]
      BY <2>2, <2>3, <3>3
    <3>. QED
      BY <2>2, <2>3, <3>2, <3>3, <3>4 DEF LogType
  <2>6. /\ sockets' \in Seq(SocketType) /\ Len(sockets') = Len(sockets)
        /\ DOMAIN sockets' = DOMAIN sockets
        /\ sockets'[i] = [sockets[i] EXCEPT !.recv = Tail(q)]
        /\ \A k \in DOMAIN sockets \ {i} : sockets'[k] = sockets[k]
    <3>1. sockets' = [sockets EXCEPT ![i] = [sockets[i] EXCEPT !.recv = Tail(q)]]
      BY <1>2, <2>1, <2>4 DEF Take
    <3>2. [sockets[i] EXCEPT !.recv = Tail(q)] \in SocketType
      BY <2>1, <2>4 DEF SocketType
    <3>. QED
      BY <2>3, <3>1, <3>2
  <2>7. /\ sockets'[i].id = id /\ sockets'[i].ref_count = sockets[i].ref_count
        /\ sockets'[i].local_port = sockets[i].local_port
        /\ sockets'[i].send = sockets[i].send /\ sockets'[i].recv = Tail(q)
    BY <2>1, <2>6 DEF SocketType
  <2>8. sockets'[i].do_remove = sockets[i].do_remove
    BY <2>1, <2>6 DEF SocketType
  <2>9. Array(sockets', held, bitmap, last_id)
    <3>1. \A k \in DOMAIN sockets : SameButQueues(sockets[k], sockets'[k])
      BY <2>1, <2>6, <2>7, <2>8 DEF SameButQueues
    <3>. QED
      BY <2>6, <3>1, QueuesChange DEF Inv
  <2>10. PICK ss, uu, lg, mg, f :
            ss = sockets /\ uu = sockets' /\ lg = log /\ mg = log' /\ f = InFlight
    OBVIOUS
  <2>11. /\ mg[ss[i].id].wire \o (IF i = f THEN Tail(uu[i].send) ELSE uu[i].send)
               = Upto(mg[ss[i].id].accepted)
         /\ mg[ss[i].id].read \o uu[i].recv = Upto(mg[ss[i].id].delivered)
    <3>1. /\ log[id].wire \o (IF i = f THEN Tail(sockets[i].send) ELSE sockets[i].send)
                = Upto(log[id].accepted)
          /\ r \o q = Upto(log[id].delivered)
      BY <2>1, <2>4, <2>10 DEF Inv, Flow
    <3>2. Append(r, x) \o Tail(q) = r \o q
      BY <2>4, LeaveQueue
    <3>. QED
      BY <2>1, <2>5, <2>7, <2>10, <3>1, <3>2
  <2>12. /\ DOMAIN uu = DOMAIN ss
         /\ \A k \in DOMAIN ss : SameSocket(ss[k], uu[k])
         /\ \A k \in DOMAIN ss \ {i} : /\ uu[k].send = ss[k].send /\ uu[k].recv = ss[k].recv
                                       /\ k = f <=> k = f
         /\ \A k \in Ids \ {ss[i].id} : mg[k] = lg[k]
    BY <2>1, <2>5, <2>6, <2>7, <2>8, <2>10, ZenonT(40) DEF SameSocket
  <2>13. /\ Flow(ss, f, lg, last_id) /\ Array(ss, held, bitmap, last_id)
         /\ i \in DOMAIN ss /\ ~ss[i].do_remove
    BY <2>1, <2>10 DEF Inv
  <2>14. Flow(uu, f, mg, last_id)
    BY <2>11, <2>12, <2>13, FlowOne, ZenonT(40)
  <2>15. \A k \in DOMAIN sockets : sockets'[k].do_remove = sockets[k].do_remove
                                     /\ sockets'[k].send = sockets[k].send
    BY <2>6, <2>7, <2>8
  <2>. QED
    BY <2>5, <2>6, <2>9, <2>10, <2>14, <2>15
<1>. QED
  BY <1>1, <1>2

\* socket_udp_recvfrom keeps the invariant, also when it has slept.
LEMMA RecvInv ==
    ASSUME Inv, NEW p \in Procs,
           RecvWake(p) \/ \E id \in Ids : Recv(p, id)
    PROVE  Inv'
<1>1. ASSUME NEW id \in held[p], The(id).recv # <<>>, NEW peek \in BOOLEAN, Take(id, peek),
             UNCHANGED <<last_id, bitmap, held, inbox, sp, alive>>,
             call' = call \/ call' = [call EXCEPT ![p] = NoCall]
      PROVE  Inv'
  <2>. DEFINE D == [op : {"none", "send", "recv"}, id : Ids \cup {0}]
  <2>1. /\ \A q \in Procs : call'[q] = call[q] \/ call'[q] = NoCall
        /\ call' \in [Procs -> D]
    <3>1. NoCall \in D
      BY DEF NoCall
    <3>2. call \in [Procs -> D]
      BY DEF Inv, Types
    <3>3. call' = call \/ call' = [call EXCEPT ![p] = NoCall]
      BY <1>1
    <3>. HIDE DEF D
    <3>. QED
      BY <3>1, <3>2, <3>3
  <2>2. call' \in [Procs -> [op : {"none", "send", "recv"}, id : Ids \cup {0}]]
    BY <2>1
  <2>3. /\ Array(sockets', held, bitmap, last_id)
        /\ Flow(sockets', InFlight, log', last_id)
        /\ DOMAIN sockets' = DOMAIN sockets
        /\ \A i \in DOMAIN sockets : sockets'[i].do_remove = sockets[i].do_remove
        /\ \A i \in DOMAIN sockets : sockets'[i].send = sockets[i].send
        /\ log' \in [Ids -> LogType]
    BY <1>1, TakeKeeps
  <2>4. Array(sockets', held, bitmap', last_id)
    BY <1>1, <2>3
  <2>. QED
    BY <1>1, <2>1, <2>2, <2>3, <2>4, InvOfArray
<1>2. CASE RecvWake(p)
  <2>1. call[p].id \in held[p]
    BY <1>2 DEF RecvWake, Inv, Calls
  <2>. QED
    BY <1>1, <1>2, <2>1 DEF RecvWake
<1>3. ASSUME NEW id \in Ids, Recv(p, id)
      PROVE  Inv'
  <2>1. CASE The(id).recv = <<>>
    <3>1. /\ call' = [call EXCEPT ![p] = [op |-> "recv", id |-> id]]
          /\ id \in held[p] /\ p \in alive
          /\ UNCHANGED <<sockets, bitmap, log, last_id, held, inbox, sp, alive>>
      BY <1>3, <2>1 DEF Recv, Free
    <3>2. /\ call' \in [Procs -> [op : {"none", "send", "recv"}, id : Ids \cup {0}]]
          /\ log' \in [Ids -> LogType]
      BY <3>1 DEF Inv, Types
    <3>3. \A q \in Procs : call'[q] = call[q] \/ (q \in alive /\ call'[q].id \in held[q]
                                                  /\ call'[q].op \in {"send", "recv"})
      BY <3>1 DEF Inv, Types
    <3>4. Array(sockets', held, bitmap', last_id) /\ Flow(sockets', InFlight, log', last_id)
      BY <3>1 DEF Inv
    <3>. QED
      BY <3>1, <3>2, <3>3, <3>4, InvOfArray
  <2>2. CASE The(id).recv # <<>>
    BY <1>1, <1>3, <2>2 DEF Recv
  <2>. QED
    BY <2>1, <2>2
<1>. QED
  BY <1>2, <1>3

\* Descriptors come or go, and the counts of their sockets with them.
LEMMA ReferencedKeeps ==
    ASSUME Inv, NEW ids, NEW n \in Int, NEW g, NEW tt, tt = Referenced(ids, n),
           \A p \in Procs : \A id \in g[p] : \E q \in Procs : id \in held[q],
           \A id \in Ids : Count(g, id) = Count(held, id) + (IF id \in ids THEN n ELSE 0)
    PROVE  /\ Array(tt, g, bitmap, last_id)
           /\ Flow(tt, InFlight, log, last_id)
           /\ DOMAIN tt = DOMAIN sockets
           /\ \A i \in DOMAIN sockets : tt[i].do_remove = sockets[i].do_remove
           /\ \A i \in DOMAIN sockets : tt[i].send = sockets[i].send
<1>1. sockets \in Seq(SocketType) /\ Array(sockets, held, bitmap, last_id)
  BY DEF Inv, Array
<1>2. \A i \in DOMAIN sockets : sockets[i] \in SocketType
  BY <1>1
<1>3. DOMAIN tt = DOMAIN sockets
  BY DEF Referenced
<1>4. ASSUME NEW i \in DOMAIN sockets
      PROVE  /\ tt[i] \in SocketType
             /\ tt[i].ref_count = sockets[i].ref_count + (IF sockets[i].id \in ids THEN n ELSE 0)
             /\ tt[i].id = sockets[i].id /\ tt[i].local_port = sockets[i].local_port
             /\ tt[i].send = sockets[i].send /\ tt[i].recv = sockets[i].recv
             /\ tt[i].do_remove = sockets[i].do_remove
             /\ sockets[i].id \in Ids
  <2>1. PICK s \in SocketType, c \in Int : s = sockets[i] /\ c = sockets[i].ref_count + n
                                          /\ s.ref_count \in Int
    BY <1>2 DEF SocketType
  <2>2. tt[i] = IF s.id \in ids THEN [s EXCEPT !.ref_count = c] ELSE s
    BY <2>1 DEF Referenced
  <2>3. [s EXCEPT !.ref_count = c] \in SocketType
    BY <2>1 DEF SocketType
  <2>4. tt[i].do_remove = s.do_remove
    BY <2>2 DEF SocketType
  <2>5. s.id \in Ids
    BY DEF SocketType
  <2>6. /\ tt[i].id = s.id /\ tt[i].local_port = s.local_port
        /\ tt[i].send = s.send /\ tt[i].recv = s.recv
        /\ tt[i].ref_count = IF s.id \in ids THEN c ELSE s.ref_count
    BY <2>2 DEF SocketType
  <2>7. tt[i] \in SocketType
    BY <2>2, <2>3
  <2>. QED
    BY <2>1, <2>4, <2>5, <2>6, <2>7
<1>5. tt \in Seq(SocketType) /\ Len(tt) = Len(sockets)
  <2>1. tt = [i \in 1 .. Len(sockets) |-> tt[i]] /\ Len(sockets) \in Nat
    BY <1>1 DEF Referenced
  <2>2. \A i \in 1 .. Len(sockets) : tt[i] \in SocketType
    BY <1>1, <1>4
  <2>. QED
    BY <2>1, <2>2
<1>6. ASSUME NEW i \in DOMAIN sockets
      PROVE  /\ ~sockets[i].do_remove => tt[i].ref_count = Count(g, sockets[i].id)
             /\ sockets[i].do_remove => Count(g, sockets[i].id) = 0
  <2>1. ~sockets[i].do_remove => sockets[i].ref_count = Count(held, sockets[i].id)
    BY <1>1 DEF Array
  <2>2. ~sockets[i].do_remove => tt[i].ref_count = Count(g, sockets[i].id)
    BY <1>4, <2>1
  <2>3. ASSUME sockets[i].do_remove PROVE Count(g, sockets[i].id) = 0
    <3>1. Count(held, sockets[i].id) = 0
      BY <1>1, <2>3 DEF Array
    <3>2. \A p \in Procs : sockets[i].id \notin held[p]
      BY <3>1, CountType
    <3>3. \A p \in Procs : sockets[i].id \notin g[p]
      BY <3>2
    <3>. QED
      BY <3>3, CountType
  <2>. QED
    BY <2>2, <2>3
<1>7. Array(tt, g, bitmap, last_id)
  BY <1>1, <1>4, <1>5, <1>6, Recounted
<1>8. Flow(tt, InFlight, log, last_id)
  BY <1>3, <1>4, FlowKept DEF Inv
<1>. QED
  BY <1>3, <1>4, <1>7, <1>8

\* A table of descriptors in which only q's differ: what is counted.
LEMMA CountChange ==
    ASSUME NEW h, NEW g, NEW q \in Procs, NEW id,
           \A p \in Procs \ {q} : g[p] = h[p]
    PROVE  /\ id \in g[q] /\ id \notin h[q] => Count(g, id) = Count(h, id) + 1
           /\ id \notin g[q] /\ id \in h[q] => Count(g, id) = Count(h, id) + (-1)
           /\ (id \in g[q] <=> id \in h[q]) => Count(g, id) = Count(h, id)
<1>1. Count(g, id) \in Nat /\ Count(h, id) \in Nat
  BY CountType
<1>2. ASSUME id \in g[q], id \notin h[q]
      PROVE  Count(g, id) = Count(h, id) + 1
  BY <1>2, CountMore
<1>3. ASSUME id \notin g[q], id \in h[q]
      PROVE  Count(g, id) = Count(h, id) + (-1)
  <2>1. Count(h, id) = Count(g, id) + 1
    BY <1>3, CountMore
  <2>. QED
    BY <1>1, <2>1
<1>4. ASSUME id \in g[q] <=> id \in h[q]
      PROVE  Count(g, id) = Count(h, id)
  BY <1>4, CountSame
<1>. QED
  BY <1>2, <1>3, <1>4

\* The counts of sockets follow the table of descriptors.
ReferencesFollow(ids, n) ==
    /\ sockets' = Referenced(ids, n)
    /\ \A id \in Ids : Count(held', id) = Count(held, id) + (IF id \in ids THEN n ELSE 0)

\* The step of a process that opens or closes descriptors.
LEMMA InvOfHeld ==
    ASSUME Inv, UNCHANGED <<last_id, bitmap, inbox, sp, log>>,
           NEW ids, NEW n \in Int, ReferencesFollow(ids, n),
           held' \in [Procs -> SUBSET Ids],
           call' \in [Procs -> [op : {"none", "send", "recv"}, id : Ids \cup {0}]],
           \A p \in Procs : \A id \in held'[p] : \E q \in Procs : id \in held[q],
           Calls'
    PROVE  Inv'
<1>1. PICK tt, g : tt = sockets' /\ g = held'
  OBVIOUS
<1>2. /\ Array(tt, g, bitmap, last_id)
      /\ Flow(tt, InFlight, log, last_id)
      /\ DOMAIN tt = DOMAIN sockets
      /\ \A i \in DOMAIN sockets : tt[i].do_remove = sockets[i].do_remove
      /\ \A i \in DOMAIN sockets : tt[i].send = sockets[i].send
  BY <1>1, ReferencedKeeps DEF ReferencesFollow
<1>3. Types'
  BY DEF Inv, Types
<1>4. InFlight' = InFlight
  BY DEF InFlight
<1>5. Array(sockets, held, bitmap, last_id)' /\ Flow(sockets, InFlight, log, last_id)'
  BY <1>1, <1>2, <1>4
<1>6. Sending'
  BY <1>1, <1>2 DEF Inv, Sending
<1>. QED
  BY <1>3, <1>5, <1>6 DEF Inv

\* socket_close_id keeps the invariant.
LEMMA CloseInv ==
    ASSUME Inv, NEW p \in Procs, NEW id \in Ids, Close(p, id)
    PROVE  Inv'
<1>1. /\ id \in held[p] /\ p \in alive /\ call[p].op = "none"
      /\ held' = [held EXCEPT ![p] = @ \ {id}]
      /\ sockets' = Referenced({id}, -1)
      /\ UNCHANGED <<last_id, bitmap, call, inbox, sp, alive, log>>
  BY DEF Close, Free, NoCall
<1>2. /\ held \in [Procs -> SUBSET Ids]
      /\ call \in [Procs -> [op : {"none", "send", "recv"}, id : Ids \cup {0}]]
  BY DEF Inv, Types
<1>3. /\ held' \in [Procs -> SUBSET Ids]
      /\ held'[p] = held[p] \ {id}
      /\ \A q \in Procs \ {p} : held'[q] = held[q]
  BY <1>1, <1>2
<1>4. \A q \in Procs : \A i \in held'[q] : \E o \in Procs : i \in held[o]
  BY <1>3
<1>5. \A i \in Ids : Count(held', i) = Count(held, i) + (IF i \in {id} THEN -1 ELSE 0)
  <2>1. PICK g : g = held'
    OBVIOUS
  <2>. SUFFICES ASSUME NEW i \in Ids
                PROVE  Count(g, i) = Count(held, i) + (IF i \in {id} THEN -1 ELSE 0)
    BY <2>1
  <2>2. g[p] = held[p] \ {id} /\ \A q \in Procs \ {p} : g[q] = held[q]
    BY <1>3, <2>1
  <2>3. Count(held, i) \in Nat
    BY CountType
  <2>4. CASE i = id
    <3>1. i \notin g[p] /\ i \in held[p]
      BY <1>1, <2>2, <2>4
    <3>2. \A o \in Procs \ {p} : g[o] = held[o]
      BY <2>2
    <3>3. Count(g, i) = Count(held, i) + (-1)
      BY <3>1, <3>2, CountChange
    <3>. QED
      BY <2>4, <3>3
  <2>5. CASE i # id
    <3>1. i \in g[p] <=> i \in held[p]
      BY <2>2, <2>5
    <3>2. Count(g, i) = Count(held, i)
      BY <2>2, <3>1, CountChange
    <3>. QED
      BY <2>3, <2>5, <3>2
  <2>. QED
    BY <2>4, <2>5
<1>6. Calls'
  BY <1>1, <1>3 DEF Inv, Calls
<1>7. call' \in [Procs -> [op : {"none", "send", "recv"}, id : Ids \cup {0}]]
  BY <1>1, <1>2
<1>8. ReferencesFollow({id}, -1)
  <2>1. sockets' = Referenced({id}, -1)
    BY <1>1
  <2>. QED
    BY <1>5, <2>1, Zenon DEF ReferencesFollow
<1>10. (-1) \in Int
  OBVIOUS
<1>9. UNCHANGED <<last_id, bitmap, inbox, sp, log>>
  BY <1>1
<1>. QED
  BY <1>3, <1>4, <1>6, <1>7, <1>8, <1>9, <1>10, InvOfHeld

\* fork, with fm_declare_child, keeps the invariant.
LEMMA ForkInv ==
    ASSUME Inv, NEW p \in Procs, NEW q \in Procs, Fork(p, q)
    PROVE  Inv'
<1>1. /\ q \notin alive /\ p \in alive /\ alive' = alive \cup {q}
      /\ held' = [held EXCEPT ![q] = held[p]]
      /\ sockets' = Referenced(held[p], 1)
      /\ UNCHANGED <<last_id, bitmap, call, inbox, sp, log>>
  BY DEF Fork, Free
<1>2. /\ held \in [Procs -> SUBSET Ids]
      /\ call \in [Procs -> [op : {"none", "send", "recv"}, id : Ids \cup {0}]]
      /\ held[q] = {} /\ call[q].op = "none"
  BY <1>1 DEF Inv, Types, Calls, NoCall
<1>3. /\ held' \in [Procs -> SUBSET Ids]
      /\ held'[q] = held[p]
      /\ \A o \in Procs \ {q} : held'[o] = held[o]
  BY <1>1, <1>2
<1>4. \A o \in Procs : \A i \in held'[o] : \E m \in Procs : i \in held[m]
  BY <1>3
<1>5. \A i \in Ids : Count(held', i) = Count(held, i) + (IF i \in held[p] THEN 1 ELSE 0)
  <2>1. PICK g : g = held'
    OBVIOUS
  <2>. SUFFICES ASSUME NEW i \in Ids
                PROVE  Count(g, i) = Count(held, i) + (IF i \in held[p] THEN 1 ELSE 0)
    BY <2>1
  <2>2. g[q] = held[p] /\ \A o \in Procs \ {q} : g[o] = held[o]
    BY <1>3, <2>1
  <2>3. Count(held, i) \in Nat
    BY CountType
  <2>4. CASE i \in held[p]
    <3>1. i \in g[q] /\ i \notin held[q]
      BY <1>2, <2>2, <2>4
    <3>. QED
      BY <2>2, <2>4, <3>1, CountChange
  <2>5. CASE i \notin held[p]
    <3>1. i \in g[q] <=> i \in held[q]
      BY <1>2, <2>2, <2>5
    <3>2. Count(g, i) = Count(held, i)
      BY <2>2, <3>1, CountChange
    <3>. QED
      BY <2>3, <2>5, <3>2
  <2>. QED
    BY <2>4, <2>5
<1>6. Calls'
  BY <1>1, <1>2, <1>3 DEF Inv, Calls
<1>7. call' \in [Procs -> [op : {"none", "send", "recv"}, id : Ids \cup {0}]]
  BY <1>1, <1>2
<1>8. ReferencesFollow(held[p], 1)
  <2>1. sockets' = Referenced(held[p], 1)
    BY <1>1
  <2>. QED
    BY <1>5, <2>1, Zenon DEF ReferencesFollow
<1>10. 1 \in Int
  OBVIOUS
<1>9. UNCHANGED <<last_id, bitmap, inbox, sp, log>>
  BY <1>1
<1>. QED
  BY <1>3, <1>4, <1>6, <1>7, <1>8, <1>9, <1>10, InvOfHeld

\* The death of a process, wherever it sleeps, keeps the invariant.
LEMMA DieInv ==
    ASSUME Inv, NEW p \in Procs, Die(p)
    PROVE  Inv'
<1>1. /\ alive' = alive \ {p}
      /\ held' = [held EXCEPT ![p] = {}]
      /\ sockets' = Referenced(held[p], -1)
      /\ call' = [call EXCEPT ![p] = NoCall]
      /\ UNCHANGED <<last_id, bitmap, inbox, sp, log>>
  BY DEF Die
<1>2. /\ held \in [Procs -> SUBSET Ids]
      /\ call \in [Procs -> [op : {"none", "send", "recv"}, id : Ids \cup {0}]]
  BY DEF Inv, Types
<1>3. /\ held' \in [Procs -> SUBSET Ids]
      /\ held'[p] = {}
      /\ \A o \in Procs \ {p} : held'[o] = held[o]
  BY <1>1, <1>2
<1>4. \A o \in Procs : \A i \in held'[o] : \E m \in Procs : i \in held[m]
  BY <1>3
<1>5. \A i \in Ids : Count(held', i) = Count(held, i) + (IF i \in held[p] THEN -1 ELSE 0)
  <2>1. PICK g : g = held'
    OBVIOUS
  <2>. SUFFICES ASSUME NEW i \in Ids
                PROVE  Count(g, i) = Count(held, i) + (IF i \in held[p] THEN -1 ELSE 0)
    BY <2>1
  <2>2. g[p] = {} /\ \A o \in Procs \ {p} : g[o] = held[o]
    BY <1>3, <2>1
  <2>3. Count(held, i) \in Nat
    BY CountType
  <2>4. CASE i \in held[p]
    <3>1. i \notin g[p] /\ i \in held[p]
      BY <2>2, <2>4
    <3>2. \A o \in Procs \ {p} : g[o] = held[o]
      BY <2>2
    <3>3. Count(g, i) = Count(held, i) + (-1)
      BY <3>1, <3>2, CountChange
    <3>. QED
      BY <2>4, <3>3
  <2>5. CASE i \notin held[p]
    <3>1. i \in g[p] <=> i \in held[p]
      BY <2>2, <2>5
    <3>2. Count(g, i) = Count(held, i)
      BY <2>2, <3>1, CountChange
    <3>. QED
      BY <2>3, <2>5, <3>2
  <2>. QED
    BY <2>4, <2>5
<1>6. /\ \A o \in Procs \ {p} : call'[o] = call[o]
      /\ call'[p] = NoCall
      /\ call' \in [Procs -> [op : {"none", "send", "recv"}, id : Ids \cup {0}]]
  <2>. DEFINE D == [op : {"none", "send", "recv"}, id : Ids \cup {0}]
  <2>1. NoCall \in D /\ call \in [Procs -> D]
    BY <1>2 DEF NoCall
  <2>2. call' = [call EXCEPT ![p] = NoCall]
    BY <1>1
  <2>. HIDE DEF D
  <2>3. /\ \A o \in Procs \ {p} : call'[o] = call[o]
        /\ call'[p] = NoCall
        /\ call' \in [Procs -> D]
    BY <2>1, <2>2
  <2>. QED
    BY <2>3 DEF D
<1>7. Calls'
  <2>1. ASSUME NEW o \in Procs
        PROVE  /\ call'[o].op # "none" => call'[o].id \in held'[o]
               /\ o \notin alive' => held'[o] = {} /\ call'[o] = NoCall
    <3>1. CASE o = p
      BY <1>3, <1>6, <3>1 DEF NoCall
    <3>2. CASE o # p
      BY <1>1, <1>3, <1>6, <3>2 DEF Inv, Calls
    <3>. QED
      BY <3>1, <3>2
  <2>. QED
    BY <2>1 DEF Calls
<1>8. ReferencesFollow(held[p], -1)
  <2>1. sockets' = Referenced(held[p], -1)
    BY <1>1
  <2>. QED
    BY <1>5, <2>1, Zenon DEF ReferencesFollow
<1>10. (-1) \in Int
  OBVIOUS
<1>9. UNCHANGED <<last_id, bitmap, inbox, sp, log>>
  BY <1>1
<1>. QED
  BY <1>3, <1>4, <1>6, <1>7, <1>8, <1>9, <1>10, InvOfHeld

\* The destinations of packets are numbers.
LEMMA PacketPortType == PacketPorts \subseteq Nat
<1>1. Base * Base \in Int
  BY SizeAssumption
<1>2. Ports \subseteq Nat
  BY <1>1 DEF Ports
<1>3. htons(CLT_PORT_START) \in Nat
  <2>1. CLT_PORT_START \in Ports
    <3>. DEFINE l == Base * Base
    <3>1. l \in Int /\ CLT_PORT_START \in 1 .. l - 2
      BY SizeAssumption
    <3>. HIDE DEF l
    <3>2. CLT_PORT_START \in 1 .. l - 1
      BY <3>1
    <3>. QED
      BY <3>2 DEF Ports, l
  <2>2. htons(CLT_PORT_START) \in Ports \cup {0}
    BY <2>1, PortKept
  <2>3. \A x \in Ports \cup {0} : x \in Nat
    BY <1>2
  <2>. QED
    BY <2>2, <2>3
<1>. QED
  BY <1>2, <1>3, AskedAssumption DEF PacketPorts

\* eth_recv_packet keeps the invariant.
LEMMA ArriveInv ==
    ASSUME Inv, NEW port \in PacketPorts \cup {0}, Arrive(port)
    PROVE  Inv'
<1>1. inbox' = Append(inbox, port)
      /\ UNCHANGED <<sockets, last_id, bitmap, held, call, sp, alive, log>>
  BY DEF Arrive
<1>2. port \in Nat
  BY PacketPortType
<1>3. Types'
  BY <1>1, <1>2 DEF Inv, Types
<1>4. InFlight' = InFlight
  BY <1>1 DEF InFlight
<1>5. Array(sockets, held, bitmap, last_id)' /\ Flow(sockets, InFlight, log, last_id)'
  BY <1>1, <1>4 DEF Inv
<1>6. Sending' /\ Calls'
  BY <1>1 DEF Inv, Sending, Calls
<1>. QED
  BY <1>3, <1>5, <1>6 DEF Inv

\* A new socket at the end of the array, with one descriptor.
LEMMA Opened ==
    ASSUME NEW ss, NEW tt, NEW h, NEW g, NEW b, NEW n \in Ids, Array(ss, h, b, n),
           NEW p \in Procs, g[p] = h[p] \cup {n}, \A q \in Procs \ {p} : g[q] = h[q],
           tt = Append(ss, NewSocket(n))
    PROVE  Array(tt, g, b, n + 1)
<1>1. ss \in Seq(SocketType) /\ n \in Nat
  BY DEF Array
<1>2. NewSocket(n) \in SocketType
  BY DEF NewSocket, SocketType
<1>. DEFINE l == Len(ss) + 1
<1>3. /\ tt \in Seq(SocketType) /\ DOMAIN tt = DOMAIN ss \cup {l} /\ l \notin DOMAIN ss
      /\ \A i \in DOMAIN ss : tt[i] = ss[i]
      /\ tt[l] = NewSocket(n)
  BY <1>1, <1>2
<1>4. /\ tt[l].id = n /\ tt[l].ref_count = 1 /\ tt[l].do_remove = FALSE /\ tt[l].local_port = 0
  BY <1>3 DEF NewSocket
<1>. HIDE DEF l
<1>5. \A i \in DOMAIN ss : ss[i] \in SocketType /\ ss[i].id \in Nat /\ ss[i].id < n
  <2>1. \A i \in DOMAIN ss : ss[i] \in SocketType /\ ss[i].id < n
    BY <1>1 DEF Array
  <2>2. \A i \in DOMAIN ss : ss[i].id \in Ids
    BY <2>1 DEF SocketType
  <2>. QED
    BY <2>1, <2>2, SizeAssumption DEF Ids
<1>6. \A q \in Procs : n \notin h[q]
  <2>1. \A q \in Procs : \A id \in h[q] : \E i \in DOMAIN ss : ss[i].id = id
    BY DEF Array
  <2>. QED
    BY <1>1, <1>5, <2>1
<1>7. /\ g[p] = h[p] \cup {n}
      /\ \A q \in Procs \ {p} : g[q] = h[q]
  OBVIOUS
<1>8. Count(g, n) = 1
  <2>1. Count(h, n) = 0
    BY <1>6, CountType
  <2>2. Count(g, n) = Count(h, n) + 1
    <3>1. n \notin h[p] /\ n \in g[p] /\ \A q \in Procs \ {p} : n \in h[q] <=> n \in g[q]
      BY <1>6, <1>7
    <3>. QED
      BY <3>1, CountMore, Zenon
  <2>. QED
    BY <2>1, <2>2
<1>9. \A i \in DOMAIN ss : Count(g, ss[i].id) = Count(h, ss[i].id)
  <2>. SUFFICES ASSUME NEW i \in DOMAIN ss
                PROVE  Count(g, ss[i].id) = Count(h, ss[i].id)
    OBVIOUS
  <2>1. PICK x \in Nat : x = ss[i].id /\ x # n
    BY <1>1, <1>5
  <2>2. \A q \in Procs : x \in h[q] <=> x \in g[q]
    BY <1>7, <2>1
  <2>3. Count(g, x) = Count(h, x)
    BY <2>2, CountSame, Zenon
  <2>. QED
    BY <2>1, <2>3
<1>10. Locked(tt) = Locked(ss)
  <2>1. {k \in DOMAIN tt : tt[k].local_port # 0} = {k \in DOMAIN ss : ss[k].local_port # 0}
    BY <1>3, <1>4
  <2>. QED
    BY <1>3, <2>1 DEF Locked
<1>11. \A i, j \in DOMAIN tt : tt[i].id = tt[j].id => i = j
  <2>1. \A i \in DOMAIN ss : tt[i].id # n
    BY <1>1, <1>3, <1>5
  <2>. QED
    BY <1>3, <1>4, <2>1 DEF Array
<1>12. \A i \in DOMAIN tt :
          /\ tt[i].id < n + 1
          /\ ~tt[i].do_remove => tt[i].ref_count = Count(g, tt[i].id)
          /\ tt[i].do_remove => tt[i].local_port = 0 /\ Count(g, tt[i].id) = 0
          /\ tt[i].local_port \in Ports \cup {0}
  <2>. SUFFICES ASSUME NEW i \in DOMAIN tt
                PROVE  /\ tt[i].id < n + 1
                       /\ ~tt[i].do_remove => tt[i].ref_count = Count(g, tt[i].id)
                       /\ tt[i].do_remove => tt[i].local_port = 0 /\ Count(g, tt[i].id) = 0
                       /\ tt[i].local_port \in Ports \cup {0}
    OBVIOUS
  <2>1. CASE i = l
    BY <1>1, <1>4, <1>8, <2>1
  <2>2. CASE i \in DOMAIN ss
    <3>1. tt[i] = ss[i] /\ Count(g, ss[i].id) = Count(h, ss[i].id)
      BY <1>3, <1>9, <2>2
    <3>2. ss[i].id < n + 1
      BY <1>1, <1>5, <2>2
    <3>3. /\ ~ss[i].do_remove => ss[i].ref_count = Count(h, ss[i].id)
          /\ ss[i].do_remove => ss[i].local_port = 0 /\ Count(h, ss[i].id) = 0
          /\ ss[i].local_port \in Ports \cup {0}
      BY <2>2 DEF Array
    <3>. QED
      BY <3>1, <3>2, <3>3
  <2>. QED
    BY <1>3, <2>1, <2>2
<1>13. \A i, j \in DOMAIN tt : tt[i].local_port = tt[j].local_port => i = j \/ tt[i].local_port = 0
  BY <1>3, <1>4 DEF Array
<1>14. \A q \in Procs : \A id \in g[q] : \E i \in DOMAIN tt : tt[i].id = id
  <2>1. \A q \in Procs : \A id \in g[q] : id = n \/ id \in h[q]
    BY <1>7
  <2>. QED
    BY <1>3, <1>4, <2>1 DEF Array
<1>15. b = Locked(tt) /\ n + 1 \in Nat
  BY <1>1, <1>10 DEF Array
<1>. QED
  BY <1>3, <1>11, <1>12, <1>13, <1>14, <1>15 DEF Array

\* Nothing has gone through the new socket yet.
LEMMA OpenedFlow ==
    ASSUME NEW ss, NEW tt, NEW at, NEW lg, NEW h, NEW b, NEW n \in Ids, Array(ss, h, b, n),
           Flow(ss, at, lg, n), at \in DOMAIN ss \cup {0}, tt = Append(ss, NewSocket(n))
    PROVE  Flow(tt, at, lg, n + 1)
<1>1. ss \in Seq(SocketType) /\ n \in Nat
  BY DEF Array
<1>. DEFINE l == Len(ss) + 1
<1>2. /\ DOMAIN tt = DOMAIN ss \cup {l} /\ l # at
      /\ \A i \in DOMAIN ss : tt[i] = ss[i]
      /\ tt[l] = NewSocket(n)
  BY <1>1
<1>3. /\ tt[l].id = n /\ tt[l].do_remove = FALSE /\ tt[l].send = <<>> /\ tt[l].recv = <<>>
  BY <1>2 DEF NewSocket
<1>. HIDE DEF l
<1>4. lg[n] = NoLog
  BY <1>1 DEF Flow
<1>5. /\ lg[n].wire \o tt[l].send = Upto(lg[n].accepted)
      /\ lg[n].read \o tt[l].recv = Upto(lg[n].delivered)
  <2>1. <<>> \o <<>> = Upto(0)
    BY DEF Upto
  <2>2. lg[n].wire = <<>> /\ lg[n].accepted = 0 /\ lg[n].read = <<>> /\ lg[n].delivered = 0
    BY <1>4 DEF NoLog
  <2>. QED
    BY <1>3, <2>1, <2>2
<1>6. \A i \in DOMAIN tt : ~tt[i].do_remove =>
          /\ lg[tt[i].id].wire \o (IF i = at THEN Tail(tt[i].send) ELSE tt[i].send)
                = Upto(lg[tt[i].id].accepted)
          /\ lg[tt[i].id].read \o tt[i].recv = Upto(lg[tt[i].id].delivered)
  BY <1>2, <1>3, <1>5 DEF Flow
<1>7. \A id \in Ids : (\A i \in DOMAIN tt : tt[i].id = id => tt[i].do_remove)
                          => lg[id].wire = Upto(lg[id].accepted)
  BY <1>2 DEF Flow
<1>8. \A id \in Ids : id >= n + 1 => lg[id] = NoLog
  <2>1. \A id \in Ids : id >= n + 1 => id >= n
    BY <1>1, SizeAssumption DEF Ids
  <2>. QED
    BY <2>1 DEF Flow
<1>. QED
  BY <1>6, <1>7, <1>8 DEF Flow

\* socket_socket keeps the invariant.
LEMMA OpenInv ==
    ASSUME Inv, NEW p \in Procs, Open(p)
    PROVE  Inv'
<1>1. /\ p \in alive /\ last_id < MaxSockets
      /\ sockets' = Append(sockets, NewSocket(last_id))
      /\ last_id' = last_id + 1
      /\ held' = [held EXCEPT ![p] = @ \cup {last_id}]
      /\ sp' = Woken(sp)
      /\ UNCHANGED <<bitmap, call, inbox, alive, log>>
  BY DEF Open, Free
<1>2. last_id \in Ids /\ last_id \in Nat
  BY <1>1, SizeAssumption DEF Inv, Types, Ids
<1>3. held \in [Procs -> SUBSET Ids] /\ Types
  BY DEF Inv, Types
<1>4. sockets \in Seq(SocketType)
  BY DEF Inv, Array
<1>5. /\ sp' \in [pc : {"timed", "forever", "woken", "running", "sending"}, at : Nat, packet : Int]
      /\ sp'.pc = "sending" <=> sp.pc = "sending"
      /\ sp'.at = sp.at
  BY <1>1, <1>3 DEF Types, Woken
<1>6. Types'
  BY <1>1, <1>2, <1>3, <1>5 DEF Types
<1>7. InFlight' = InFlight /\ InFlight \in DOMAIN sockets \cup {0}
  BY <1>5 DEF InFlight, Inv, Sending
<1>8. Array(sockets', held', bitmap', last_id')
  <2>1. PICK tt, g : tt = sockets' /\ g = held'
    OBVIOUS
  <2>2. g[p] = held[p] \cup {last_id} /\ \A q \in Procs \ {p} : g[q] = held[q]
    BY <1>1, <1>3, <2>1
  <2>3. tt = Append(sockets, NewSocket(last_id))
    BY <1>1, <2>1
  <2>4. Array(tt, g, bitmap, last_id + 1)
    BY <1>2, <2>2, <2>3, Opened DEF Inv
  <2>. QED
    BY <1>1, <2>1, <2>4
<1>9. Flow(sockets', InFlight', log', last_id')
  <2>1. PICK tt, f : tt = sockets' /\ f = InFlight
    OBVIOUS
  <2>2. Flow(tt, f, log, last_id + 1)
    BY <1>1, <1>2, <1>7, <2>1, OpenedFlow DEF Inv
  <2>. QED
    BY <1>1, <1>7, <2>1, <2>2
<1>10. Sending'
  <2>1. /\ DOMAIN sockets' = DOMAIN sockets \cup {Len(sockets) + 1}
        /\ \A i \in DOMAIN sockets : sockets'[i] = sockets[i]
        /\ sockets'[Len(sockets) + 1].do_remove = FALSE
    BY <1>1, <1>4 DEF NewSocket
  <2>. QED
    BY <1>5, <2>1 DEF Inv, Sending
<1>11. Calls'
  <2>1. held'[p] = held[p] \cup {last_id} /\ \A q \in Procs \ {p} : held'[q] = held[q]
    BY <1>1, <1>3
  <2>. QED
    BY <1>1, <2>1 DEF Inv, Calls
<1>12. Array(sockets, held, bitmap, last_id)' /\ Flow(sockets, InFlight, log, last_id)'
  BY <1>8, <1>9
<1>. QED
  BY <1>6, <1>10, <1>11, <1>12 DEF Inv
-----------------------------------------------------------------------------
(* The end of socket_tick                                                  *)

\* f[k] is what the loop has brought to the front after k of the sockets ss.
IsFront(f, ss, n) ==
    f = [i \in 0 .. n |-> IF i = 0 THEN <<>>
                          ELSE IF ss[i].do_remove THEN f[i - 1] ELSE Append(f[i - 1], ss[i])]

\* One round of the loop.
LEMMA FrontAt ==
    ASSUME NEW ss, NEW n \in Nat, NEW f, IsFront(f, ss, n), NEW i \in 0 .. n
    PROVE  f[i] = IF i = 0 THEN <<>>
                  ELSE IF ss[i].do_remove THEN f[i - 1] ELSE Append(f[i - 1], ss[i])
<1>1. PICK g : g = [k \in 0 .. n |-> IF k = 0 THEN <<>>
                          ELSE IF ss[k].do_remove THEN f[k - 1] ELSE Append(f[k - 1], ss[k])]
  OBVIOUS
<1>2. f = g
  BY <1>1, Zenon DEF IsFront
<1>3. g[i] = IF i = 0 THEN <<>>
             ELSE IF ss[i].do_remove THEN f[i - 1] ELSE Append(f[i - 1], ss[i])
  BY <1>1, Zenon
<1>. QED
  BY <1>2, <1>3, Zenon

\* The loop is a function of the number of rounds.
LEMMA FrontExists ==
    ASSUME NEW ss, NEW n \in Nat
    PROVE  \E f : IsFront(f, ss, n)
<1>. DEFINE S == {m \in Nat : ~ \E f : IsFront(f, ss, m)}
<1>1. ASSUME NEW m \in Nat, \E f : IsFront(f, ss, m)
      PROVE  \E f : IsFront(f, ss, m + 1)
  <2>1. PICK f : IsFront(f, ss, m)
    BY <1>1
  <2>. DEFINE g == [i \in 0 .. m + 1 |->
                      IF i = 0 THEN <<>>
                      ELSE IF ss[i].do_remove THEN f[i - 1] ELSE Append(f[i - 1], ss[i])]
  <2>2. \A i \in 0 .. m : g[i] = f[i]
    <3>. SUFFICES ASSUME NEW i \in 0 .. m
                  PROVE  g[i] = f[i]
      OBVIOUS
    <3>1. i \in 0 .. m + 1
      OBVIOUS
    <3>2. g[i] = IF i = 0 THEN <<>>
                 ELSE IF ss[i].do_remove THEN f[i - 1] ELSE Append(f[i - 1], ss[i])
      BY <3>1, Zenon
    <3>. QED
      BY <2>1, <3>2, FrontAt, Zenon
  <2>3. g = [i \in 0 .. m + 1 |->
               IF i = 0 THEN <<>>
               ELSE IF ss[i].do_remove THEN g[i - 1] ELSE Append(g[i - 1], ss[i])]
    <3>1. \A i \in 0 .. m + 1 : i # 0 => i - 1 \in 0 .. m
      OBVIOUS
    <3>2. \A i \in 0 .. m + 1 : i # 0 => g[i - 1] = f[i - 1]
      BY <2>2, <3>1
    <3>. QED
      BY <3>2
  <2>. HIDE DEF g
  <2>. QED
    BY <2>3 DEF IsFront
<1>2. \E f : IsFront(f, ss, 0)
  <2>. DEFINE f == [i \in 0 .. 0 |-> <<>>]
  <2>1. IsFront(f, ss, 0)
    BY DEF IsFront
  <2>. QED
    BY <2>1
<1>3. SUFFICES ASSUME S # {} PROVE FALSE
  OBVIOUS
<1>4. PICK m \in S : \A k \in S : m <= k
  BY <1>3, LeastNumber
<1>5. m \in Nat /\ m # 0
  BY <1>2
<1>6. m - 1 \in Nat /\ m - 1 \notin S
  BY <1>4, <1>5
<1>7. \E f : IsFront(f, ss, (m - 1) + 1)
  BY <1>1, <1>6
<1>. QED
  BY <1>5, <1>7

\* tt has each of the first n sockets of ss that stay, once, and no other.
Sifted(tt, ss, n) ==
    /\ tt \in Seq(SocketType)
    /\ \A j \in DOMAIN tt : \E k \in 1 .. n : tt[j] = ss[k] /\ ~ss[k].do_remove
    /\ \A k \in 1 .. n : ~ss[k].do_remove => \E j \in DOMAIN tt : tt[j] = ss[k]
    /\ \A i, j \in DOMAIN tt : tt[i].id = tt[j].id => i = j

\* One more round keeps the sockets that stay, each once.
LEMMA SiftedMore ==
    ASSUME NEW ss \in Seq(SocketType), NEW n \in Nat, n + 1 \in DOMAIN ss,
           \A i, j \in DOMAIN ss : ss[i].id = ss[j].id => i = j,
           NEW tt, Sifted(tt, ss, n)
    PROVE  /\ ss[n + 1].do_remove => Sifted(tt, ss, n + 1)
           /\ ~ss[n + 1].do_remove => Sifted(Append(tt, ss[n + 1]), ss, n + 1)
<1>1. 1 .. n + 1 = 1 .. n \cup {n + 1} /\ n + 1 \notin 1 .. n /\ 1 .. n \subseteq DOMAIN ss
  OBVIOUS
<1>2. ASSUME ss[n + 1].do_remove
      PROVE  Sifted(tt, ss, n + 1)
  BY <1>1, <1>2, Zenon DEF Sifted
<1>3. ASSUME ~ss[n + 1].do_remove
      PROVE  Sifted(Append(tt, ss[n + 1]), ss, n + 1)
  <2>1. PICK s \in SocketType : s = ss[n + 1]
    OBVIOUS
  <2>2. PICK uu : uu = Append(tt, s)
    OBVIOUS
  <2>3. PICK l : l = Len(tt) + 1
    OBVIOUS
  <2>4. /\ uu \in Seq(SocketType) /\ DOMAIN uu = DOMAIN tt \cup {l} /\ uu[l] = s
        /\ l \notin DOMAIN tt
        /\ \A j \in DOMAIN tt : uu[j] = tt[j]
    BY <2>1, <2>2, <2>3 DEF Sifted
  <2>5. \A j \in DOMAIN tt : uu[j].id # s.id
    BY <1>1, <2>1, <2>4 DEF Sifted
  <2>6. \A j \in DOMAIN uu : \E k \in 1 .. n + 1 : uu[j] = ss[k] /\ ~ss[k].do_remove
    BY <1>1, <1>3, <2>1, <2>4 DEF Sifted
  <2>7. \A k \in 1 .. n + 1 : ~ss[k].do_remove => \E j \in DOMAIN uu : uu[j] = ss[k]
    BY <1>1, <2>1, <2>4 DEF Sifted
  <2>8. \A i, j \in DOMAIN uu : uu[i].id = uu[j].id => i = j
    BY <2>4, <2>5 DEF Sifted
  <2>. QED
    BY <2>1, <2>2, <2>4, <2>6, <2>7, <2>8, ZenonT(40) DEF Sifted
<1>. QED
  BY <1>2, <1>3

\* After the loop the array has the sockets that stay, each once.
LEMMA CompactSifts ==
    ASSUME NEW ss \in Seq(SocketType), \A i, j \in DOMAIN ss : ss[i].id = ss[j].id => i = j
    PROVE  Sifted(Compact(ss), ss, Len(ss))
<1>1. PICK f : IsFront(f, ss, Len(ss)) /\ Compact(ss) = f[Len(ss)]
  <2>1. \E f : IsFront(f, ss, Len(ss))
    <3>1. Len(ss) \in Nat
      OBVIOUS
    <3>. QED
      BY <3>1, FrontExists, Zenon
  <2>2. Compact(ss) = (CHOOSE f : IsFront(f, ss, Len(ss)))[Len(ss)]
    BY DEF Compact, IsFront
  <2>. QED
    BY <2>1, <2>2
<1>. DEFINE S == {m \in 0 .. Len(ss) : ~Sifted(f[m], ss, m)}
<1>2. \A k \in 0 .. Len(ss) :
         f[k] = IF k = 0 THEN <<>>
                ELSE IF ss[k].do_remove THEN f[k - 1] ELSE Append(f[k - 1], ss[k])
  <2>1. Len(ss) \in Nat
    OBVIOUS
  <2>. QED
    BY <1>1, <2>1, FrontAt, Zenon
<1>3. 0 \notin S
  <2>1. Sifted(<<>>, ss, 0)
    BY DEF Sifted
  <2>2. f[0] = <<>>
    BY <1>2
  <2>. QED
    BY <2>1, <2>2
<1>4. SUFFICES ASSUME S # {} PROVE FALSE
  <2>1. Len(ss) \in 0 .. Len(ss)
    OBVIOUS
  <2>. QED
    BY <1>1, <2>1
<1>5. PICK m \in S : \A k \in S : m <= k
  <2>1. S \subseteq Nat
    OBVIOUS
  <2>. HIDE DEF S
  <2>. QED
    BY <1>4, <2>1, LeastNumber
<1>6. PICK n \in Nat : n + 1 = m /\ n \in 0 .. Len(ss) /\ m \in 1 .. Len(ss) /\ n \notin S
  <2>1. m \in 0 .. Len(ss) /\ m # 0
    BY <1>3
  <2>2. m - 1 \in Nat /\ m - 1 + 1 = m /\ m - 1 \in 0 .. Len(ss) /\ m \in 1 .. Len(ss) /\ ~ (m <= m - 1)
    BY <2>1
  <2>. QED
    BY <1>5, <2>2
<1>7. Sifted(f[n], ss, n)
  BY <1>6
<1>8. f[m] = IF ss[m].do_remove THEN f[n] ELSE Append(f[n], ss[m])
  <2>1. m \in 0 .. Len(ss) /\ m # 0 /\ m - 1 = n
    BY <1>6
  <2>. QED
    BY <1>2, <2>1
<1>9. Sifted(f[m], ss, m)
  BY <1>6, <1>7, <1>8, SiftedMore
<1>. QED
  BY <1>9

\* The end of socket_tick loses no socket that a descriptor refers to.
LEMMA CompactArray ==
    ASSUME NEW ss, NEW h, NEW b, NEW n, NEW tt, Array(ss, h, b, n), tt = Compact(ss)
    PROVE  /\ Array(tt, h, b, n)
           /\ \A i \in DOMAIN tt : ~tt[i].do_remove
<1>1. ss \in Seq(SocketType) /\ \A i, j \in DOMAIN ss : ss[i].id = ss[j].id => i = j
  BY DEF Array
<1>2. Sifted(tt, ss, Len(ss)) /\ 1 .. Len(ss) = DOMAIN ss
  BY <1>1, CompactSifts
<1>3. /\ tt \in Seq(SocketType)
      /\ \A j \in DOMAIN tt : \E k \in DOMAIN ss : tt[j] = ss[k] /\ ~ss[k].do_remove
      /\ \A k \in DOMAIN ss : ~ss[k].do_remove => \E j \in DOMAIN tt : tt[j] = ss[k]
      /\ \A i, j \in DOMAIN tt : tt[i].id = tt[j].id => i = j
  BY <1>2 DEF Sifted
<1>4. \A i \in DOMAIN tt : ~tt[i].do_remove
  BY <1>3
<1>5. \A i \in DOMAIN tt :
         /\ tt[i].id < n
         /\ tt[i].ref_count = Count(h, tt[i].id)
         /\ tt[i].local_port \in Ports \cup {0}
  BY <1>3 DEF Array
<1>6. \A i, j \in DOMAIN tt : tt[i].local_port = tt[j].local_port => i = j \/ tt[i].local_port = 0
  <2>. SUFFICES ASSUME NEW i \in DOMAIN tt, NEW j \in DOMAIN tt,
                       tt[i].local_port = tt[j].local_port, tt[i].local_port # 0
                PROVE  i = j
    OBVIOUS
  <2>1. PICK k \in DOMAIN ss, m \in DOMAIN ss : tt[i] = ss[k] /\ tt[j] = ss[m]
    BY <1>3
  <2>2. k = m
    BY <2>1 DEF Array
  <2>. QED
    BY <1>3, <2>1, <2>2
<1>7. \A p \in Procs : \A id \in h[p] : \E i \in DOMAIN tt : tt[i].id = id
  <2>. SUFFICES ASSUME NEW p \in Procs, NEW id \in h[p]
                PROVE  \E i \in DOMAIN tt : tt[i].id = id
    OBVIOUS
  <2>1. PICK k \in DOMAIN ss : ss[k].id = id
    BY DEF Array
  <2>2. Count(h, id) # 0
    BY CountType
  <2>3. ~ss[k].do_remove
    BY <2>1, <2>2 DEF Array
  <2>. QED
    BY <1>3, <2>1, <2>3
<1>8. b = Locked(tt)
  <2>1. b = Locked(ss)
    BY DEF Array
  <2>2. \A k \in DOMAIN ss : ss[k].local_port # 0 => ~ss[k].do_remove
    BY DEF Array
  <2>3. \A x : x \in Locked(ss) <=> \E k \in DOMAIN ss : ss[k].local_port # 0 /\ x = htons(ss[k].local_port)
    BY DEF Locked
  <2>4. \A x : x \in Locked(tt) <=> \E k \in DOMAIN tt : tt[k].local_port # 0 /\ x = htons(tt[k].local_port)
    BY DEF Locked
  <2>5. \A x : x \in Locked(ss) <=> x \in Locked(tt)
    BY <1>3, <2>2, <2>3, <2>4
  <2>. QED
    BY <2>1, <2>5
<1>9. n \in Nat
  BY DEF Array
<1>. QED
  BY <1>3, <1>4, <1>5, <1>6, <1>7, <1>8, <1>9 DEF Array

\* The end of socket_tick loses no packet.
LEMMA CompactFlow ==
    ASSUME NEW ss, NEW h, NEW b, NEW n, NEW lg, NEW tt, Array(ss, h, b, n), Flow(ss, 0, lg, n),
           tt = Compact(ss)
    PROVE  Flow(tt, 0, lg, n)
<1>1. ss \in Seq(SocketType) /\ \A i, j \in DOMAIN ss : ss[i].id = ss[j].id => i = j
  BY DEF Array
<1>2. Sifted(tt, ss, Len(ss)) /\ 1 .. Len(ss) = DOMAIN ss
  BY <1>1, CompactSifts
<1>3. /\ tt \in Seq(SocketType)
      /\ \A j \in DOMAIN tt : \E k \in DOMAIN ss : tt[j] = ss[k] /\ ~ss[k].do_remove
      /\ \A k \in DOMAIN ss : ~ss[k].do_remove => \E j \in DOMAIN tt : tt[j] = ss[k]
  BY <1>2 DEF Sifted
<1>4. \A i \in DOMAIN ss : i # 0
  BY <1>1
<1>5. \A i \in DOMAIN tt : i # 0
  BY <1>3
<1>6. \A i \in DOMAIN ss : ~ss[i].do_remove =>
          /\ lg[ss[i].id].wire \o ss[i].send = Upto(lg[ss[i].id].accepted)
          /\ lg[ss[i].id].read \o ss[i].recv = Upto(lg[ss[i].id].delivered)
  BY <1>4 DEF Flow
<1>7. \A i \in DOMAIN tt : ~tt[i].do_remove =>
          /\ lg[tt[i].id].wire \o (IF i = 0 THEN Tail(tt[i].send) ELSE tt[i].send)
                = Upto(lg[tt[i].id].accepted)
          /\ lg[tt[i].id].read \o tt[i].recv = Upto(lg[tt[i].id].delivered)
  <2>. SUFFICES ASSUME NEW i \in DOMAIN tt
                PROVE  /\ lg[tt[i].id].wire \o (IF i = 0 THEN Tail(tt[i].send) ELSE tt[i].send)
                             = Upto(lg[tt[i].id].accepted)
                       /\ lg[tt[i].id].read \o tt[i].recv = Upto(lg[tt[i].id].delivered)
    OBVIOUS
  <2>1. PICK k \in DOMAIN ss : tt[i] = ss[k] /\ ~ss[k].do_remove
    BY <1>3
  <2>. QED
    BY <1>5, <1>6, <2>1
<1>8. \A id \in Ids : (\A i \in DOMAIN tt : tt[i].id = id => tt[i].do_remove)
                          => lg[id].wire = Upto(lg[id].accepted)
  <2>. SUFFICES ASSUME NEW id \in Ids, \A i \in DOMAIN tt : tt[i].id = id => tt[i].do_remove
                PROVE  lg[id].wire = Upto(lg[id].accepted)
    OBVIOUS
  <2>1. \A k \in DOMAIN ss : ss[k].id = id => ss[k].do_remove
    BY <1>3
  <2>. QED
    BY <2>1 DEF Flow
<1>. QED
  BY <1>7, <1>8 DEF Flow

\* The tick of the sockets that end.
Swept(ss, ended) == [k \in DOMAIN ss |-> IF k \in ended THEN Ended(ss[k]) ELSE ss[k]]

\* What is left of a socket that ends.
LEMMA EndedSocket ==
    ASSUME NEW s \in SocketType
    PROVE  /\ Ended(s) \in SocketType
           /\ Ended(s).id = s.id /\ Ended(s).local_port = 0
           /\ Ended(s).do_remove
<1>1. PICK t : t = [s EXCEPT !.local_port = 0, !.do_remove = TRUE]
  OBVIOUS
<1>2. t \in SocketType /\ t.id = s.id /\ t.local_port = 0
  BY <1>1 DEF SocketType
<1>3. t.do_remove = TRUE
  BY <1>1 DEF SocketType
<1>4. PICK u : u = [t EXCEPT !.send = <<>>, !.recv = <<>>]
  OBVIOUS
<1>5. u \in SocketType /\ u.id = t.id /\ u.local_port = t.local_port
  <2>1. <<>> \in Seq(Nat)
    OBVIOUS
  <2>. QED
    BY <1>2, <1>4, <2>1 DEF SocketType
<1>6. u.do_remove = t.do_remove
  BY <1>2, <1>4 DEF SocketType
<1>7. Ended(s) = u
  BY <1>1, <1>4 DEF Ended
<1>. QED
  BY <1>2, <1>3, <1>5, <1>6, <1>7

\* What the tick leaves alone.
LEMMA SweptSockets ==
    ASSUME NEW ss \in Seq(SocketType), NEW ended, NEW tt, tt = Swept(ss, ended)
    PROVE  /\ tt \in Seq(SocketType) /\ DOMAIN tt = DOMAIN ss
           /\ \A k \in DOMAIN ss \ ended : tt[k] = ss[k]
           /\ \A k \in DOMAIN ss : tt[k].id = ss[k].id
           /\ \A k \in ended : k \in DOMAIN ss => tt[k].do_remove /\ tt[k].local_port = 0
<1>1. DOMAIN tt = DOMAIN ss
  BY DEF Swept
<1>2. \A k \in DOMAIN ss \ ended : tt[k] = ss[k]
  BY DEF Swept
<1>3. ASSUME NEW k \in DOMAIN ss, k \in ended
      PROVE  /\ tt[k] \in SocketType /\ tt[k].id = ss[k].id
             /\ tt[k].do_remove /\ tt[k].local_port = 0
  <2>1. tt[k] = Ended(ss[k]) /\ ss[k] \in SocketType
    BY <1>3 DEF Swept
  <2>. QED
    BY <2>1, EndedSocket
<1>4. \A k \in DOMAIN ss : tt[k] \in SocketType
  BY <1>2, <1>3
<1>5. tt \in Seq(SocketType)
  <2>1. tt = [k \in 1 .. Len(ss) |-> tt[k]] /\ Len(ss) \in Nat
    BY DEF Swept
  <2>2. \A k \in 1 .. Len(ss) : tt[k] \in SocketType
    BY <1>4
  <2>. QED
    BY <2>1, <2>2
<1>. QED
  BY <1>1, <1>2, <1>3, <1>5

\* The locks of the ports go with their sockets, and no other lock goes.
LEMMA SweptArray ==
    ASSUME NEW ss, NEW h, NEW b, NEW n, Array(ss, h, b, n),
           NEW ended, ended \subseteq DOMAIN ss, \A k \in ended : Ends(ss[k]),
           NEW tt, tt = Swept(ss, ended)
    PROVE  Array(tt, h, b \ {htons(ss[k].local_port) : k \in ended}, n)
<1>1. ss \in Seq(SocketType) /\ n \in Nat
  BY DEF Array
<1>2. /\ tt \in Seq(SocketType) /\ DOMAIN tt = DOMAIN ss
      /\ \A k \in DOMAIN ss \ ended : tt[k] = ss[k]
      /\ \A k \in DOMAIN ss : tt[k].id = ss[k].id
      /\ \A k \in ended : tt[k].do_remove /\ tt[k].local_port = 0
  BY <1>1, SweptSockets
<1>3. \A k \in ended : Count(h, ss[k].id) = 0
  BY DEF Array, Ends
<1>4. \A k \in DOMAIN tt :
         /\ tt[k].id < n
         /\ ~tt[k].do_remove => tt[k].ref_count = Count(h, tt[k].id)
         /\ tt[k].do_remove => tt[k].local_port = 0 /\ Count(h, tt[k].id) = 0
         /\ tt[k].local_port \in Ports \cup {0}
  <2>. SUFFICES ASSUME NEW k \in DOMAIN ss
                PROVE  /\ tt[k].id < n
                       /\ ~tt[k].do_remove => tt[k].ref_count = Count(h, tt[k].id)
                       /\ tt[k].do_remove => tt[k].local_port = 0 /\ Count(h, tt[k].id) = 0
                       /\ tt[k].local_port \in Ports \cup {0}
    BY <1>2
  <2>1. CASE k \in ended
    <3>1. ss[k].id < n
      BY DEF Array
    <3>. QED
      BY <1>2, <1>3, <2>1, <3>1
  <2>2. CASE k \notin ended
    <3>1. tt[k] = ss[k]
      BY <1>2, <2>2
    <3>. QED
      BY <3>1 DEF Array
  <2>. QED
    BY <2>1, <2>2
<1>5. \A i, j \in DOMAIN tt : tt[i].id = tt[j].id => i = j
  BY <1>2 DEF Array
<1>6. \A i, j \in DOMAIN tt : tt[i].local_port = tt[j].local_port => i = j \/ tt[i].local_port = 0
  BY <1>2 DEF Array
<1>7. \A p \in Procs : \A id \in h[p] : \E i \in DOMAIN tt : tt[i].id = id
  BY <1>2 DEF Array
<1>8. b \ {htons(ss[k].local_port) : k \in ended} = Locked(tt)
  <2>1. b = Locked(ss)
    BY DEF Array
  <2>2. \A x : x \in Locked(ss) <=> \E k \in DOMAIN ss : ss[k].local_port # 0 /\ x = htons(ss[k].local_port)
    BY DEF Locked
  <2>3. \A x : x \in Locked(tt) <=> \E k \in DOMAIN tt : tt[k].local_port # 0 /\ x = htons(tt[k].local_port)
    BY DEF Locked
  <2>4. ASSUME NEW k \in DOMAIN ss, ss[k].local_port # 0, NEW m \in ended,
               htons(ss[k].local_port) = htons(ss[m].local_port)
        PROVE  k \in ended
    <3>1. ss[k].local_port \in Ports \cup {0} /\ ss[m].local_port \in Ports \cup {0}
      BY DEF Array
    <3>2. ss[k].local_port = ss[m].local_port
      BY <2>4, <3>1, PortOrder
    <3>3. k = m
      BY <2>4, <3>2 DEF Array
    <3>. QED
      BY <3>3
  <2>5. \A x : x \in Locked(ss) /\ x \notin {htons(ss[k].local_port) : k \in ended}
                  <=> \E k \in DOMAIN ss \ ended : ss[k].local_port # 0 /\ x = htons(ss[k].local_port)
    BY <2>2, <2>4
  <2>6. \A x : x \in Locked(tt)
                  <=> \E k \in DOMAIN ss \ ended : ss[k].local_port # 0 /\ x = htons(ss[k].local_port)
    BY <1>2, <2>3
  <2>. QED
    BY <2>1, <2>5, <2>6
<1>. QED
  BY <1>1, <1>2, <1>4, <1>5, <1>6, <1>7, <1>8 DEF Array

\* A socket that ends has given all its packets to the card.
LEMMA SweptFlow ==
    ASSUME NEW ss, NEW h, NEW b, NEW n, NEW lg \in [Ids -> LogType],
           Array(ss, h, b, n), Flow(ss, 0, lg, n),
           NEW ended, ended \subseteq DOMAIN ss, \A k \in ended : Ends(ss[k]),
           NEW tt, tt = Swept(ss, ended)
    PROVE  Flow(tt, 0, lg, n)
<1>1. ss \in Seq(SocketType) /\ n \in Nat
  BY DEF Array
<1>2. /\ DOMAIN tt = DOMAIN ss
      /\ \A k \in DOMAIN ss \ ended : tt[k] = ss[k]
      /\ \A k \in DOMAIN ss : tt[k].id = ss[k].id
      /\ \A k \in ended : tt[k].do_remove
  BY <1>1, SweptSockets
<1>3. \A i \in DOMAIN ss : i # 0
  BY <1>1
<1>4. \A i \in DOMAIN tt : ~tt[i].do_remove =>
          /\ lg[tt[i].id].wire \o (IF i = 0 THEN Tail(tt[i].send) ELSE tt[i].send)
                = Upto(lg[tt[i].id].accepted)
          /\ lg[tt[i].id].read \o tt[i].recv = Upto(lg[tt[i].id].delivered)
  <2>. SUFFICES ASSUME NEW i \in DOMAIN tt, ~tt[i].do_remove
                PROVE  /\ lg[tt[i].id].wire \o (IF i = 0 THEN Tail(tt[i].send) ELSE tt[i].send)
                             = Upto(lg[tt[i].id].accepted)
                       /\ lg[tt[i].id].read \o tt[i].recv = Upto(lg[tt[i].id].delivered)
    OBVIOUS
  <2>1. i \in DOMAIN ss /\ tt[i] = ss[i]
    BY <1>2
  <2>. QED
    BY <2>1, Zenon DEF Flow
<1>5. \A id \in Ids : (\A i \in DOMAIN tt : tt[i].id = id => tt[i].do_remove)
                          => lg[id].wire = Upto(lg[id].accepted)
  <2>. SUFFICES ASSUME NEW id \in Ids, \A i \in DOMAIN tt : tt[i].id = id => tt[i].do_remove
                PROVE  lg[id].wire = Upto(lg[id].accepted)
    OBVIOUS
  <2>1. CASE \E k \in ended : ss[k].id = id
    <3>1. PICK k \in ended : ss[k].id = id
      BY <2>1
    <3>2. ss[k].send = <<>> /\ ~ss[k].do_remove /\ k # 0
      BY <1>3 DEF Ends
    <3>3. lg[id].wire \o <<>> = Upto(lg[id].accepted)
      BY <3>1, <3>2 DEF Flow
    <3>4. lg[id].wire \in Seq(Nat)
      BY DEF LogType
    <3>. QED
      BY <3>3, <3>4
  <2>2. CASE ~ \E k \in ended : ss[k].id = id
    <3>1. \A k \in DOMAIN ss : ss[k].id = id => ss[k].do_remove
      BY <1>2, <2>2
    <3>. QED
      BY <3>1 DEF Flow
  <2>. QED
    BY <2>1, <2>2
<1>. QED
  BY <1>4, <1>5 DEF Flow

\* The socket that sends is one of those left to tick, with a packet.
LEMMA NextSenderFound ==
    ASSUME NEW ss \in Seq(SocketType), NEW i \in Nat \ {0}, NextSender(ss, i) # 0
    PROVE  /\ NextSender(ss, i) \in i .. Len(ss)
           /\ ~Ends(ss[NextSender(ss, i)]) /\ ss[NextSender(ss, i)].send # <<>>
<1>. DEFINE S == {k \in i .. Len(ss) : ~Ends(ss[k]) /\ ss[k].send # <<>>}
<1>1. NextSender(ss, i) = IF S # {} THEN Min(S) ELSE 0
  BY DEF NextSender, SelectInSubSeq
<1>2. S \subseteq Nat
  OBVIOUS
<1>3. S # {}
  BY <1>1
<1>4. Min(S) \in S
  <2>. HIDE DEF S
  <2>. QED
    BY <1>2, <1>3, MinIn
<1>. QED
  BY <1>1, <1>3, <1>4

\* A packet is delivered to a socket that has a port.
LEMMA DeliveredFound ==
    ASSUME NEW ss \in Seq(SocketType), NEW port, NEW fits, Delivered(ss, port, fits) # 0
    PROVE  /\ Delivered(ss, port, fits) \in DOMAIN ss
           /\ ss[Delivered(ss, port, fits)].local_port # 0
<1>. DEFINE S == {k \in 1 .. Len(ss) : ss[k].local_port = port /\ port # 0}
            i == IF S # {} THEN Min(S) ELSE 0
<1>1. Delivered(ss, port, fits)
         = IF i # 0 /\ fits /\ Len(ss[i].recv) < QueueMax THEN i ELSE 0
  BY DEF Delivered, SelectInSeq
<1>2. S \subseteq Nat
  OBVIOUS
<1>3. Delivered(ss, port, fits) = i /\ i # 0
  <2>. HIDE DEF i
  <2>. QED
    BY <1>1
<1>4. S # {} /\ Delivered(ss, port, fits) = Min(S)
  <2>. HIDE DEF S
  <2>. QED
    BY <1>3
<1>5. Min(S) \in S
  <2>. HIDE DEF S
  <2>. QED
    BY <1>2, <1>4, MinIn
<1>6. \A k \in S : k \in DOMAIN ss /\ ss[k].local_port # 0
  OBVIOUS
<1>. HIDE DEF S
<1>. QED
  BY <1>4, <1>5, <1>6

\* A socket takes a packet that has arrived for it.
Received(ss, i, x) == [ss EXCEPT ![i].recv = Append(@, x)]

\* What the log then says of the socket, and what it says when the card gets
\* a packet.
LogReceived(lg, id) == [lg EXCEPT ![id].delivered = @ + 1]
LogSent(lg, id, x) == [lg EXCEPT ![id].wire = Append(@, x)]

\* socket_on_recv_udp adds the packet to the end of the queue.
LEMMA ReceivedKeeps ==
    ASSUME NEW ss, NEW h, NEW b, NEW n, NEW lg \in [Ids -> LogType],
           Array(ss, h, b, n), Flow(ss, 0, lg, n),
           NEW i \in DOMAIN ss, ss[i].local_port # 0,
           NEW tt, tt = Received(ss, i, lg[ss[i].id].delivered + 1),
           NEW mg, mg = LogReceived(lg, ss[i].id)
    PROVE  /\ Array(tt, h, b, n)
           /\ Flow(tt, 0, mg, n)
           /\ mg \in [Ids -> LogType]
<1>1. ss \in Seq(SocketType) /\ ss[i] \in SocketType /\ ~ss[i].do_remove
  BY DEF Array
<1>2. PICK id \in Ids : id = ss[i].id /\ lg[id] \in LogType
  BY <1>1 DEF SocketType
<1>3. PICK x \in Nat, d \in Nat : d = lg[id].delivered /\ x = d + 1
  <2>1. PICK d \in Nat : d = lg[id].delivered
    BY <1>2 DEF LogType
  <2>2. d + 1 \in Nat
    OBVIOUS
  <2>. QED
    BY <2>1, <2>2
<1>4. PICK q \in Seq(Nat), r \in Seq(Nat) : q = ss[i].recv /\ r = lg[id].read
  BY <1>1, <1>2 DEF SocketType, LogType
<1>5. PICK w : w = Append(q, x)
  OBVIOUS
<1>6. w \in Seq(Nat) /\ r \o w = Append(r \o q, x)
  BY <1>5, JoinQueue
<1>7. PICK s : s = [ss[i] EXCEPT !.recv = w]
  OBVIOUS
<1>8. /\ s \in SocketType /\ s.id = id /\ s.ref_count = ss[i].ref_count
      /\ s.local_port = ss[i].local_port /\ s.send = ss[i].send /\ s.recv = w
  BY <1>1, <1>2, <1>6, <1>7 DEF SocketType
<1>9. s.do_remove = ss[i].do_remove
  BY <1>1, <1>7 DEF SocketType
<1>10. tt = [ss EXCEPT ![i] = s]
  BY <1>2, <1>3, <1>4, <1>5, <1>7 DEF Received
<1>11. /\ tt \in Seq(SocketType) /\ Len(tt) = Len(ss) /\ DOMAIN tt = DOMAIN ss
       /\ tt[i] = s
       /\ \A k \in DOMAIN ss \ {i} : tt[k] = ss[k]
  <2>1. ss \in Seq(SocketType) /\ s \in SocketType
    BY <1>1, <1>8
  <2>2. PICK uu : uu = [ss EXCEPT ![i] = s]
    OBVIOUS
  <2>3. /\ uu \in Seq(SocketType) /\ Len(uu) = Len(ss) /\ DOMAIN uu = DOMAIN ss
        /\ uu[i] = s
        /\ \A k \in DOMAIN ss \ {i} : uu[k] = ss[k]
    BY <2>1, <2>2
  <2>4. tt = uu
    BY <1>10, <2>2
  <2>. QED
    BY <2>3, <2>4, Zenon
<1>12. PICK m : m = [lg[id] EXCEPT !.delivered = x]
  OBVIOUS
<1>13. /\ m \in LogType /\ m.accepted = lg[id].accepted /\ m.wire = lg[id].wire
       /\ m.delivered = x /\ m.read = r
  BY <1>2, <1>4, <1>12 DEF LogType
<1>14. mg = [lg EXCEPT ![id] = m]
  BY <1>2, <1>3, <1>12 DEF LogReceived
<1>15. /\ mg \in [Ids -> LogType] /\ mg[id] = m
       /\ \A k \in Ids \ {id} : mg[k] = lg[k]
  BY <1>2, <1>13, <1>14
<1>16. Array(tt, h, b, n)
  <2>1. \A k \in DOMAIN ss : SameButQueues(ss[k], tt[k])
    BY <1>2, <1>8, <1>9, <1>11 DEF SameButQueues
  <2>2. PICK uu : uu = tt
    OBVIOUS
  <2>3. /\ uu \in Seq(SocketType) /\ Len(uu) = Len(ss)
        /\ \A k \in DOMAIN ss : SameButQueues(ss[k], uu[k])
    BY <1>11, <2>1, <2>2
  <2>4. Array(uu, h, b, n)
    BY <2>3, QueuesChange
  <2>. QED
    BY <2>2, <2>4
<1>17. Flow(tt, 0, mg, n)
  <2>1. PICK uu, lh : uu = tt /\ lh = mg
    OBVIOUS
  <2>2. i # 0
    BY <1>1
  <2>3. /\ lg[id].wire \o ss[i].send = Upto(lg[id].accepted)
        /\ r \o q = Upto(d)
    BY <1>1, <1>2, <1>3, <1>4, <2>2 DEF Flow
  <2>4. /\ lh[ss[i].id].wire \o (IF i = 0 THEN Tail(uu[i].send) ELSE uu[i].send)
              = Upto(lh[ss[i].id].accepted)
        /\ lh[ss[i].id].read \o uu[i].recv = Upto(lh[ss[i].id].delivered)
    <3>1. Append(Upto(d), d + 1) = Upto(d + 1)
      BY UptoNext
    <3>2. r \o w = Upto(x)
      BY <1>3, <1>6, <2>3, <3>1
    <3>3. lh[id].wire \o uu[i].send = Upto(lh[id].accepted)
      BY <1>8, <1>11, <1>13, <1>15, <2>1, <2>3
    <3>4. lh[id].read \o uu[i].recv = Upto(lh[id].delivered)
      BY <1>8, <1>11, <1>13, <1>15, <2>1, <3>2
    <3>. QED
      BY <1>2, <2>2, <3>3, <3>4
  <2>5. /\ DOMAIN uu = DOMAIN ss
        /\ \A k \in DOMAIN ss : SameSocket(ss[k], uu[k])
        /\ \A k \in DOMAIN ss \ {i} : /\ uu[k].send = ss[k].send /\ uu[k].recv = ss[k].recv
                                      /\ k = 0 <=> k = 0
        /\ \A k \in Ids \ {ss[i].id} : lh[k] = lg[k]
    BY <1>2, <1>8, <1>9, <1>11, <1>15, <2>1 DEF SameSocket
  <2>6. i \in DOMAIN ss /\ ~ss[i].do_remove /\ Flow(ss, 0, lg, n) /\ Array(ss, h, b, n)
    BY <1>1
  <2>7. PICK z : z = 0
    OBVIOUS
  <2>8. /\ lh[ss[i].id].wire \o (IF i = z THEN Tail(uu[i].send) ELSE uu[i].send)
              = Upto(lh[ss[i].id].accepted)
        /\ lh[ss[i].id].read \o uu[i].recv = Upto(lh[ss[i].id].delivered)
        /\ Flow(ss, z, lg, n)
        /\ DOMAIN uu = DOMAIN ss
        /\ \A k \in DOMAIN ss : SameSocket(ss[k], uu[k])
        /\ \A k \in Ids \ {ss[i].id} : lh[k] = lg[k]
        /\ \A k \in DOMAIN ss \ {i} : /\ uu[k].send = ss[k].send /\ uu[k].recv = ss[k].recv
                                      /\ k = z <=> k = z
    BY <2>4, <2>5, <2>6, <2>7, Zenon
  <2>9. Flow(uu, z, lh, n)
    BY <1>1, <2>8, FlowOne, ZenonT(40)
  <2>. QED
    BY <2>1, <2>7, <2>9
<1>. QED
  BY <1>15, <1>16, <1>17

\* The card gets the first packet of socket j.
LEMMA SentKeeps ==
    ASSUME NEW ss, NEW h, NEW b, NEW n, NEW lg \in [Ids -> LogType],
           Array(ss, h, b, n), Flow(ss, 0, lg, n),
           NEW j \in DOMAIN ss, ~ss[j].do_remove, ss[j].send # <<>>,
           NEW mg, mg = LogSent(lg, ss[j].id, Head(ss[j].send))
    PROVE  /\ Flow(ss, j, mg, n)
           /\ mg \in [Ids -> LogType]
<1>1. ss \in Seq(SocketType) /\ ss[j] \in SocketType
  BY DEF Array
<1>2. PICK id \in Ids : id = ss[j].id /\ lg[id] \in LogType
  BY <1>1 DEF SocketType
<1>3. PICK q \in Seq(Nat), u \in Seq(Nat), x \in Nat :
         q = ss[j].send /\ u = lg[id].wire /\ x = Head(q) /\ q # <<>> /\ Tail(q) \in Seq(Nat)
  <2>1. ss[j].send \in Seq(Nat) /\ lg[id].wire \in Seq(Nat)
    BY <1>1, <1>2 DEF SocketType, LogType
  <2>. QED
    BY <2>1, JoinQueue
<1>4. PICK w : w = Append(u, x)
  OBVIOUS
<1>5. w \in Seq(Nat) /\ w \o Tail(q) = u \o q
  BY <1>3, <1>4, JoinQueue, LeaveQueue
<1>6. PICK m : m = [lg[id] EXCEPT !.wire = w]
  OBVIOUS
<1>7. /\ m \in LogType /\ m.accepted = lg[id].accepted /\ m.wire = w
      /\ m.delivered = lg[id].delivered /\ m.read = lg[id].read
  BY <1>2, <1>5, <1>6 DEF LogType
<1>8. mg = [lg EXCEPT ![id] = m]
  BY <1>2, <1>3, <1>4, <1>6 DEF LogSent
<1>9. /\ mg \in [Ids -> LogType] /\ mg[id] = m
      /\ \A k \in Ids \ {id} : mg[k] = lg[k]
  BY <1>2, <1>7, <1>8
<1>10. PICK lh : lh = mg
  OBVIOUS
<1>11. j # 0
  BY <1>1
<1>12. /\ lg[id].wire \o ss[j].send = Upto(lg[id].accepted)
       /\ lg[id].read \o ss[j].recv = Upto(lg[id].delivered)
  BY <1>2, <1>11 DEF Flow
<1>13. /\ lh[ss[j].id].wire \o (IF j = j THEN Tail(ss[j].send) ELSE ss[j].send)
             = Upto(lh[ss[j].id].accepted)
       /\ lh[ss[j].id].read \o ss[j].recv = Upto(lh[ss[j].id].delivered)
  <2>1. w \o Tail(q) = Upto(lg[id].accepted)
    BY <1>3, <1>5, <1>12
  <2>2. lh[id].wire \o Tail(ss[j].send) = Upto(lh[id].accepted)
    BY <1>3, <1>7, <1>9, <1>10, <2>1
  <2>3. lh[id].read \o ss[j].recv = Upto(lh[id].delivered)
    BY <1>7, <1>9, <1>10, <1>12
  <2>. QED
    BY <1>2, <2>2, <2>3
<1>14. /\ \A k \in DOMAIN ss : SameSocket(ss[k], ss[k])
       /\ \A k \in DOMAIN ss \ {j} : /\ ss[k].send = ss[k].send /\ ss[k].recv = ss[k].recv
                                     /\ k = 0 <=> k = j
       /\ \A k \in Ids \ {ss[j].id} : lh[k] = lg[k]
  <2>1. \A k \in DOMAIN ss : k # 0
    BY <1>1
  <2>. QED
    BY <1>2, <1>9, <1>10, <2>1 DEF SameSocket
<1>15. Flow(ss, j, lh, n)
  BY <1>13, <1>14, FlowOne, ZenonT(40)
<1>. QED
  BY <1>9, <1>10, <1>15

\* socket_tick, up to where it sleeps or ends, keeps the invariant.
LEMMA TickInv ==
    ASSUME Types, Calls, NEW ss, Array(ss, held, bitmap, last_id), Flow(ss, 0, log, last_id),
           NEW i \in Nat \ {0}, \A k \in DOMAIN ss : ss[k].do_remove => k < i,
           NEW packet \in Int, NEW rest \in Seq(Nat), Tick(ss, i, packet, rest)
    PROVE  Inv'
<1>. DEFINE j0 == NextSender(ss, i)
            ended0 == {k \in i .. (IF j0 = 0 THEN Len(ss) ELSE j0 - 1) : Ends(ss[k])}
            tt0 == Swept(ss, ended0)
<1>0. /\ bitmap' = bitmap \ {htons(ss[k].local_port) : k \in ended0}
      /\ UNCHANGED <<last_id, held, call, alive>>
      /\ IF j0 # 0
         THEN /\ sockets' = tt0
              /\ sp' = [pc |-> "sending", at |-> j0, packet |-> packet]
              /\ log' = [log EXCEPT ![ss[j0].id].wire = Append(@, Head(ss[j0].send))]
              /\ \E echo \in Echoes : inbox' = rest \o echo
         ELSE \E fits \in BOOLEAN :
                LET to == Delivered(tt0, packet, fits)
                    id == tt0[to].id
                IN  /\ IF to = 0
                       THEN /\ sockets' = Compact(tt0)
                            /\ UNCHANGED log
                       ELSE /\ sockets' = Compact([tt0 EXCEPT ![to].recv =
                                                     Append(@, log[id].delivered + 1)])
                            /\ log' = [log EXCEPT ![id].delivered = @ + 1]
                    /\ sp' = [pc |-> IF packet = NoPacket THEN "timed" ELSE "running",
                              at |-> 0, packet |-> NoPacket]
                    /\ inbox' = rest
  BY DEF Tick, Swept
<1>1. PICK j, ended, tt :
         /\ j = j0 /\ ended = ended0 /\ tt = tt0
         /\ j = NextSender(ss, i)
         /\ ended = {k \in i .. (IF j = 0 THEN Len(ss) ELSE j - 1) : Ends(ss[k])}
         /\ tt = Swept(ss, ended)
  OBVIOUS
<1>2. /\ bitmap' = bitmap \ {htons(ss[k].local_port) : k \in ended}
      /\ UNCHANGED <<last_id, held, call, alive>>
      /\ j # 0 => /\ sockets' = tt
                  /\ sp' = [pc |-> "sending", at |-> j, packet |-> packet]
                  /\ log' = [log EXCEPT ![ss[j].id].wire = Append(@, Head(ss[j].send))]
                  /\ \E echo \in Echoes : inbox' = rest \o echo
      /\ j = 0 => /\ \E fits \in BOOLEAN :
                        LET to == Delivered(tt, packet, fits)
                            id == tt[to].id
                        IN  IF to = 0
                            THEN /\ sockets' = Compact(tt)
                                 /\ UNCHANGED log
                            ELSE /\ sockets' = Compact([tt EXCEPT ![to].recv =
                                                     Append(@, log[id].delivered + 1)])
                                 /\ log' = [log EXCEPT ![id].delivered = @ + 1]
                  /\ sp' = [pc |-> IF packet = NoPacket THEN "timed" ELSE "running",
                            at |-> 0, packet |-> NoPacket]
                  /\ inbox' = rest
  <2>. HIDE DEF j0, ended0, tt0
  <2>. QED
    BY <1>0, <1>1, Zenon
<1>3. ss \in Seq(SocketType) /\ log \in [Ids -> LogType]
  BY DEF Array, Types
<1>4. j # 0 => /\ j \in i .. Len(ss) /\ j \in DOMAIN ss
               /\ ~Ends(ss[j]) /\ ss[j].send # <<>>
  <2>1. j # 0 => j \in i .. Len(ss) /\ ~Ends(ss[j]) /\ ss[j].send # <<>>
    BY <1>1, <1>3, NextSenderFound
  <2>. QED
    BY <1>3, <2>1
<1>5. ended \subseteq DOMAIN ss /\ \A k \in ended : Ends(ss[k]) /\ (j # 0 => k < j)
  BY <1>1, <1>3, <1>4
<1>6. PICK b : b = bitmap \ {htons(ss[k].local_port) : k \in ended} /\ b = bitmap'
  BY <1>2
<1>7. Array(tt, held, b, last_id)
  BY <1>1, <1>5, <1>6, SweptArray
<1>8. Flow(tt, 0, log, last_id)
  BY <1>1, <1>3, <1>5, SweptFlow
<1>9. /\ tt \in Seq(SocketType) /\ DOMAIN tt = DOMAIN ss
      /\ \A k \in DOMAIN ss \ ended : tt[k] = ss[k]
      /\ \A k \in ended : tt[k].local_port = 0
  BY <1>1, <1>3, <1>5, SweptSockets
<1>10. Calls'
  BY <1>2 DEF Calls
<1>11. ASSUME j # 0
       PROVE  Inv'
  <2>1. tt[j] = ss[j] /\ j \in DOMAIN tt /\ ~tt[j].do_remove /\ tt[j].send # <<>>
    <3>1. j \notin ended
      BY <1>1, <1>4, <1>11
    <3>2. ~ss[j].do_remove
      BY <1>4, <1>11
    <3>. QED
      BY <1>4, <1>9, <1>11, <3>1, <3>2
  <2>2. PICK lg : lg = log' /\ lg = LogSent(log, tt[j].id, Head(tt[j].send))
    BY <1>2, <1>11, <2>1 DEF LogSent
  <2>3. Flow(tt, j, lg, last_id) /\ lg \in [Ids -> LogType]
    BY <1>3, <1>7, <1>8, <2>1, <2>2, SentKeeps
  <2>4. sp'.pc = "sending" /\ sp'.at = j /\ j \in Nat
        /\ sp' = [pc |-> "sending", at |-> j, packet |-> packet] /\ sockets' = tt
    BY <1>2, <1>4, <1>11
  <2>5. inbox' \in Seq(Nat)
    <3>1. PICK echo \in Echoes : inbox' = rest \o echo
      BY <1>2, <1>11
    <3>2. CASE echo = <<>>
      BY <3>1, <3>2
    <3>3. CASE \E port \in PacketPorts : echo = <<port>>
      <4>1. PICK port \in Nat : echo = <<port>>
        BY <3>3, PacketPortType
      <4>. QED
        BY <3>1, <4>1
    <3>. QED
      BY <3>2, <3>3 DEF Echoes
  <2>6. Types'
    BY <1>2, <2>2, <2>3, <2>4, <2>5 DEF Types
  <2>7. Array(sockets, held, bitmap, last_id)'
    BY <1>2, <1>6, <1>7, <2>4
  <2>8. Flow(sockets, InFlight, log, last_id)'
    BY <1>2, <2>2, <2>3, <2>4 DEF InFlight
  <2>9. Sending'
    <3>1. ASSUME NEW k \in DOMAIN tt, tt[k].do_remove
          PROVE  k < j
      <4>1. CASE k \in ended
        BY <1>5, <1>11, <4>1
      <4>2. CASE k \notin ended
        <5>1. ss[k].do_remove
          BY <1>9, <3>1, <4>2
        <5>2. k < i /\ k \in Nat /\ j \in Nat /\ i <= j
          BY <1>3, <1>4, <1>9, <1>11, <5>1
        <5>. QED
          BY <5>2
      <4>. QED
        BY <4>1, <4>2
    <3>. QED
      BY <2>1, <2>4, <3>1 DEF Sending
  <2>. QED
    BY <1>10, <2>6, <2>7, <2>8, <2>9 DEF Inv
<1>12. ASSUME j = 0
       PROVE  Inv'
  <2>1. PICK vv, lg : /\ sockets' = Compact(vv) /\ log' = lg
                      /\ Array(vv, held, b, last_id) /\ Flow(vv, 0, lg, last_id)
                      /\ lg \in [Ids -> LogType]
    <3>1. PICK fits \in BOOLEAN :
             LET to == Delivered(tt, packet, fits)
                 id == tt[to].id
             IN  IF to = 0
                 THEN /\ sockets' = Compact(tt)
                      /\ UNCHANGED log
                 ELSE /\ sockets' = Compact([tt EXCEPT ![to].recv =
                                          Append(@, log[id].delivered + 1)])
                      /\ log' = [log EXCEPT ![id].delivered = @ + 1]
      BY <1>2, <1>12
    <3>2. PICK to : to = Delivered(tt, packet, fits)
      OBVIOUS
    <3>3. CASE to = 0
      <4>1. sockets' = Compact(tt) /\ log' = log
        BY <3>1, <3>2, <3>3
      <4>. QED
        BY <1>3, <1>7, <1>8, <4>1
    <3>4. CASE to # 0
      <4>1. to \in DOMAIN tt /\ tt[to].local_port # 0
        BY <1>9, <3>2, <3>4, DeliveredFound
      <4>2. PICK vv, lg : /\ vv = Received(tt, to, log[tt[to].id].delivered + 1)
                          /\ lg = LogReceived(log, tt[to].id)
        OBVIOUS
      <4>3. sockets' = Compact(vv) /\ log' = lg
        BY <3>1, <3>2, <3>4, <4>2, Zenon DEF Received, LogReceived
      <4>4. Array(vv, held, b, last_id) /\ Flow(vv, 0, lg, last_id) /\ lg \in [Ids -> LogType]
        BY <1>3, <1>7, <1>8, <4>1, <4>2, ReceivedKeeps
      <4>. QED
        BY <4>3, <4>4
    <3>. QED
      BY <3>3, <3>4
  <2>2. PICK uu : uu = Compact(vv) /\ uu = sockets'
    BY <2>1
  <2>3. Array(uu, held, b, last_id) /\ \A k \in DOMAIN uu : ~uu[k].do_remove
    BY <2>1, <2>2, CompactArray
  <2>4. Flow(uu, 0, lg, last_id)
    BY <2>1, <2>2, CompactFlow
  <2>5. /\ sp' = [pc |-> IF packet = NoPacket THEN "timed" ELSE "running",
                  at |-> 0, packet |-> NoPacket]
        /\ inbox' = rest
    BY <1>2, <1>12
  <2>6. Types'
    BY <1>2, <2>1, <2>5 DEF Types, NoPacket
  <2>7. sp'.pc # "sending"
    BY <2>5
  <2>8. Array(sockets, held, bitmap, last_id)'
    BY <1>2, <1>6, <2>2, <2>3
  <2>9. Flow(sockets, InFlight, log, last_id)'
    BY <1>2, <2>1, <2>2, <2>4, <2>7 DEF InFlight
  <2>10. Sending'
    BY <2>2, <2>3, <2>7 DEF Sending
  <2>. QED
    BY <1>10, <2>6, <2>8, <2>9, <2>10 DEF Inv
<1>. QED
  BY <1>11, <1>12

\* The loop of socket_process keeps the invariant.
LEMMA TickStartInv ==
    ASSUME Inv, TickStart
    PROVE  Inv'
<1>1. /\ sp.pc # "sending" /\ InFlight = 0
      /\ \A k \in DOMAIN sockets : ~sockets[k].do_remove
  BY DEF TickStart, Inv, Sending, InFlight
<1>2. /\ Types /\ Calls /\ Array(sockets, held, bitmap, last_id)
      /\ Flow(sockets, 0, log, last_id)
  BY <1>1 DEF Inv
<1>3. CASE sockets = <<>>
  <2>1. /\ sp' = [sp EXCEPT !.pc = "forever"]
        /\ UNCHANGED <<sockets, last_id, bitmap, held, call, inbox, alive, log>>
    BY <1>3 DEF TickStart
  <2>2. /\ sp' \in [pc : {"timed", "forever", "woken", "running", "sending"}, at : Nat, packet : Int]
        /\ sp'.pc # "sending"
    BY <1>2, <2>1 DEF Types
  <2>3. Types'
    BY <1>2, <2>1, <2>2 DEF Types
  <2>4. InFlight' = 0 /\ Sending'
    BY <1>1, <2>1, <2>2 DEF InFlight, Sending
  <2>5. Array(sockets, held, bitmap, last_id)' /\ Flow(sockets, InFlight, log, last_id)'
    BY <1>2, <2>1, <2>4
  <2>6. Calls'
    BY <1>2, <2>1 DEF Calls
  <2>. QED
    BY <2>3, <2>4, <2>5, <2>6 DEF Inv
<1>4. CASE sockets # <<>>
  <2>1. PICK packet \in Int, rest \in Seq(Nat) : Tick(sockets, 1, packet, rest)
    <3>1. CASE inbox = <<>>
      <4>1. Tick(sockets, 1, NoPacket, <<>>)
        BY <1>4, <3>1 DEF TickStart
      <4>2. NoPacket \in Int /\ <<>> \in Seq(Nat)
        BY DEF NoPacket
      <4>. QED
        BY <4>1, <4>2
    <3>2. CASE inbox # <<>>
      <4>1. Tick(sockets, 1, Head(inbox), Tail(inbox))
        BY <1>4, <3>2 DEF TickStart
      <4>2. Head(inbox) \in Int /\ Tail(inbox) \in Seq(Nat)
        BY <1>2, <3>2 DEF Types
      <4>. QED
        BY <4>1, <4>2
    <3>. QED
      BY <3>1, <3>2
  <2>2. \A k \in DOMAIN sockets : sockets[k].do_remove => k < 1
    BY <1>1
  <2>. QED
    BY <1>2, <2>1, <2>2, TickInv
<1>. QED
  BY <1>3, <1>4

\* The card has sent the first packet of socket at.
WithShifted(ss, at) == [ss EXCEPT ![at].send = Shifted(@)]

\* The first packet leaves the queue it is still in when the card has sent it.
LEMMA ShiftedKeeps ==
    ASSUME NEW ss, NEW h, NEW b, NEW n, NEW lg, NEW at \in DOMAIN ss,
           Array(ss, h, b, n), Flow(ss, at, lg, n), ~ss[at].do_remove, ss[at].send # <<>>,
           NEW tt, tt = WithShifted(ss, at)
    PROVE  /\ Array(tt, h, b, n)
           /\ Flow(tt, 0, lg, n)
           /\ DOMAIN tt = DOMAIN ss
           /\ \A k \in DOMAIN ss : tt[k].do_remove => ss[k].do_remove
<1>1. ss \in Seq(SocketType) /\ ss[at] \in SocketType
  BY DEF Array
<1>2. PICK w : w = Tail(ss[at].send)
  OBVIOUS
<1>3. w \in Seq(Nat)
  <2>1. ss[at].send \in Seq(Nat)
    BY <1>1 DEF SocketType
  <2>. QED
    BY <1>2, <2>1
<1>4. PICK s : s = [ss[at] EXCEPT !.send = w]
  OBVIOUS
<1>5. /\ s \in SocketType /\ s.id = ss[at].id /\ s.ref_count = ss[at].ref_count
      /\ s.local_port = ss[at].local_port /\ s.send = w /\ s.recv = ss[at].recv
  BY <1>1, <1>3, <1>4 DEF SocketType
<1>6. s.do_remove = ss[at].do_remove
  BY <1>1, <1>4 DEF SocketType
<1>7. PICK uu : uu = tt /\ uu = [ss EXCEPT ![at] = s]
  BY <1>2, <1>4 DEF Shifted, WithShifted
<1>8. /\ uu \in Seq(SocketType) /\ Len(uu) = Len(ss) /\ DOMAIN uu = DOMAIN ss
      /\ uu[at] = s
      /\ \A k \in DOMAIN ss \ {at} : uu[k] = ss[k]
  BY <1>1, <1>5, <1>7
<1>9. Array(uu, h, b, n)
  <2>1. \A k \in DOMAIN ss : SameButQueues(ss[k], uu[k])
    BY <1>5, <1>6, <1>8 DEF SameButQueues
  <2>. QED
    BY <1>8, <2>1, QueuesChange
<1>10. Flow(uu, 0, lg, n)
  <2>1. at # 0
    BY <1>1
  <2>2. /\ lg[ss[at].id].wire \o w = Upto(lg[ss[at].id].accepted)
        /\ lg[ss[at].id].read \o ss[at].recv = Upto(lg[ss[at].id].delivered)
    BY <1>2 DEF Flow
  <2>3. /\ lg[ss[at].id].wire \o (IF at = 0 THEN Tail(uu[at].send) ELSE uu[at].send)
              = Upto(lg[ss[at].id].accepted)
        /\ lg[ss[at].id].read \o uu[at].recv = Upto(lg[ss[at].id].delivered)
    BY <1>5, <1>8, <2>1, <2>2
  <2>4. /\ \A k \in DOMAIN ss : SameSocket(ss[k], uu[k])
        /\ \A k \in DOMAIN ss \ {at} : /\ uu[k].send = ss[k].send /\ uu[k].recv = ss[k].recv
                                       /\ k = at <=> k = 0
    <3>1. \A k \in DOMAIN ss : k # 0
      BY <1>1
    <3>. QED
      BY <1>5, <1>6, <1>8, <3>1 DEF SameSocket
  <2>. QED
    BY <1>8, <2>3, <2>4, FlowOne
<1>11. \A k \in DOMAIN ss : uu[k].do_remove => ss[k].do_remove
  BY <1>6, <1>8
<1>. QED
  BY <1>7, <1>8, <1>9, <1>10, <1>11

\* socket_tick after eth_send has slept keeps the invariant.
LEMMA TickResumeInv ==
    ASSUME Inv, TickResume
    PROVE  Inv'
<1>1. PICK at, tt : at = sp.at /\ tt = WithShifted(sockets, at)
  OBVIOUS
<1>2. /\ sp.pc = "sending" /\ Tick(tt, at + 1, sp.packet, inbox)
      /\ at \in Nat /\ sp.packet \in Int /\ inbox \in Seq(Nat)
      /\ at \in DOMAIN sockets /\ sockets[at].send # <<>>
      /\ \A k \in DOMAIN sockets : sockets[k].do_remove => k < at
      /\ Types /\ Calls /\ Array(sockets, held, bitmap, last_id)
      /\ Flow(sockets, at, log, last_id)
  BY <1>1 DEF TickResume, Inv, Types, Sending, InFlight, WithShifted
<1>3. ~sockets[at].do_remove
  BY <1>2
<1>4. /\ Array(tt, held, bitmap, last_id)
      /\ Flow(tt, 0, log, last_id)
      /\ DOMAIN tt = DOMAIN sockets
      /\ \A k \in DOMAIN sockets : tt[k].do_remove => sockets[k].do_remove
  BY <1>1, <1>2, <1>3, ShiftedKeeps
<1>5. \A k \in DOMAIN tt : tt[k].do_remove => k < at + 1
  <2>1. \A k \in DOMAIN sockets : k \in Nat
    BY <1>2 DEF Array
  <2>. QED
    BY <1>2, <1>4, <2>1
<1>6. at + 1 \in Nat \ {0}
  BY <1>2
<1>. QED
  BY <1>2, <1>4, <1>5, <1>6, TickInv
-----------------------------------------------------------------------------
(* The theorems                                                            *)

\* The invariant holds at the start.
LEMMA InitInv == ASSUME Init PROVE Inv
<1>1. Types
  <2>1. [accepted |-> 0, wire |-> <<>>, delivered |-> 0, read |-> <<>>] \in LogType
    BY DEF LogType
  <2>2. [pc |-> "woken", at |-> 0, packet |-> NoPacket]
            \in [pc : {"timed", "forever", "woken", "running", "sending"}, at : Nat, packet : Int]
    BY DEF NoPacket
  <2>. QED
    BY <2>1, <2>2 DEF Init, Types, NoCall
<1>2. InFlight = 0
  BY DEF Init, InFlight
<1>3. Array(sockets, held, bitmap, last_id)
  <2>1. Locked(<<>>) = {}
    BY DEF Locked
  <2>. QED
    BY <2>1 DEF Init, Array
<1>4. Flow(sockets, InFlight, log, last_id)
  <2>1. <<>> = Upto(0)
    BY DEF Upto
  <2>2. \A id \in Ids : log[id] = NoLog /\ NoLog.wire = <<>> /\ NoLog.accepted = 0
    BY DEF Init, NoLog
  <2>3. DOMAIN sockets = {}
    BY DEF Init
  <2>. QED
    BY <2>1, <2>2, <2>3 DEF Flow
<1>5. Sending /\ Calls
  BY DEF Init, Sending, Calls, NoCall
<1>. QED
  BY <1>1, <1>3, <1>4, <1>5 DEF Inv

\* Every step keeps the invariant.
LEMMA NextInv == ASSUME Inv, [Next]_vars PROVE Inv'
<1>1. ASSUME NEW p \in Procs, Open(p) PROVE Inv'
  BY <1>1, OpenInv
<1>2. ASSUME NEW p \in Procs, SendWake(p) \/ \E id \in Ids : Send(p, id) PROVE Inv'
  BY <1>2, SendInv
<1>3. ASSUME NEW p \in Procs, RecvWake(p) \/ \E id \in Ids : Recv(p, id) PROVE Inv'
  BY <1>3, RecvInv
<1>4. ASSUME NEW p \in Procs, Die(p) PROVE Inv'
  BY <1>4, DieInv
<1>5. ASSUME NEW p \in Procs, NEW q \in Procs, Fork(p, q) PROVE Inv'
  BY <1>5, ForkInv
<1>6. ASSUME NEW p \in Procs, NEW id \in Ids, Close(p, id) PROVE Inv'
  BY <1>6, CloseInv
<1>7. ASSUME NEW p \in Procs, NEW id \in Ids,
             BindAny(p, id) \/ \E port \in Asked : BindTo(p, id, port)
      PROVE  Inv'
  BY <1>7, BindInv
<1>8. ASSUME NEW port \in PacketPorts \cup {0}, Arrive(port) PROVE Inv'
  BY <1>8, ArriveInv
<1>9. CASE TickStart
  BY <1>9, TickStartInv
<1>10. CASE TickResume
  BY <1>10, TickResumeInv
<1>11. CASE UNCHANGED vars
  <2>1. UNCHANGED <<sockets, last_id, bitmap, held, call, inbox, sp, alive, log>>
    BY <1>11 DEF vars
  <2>2. Types' /\ InFlight' = InFlight /\ Sending' /\ Calls'
    BY <2>1 DEF Inv, Types, InFlight, Sending, Calls
  <2>3. Array(sockets, held, bitmap, last_id)' /\ Flow(sockets, InFlight, log, last_id)'
    BY <2>1, <2>2 DEF Inv
  <2>. QED
    BY <2>2, <2>3 DEF Inv
<1>. QED
  BY <1>1, <1>2, <1>3, <1>4, <1>5, <1>6, <1>7, <1>8, <1>9, <1>10, <1>11 DEF Next

\* The socket that a process holds, and what is left of the others.
LEMMA HeldSocket ==
    ASSUME Inv, NEW id \in Ids
    PROVE  /\ Holders(id) = Count(held, id) /\ Holders(id) \in Nat
           /\ Holders(id) > 0 => \E i \in InArray(id) : InArray(id) = {i}
           /\ \A i, j \in InArray(id) : i = j
<1>1. Holders(id) = Count(held, id) /\ Holders(id) \in Nat
  BY CountType DEF Holders, Count
<1>2. \A i, j \in InArray(id) : i = j
  BY DEF Inv, Array, InArray
<1>3. ASSUME Holders(id) > 0
      PROVE  \E i \in InArray(id) : InArray(id) = {i}
  <2>1. PICK p \in Procs : id \in held[p]
    BY <1>1, <1>3, CountType
  <2>2. IndexOf(id) \in InArray(id)
    BY <2>1, Found DEF InArray
  <2>. QED
    BY <1>2, <2>2
<1>. QED
  BY <1>1, <1>2, <1>3

\* SocketLives follows from the invariant.
LEMMA InvLives == ASSUME Inv PROVE SocketLives
<1>1. ASSUME NEW id \in Ids,
             Holders(id) > 0 \/ \E p \in Procs : call[p].op # "none" /\ call[p].id = id
      PROVE  Cardinality(InArray(id)) = 1 /\ Holders(id) > 0
  <2>1. Holders(id) > 0
    <3>1. CASE \E p \in Procs : call[p].op # "none" /\ call[p].id = id
      <4>1. \E p \in Procs : id \in held[p]
        BY <3>1 DEF Inv, Calls
      <4>2. Count(held, id) # 0
        BY <4>1, CountType
      <4>. QED
        BY <4>2, HeldSocket
    <3>. QED
      BY <1>1, <3>1
  <2>2. PICK i \in InArray(id) : InArray(id) = {i}
    BY <2>1, HeldSocket
  <2>. QED
    BY <2>1, <2>2, FS_Singleton
<1>2. ASSUME NEW id \in Ids, NEW i \in InArray(id)
      PROVE  sockets[i].ref_count = Holders(id)
  <2>1. i \in DOMAIN sockets /\ sockets[i].id = id /\ ~sockets[i].do_remove
    BY DEF InArray
  <2>2. sockets[i].ref_count = Count(held, id)
    BY <2>1 DEF Inv, Array
  <2>. QED
    BY <2>2, HeldSocket
<1>3. bitmap = {htons(sockets[i].local_port) :
                    i \in {k \in DOMAIN sockets : sockets[k].local_port # 0}}
  BY DEF Inv, Array, Locked
<1>. QED
  BY <1>1, <1>2, <1>3, Zenon DEF SocketLives

\* QueuesFifo follows from the invariant.
LEMMA InvFifo == ASSUME Inv PROVE QueuesFifo
<1>. SUFFICES ASSUME NEW id \in Ids
              PROVE  /\ log[id].wire \o InQueue(id, "send") = Upto(log[id].accepted)
                     /\ Holders(id) > 0
                           => log[id].read \o InQueue(id, "recv") = Upto(log[id].delivered)
  BY DEF QueuesFifo
<1>1. CASE InArray(id) = {}
  <2>1. \A i \in DOMAIN sockets : sockets[i].id = id => sockets[i].do_remove
    BY <1>1 DEF InArray
  <2>2. log[id].wire = Upto(log[id].accepted)
    BY <2>1 DEF Inv, Flow
  <2>3. log[id].wire \in Seq(Nat)
    BY DEF Inv, Types, LogType
  <2>4. InQueue(id, "send") = <<>>
    BY <1>1 DEF InQueue
  <2>5. log[id].wire \o <<>> = log[id].wire
    BY <2>3
  <2>6. ~ (Holders(id) > 0)
    BY <1>1, HeldSocket
  <2>. QED
    BY <2>2, <2>4, <2>5, <2>6
<1>2. CASE InArray(id) # {}
  <2>1. PICK i \in InArray(id) : i = CHOOSE k \in InArray(id) : TRUE
    BY <1>2
  <2>2. i \in DOMAIN sockets /\ sockets[i].id = id /\ ~sockets[i].do_remove
    BY DEF InArray
  <2>3. i # 0
    BY <2>2 DEF Inv, Array
  <2>4. /\ log[id].wire \o (IF i = InFlight THEN Tail(sockets[i].send) ELSE sockets[i].send)
              = Upto(log[id].accepted)
        /\ log[id].read \o sockets[i].recv = Upto(log[id].delivered)
    BY <2>2 DEF Inv, Flow
  <2>5. i = InFlight <=> sp.pc = "sending" /\ sp.at = i
    BY <2>3 DEF InFlight
  <2>6. InQueue(id, "send") = IF i = InFlight THEN Tail(sockets[i].send) ELSE sockets[i].send
    BY <1>2, <2>1, <2>5 DEF InQueue
  <2>7. InQueue(id, "recv") = sockets[i].recv
    BY <1>2, <2>1 DEF InQueue
  <2>. QED
    BY <2>4, <2>6, <2>7
<1>. QED
  BY <1>1, <1>2

\* The array of sockets agrees with the descriptors, the locked ports and the
\* calls asleep, and the queues with what was accepted, sent and delivered,
\* in every state, whatever the order of calls, forks, deaths and ticks.
THEOREM Invariant == Spec => []Inv
<1>1. Init => Inv
  BY InitInv
<1>2. Inv /\ [Next]_vars => Inv'
  BY NextInv
<1>. QED
  BY <1>1, <1>2, PTL DEF Spec

\* A socket with a descriptor, or that a sleeping sendto or recvfrom will look
\* at, is in the array once and not freed, its count is that of its
\* descriptors, and a port is locked exactly as long as its socket is there
\* (tick.c, close.c, fd.c, recvfrom.c).
THEOREM SocketsAlwaysLive == Spec => []SocketLives
<1>1. Inv => SocketLives
  BY InvLives
<1>. QED
  BY <1>1, Invariant, PTL

\* What sendto accepts goes to the card once and in order, also while the card
\* is busy with another packet and after the close; what a socket is given is
\* read once and in order (udp.c, tick.c, recvfrom.c).
THEOREM QueuesAlwaysFifo == Spec => []QueuesFifo
<1>1. Inv => QueuesFifo
  BY InvFifo
<1>. QED
  BY <1>1, Invariant, PTL
=============================================================================
