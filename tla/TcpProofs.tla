------------------------------ MODULE TcpProofs ------------------------------
(***************************************************************************)
(* Proofs about the TCP client, for every word size, every two first       *)
(* numbers and streams of every length: both streams arrive in order and   *)
(* once, over a network that loses, repeats, delays and reorders, when the *)
(* streams are shorter than the word (SizeAssumption).                     *)
(***************************************************************************)
EXTENDS Tcp, SequenceTheorems, TLAPS

-----------------------------------------------------------------------------
(* Numbers modulo Word                                                     *)

\* What % is on the numbers at hand.
LEMMA ModUp ==
    ASSUME NEW w \in Nat, NEW x \in Nat, x < 2 * w
    PROVE  x % w = IF x < w THEN x ELSE x - w
BY SMT

LEMMA ModDown ==
    ASSUME NEW w \in Nat, NEW x \in Int, x < w, x >= -w
    PROVE  x % w = IF x >= 0 THEN x ELSE x + w
BY SMT

Seqs == 0 .. Word - 1

LEMMA SeqsInt ==
    /\ Word \in Nat
    /\ \A f \in Seqs : f \in Nat /\ f < Word
    /\ \A f \in Nat : f < Word => f \in Seqs
BY SizeAssumption DEF Seqs

LEMMA PlusValue ==
    ASSUME NEW f \in Seqs, NEW n \in Seqs
    PROVE  Plus(f, n) = IF f + n < Word THEN f + n ELSE f + n - Word
<1> DEFINE x == f + n
<1>1. x \in Nat /\ x < 2 * Word /\ Word \in Nat
  BY SeqsInt
<1> HIDE DEF x
<1>2. x % Word = IF x < Word THEN x ELSE x - Word
  BY <1>1, ModUp
<1>3. Plus(f, n) = x % Word
  BY DEF Plus, x
<1>4. Plus(f, n) = IF x < Word THEN x ELSE x - Word
  BY <1>2, <1>3
<1> QED BY <1>4, SeqsInt DEF x

\* A number past the first stays one (uint32_t).
LEMMA PlusSeqs ==
    ASSUME NEW f \in Seqs, NEW n \in Nat
    PROVE  Plus(f, n) \in Seqs
BY SizeAssumption, SMT DEF Plus, Seqs

\* Two numbers less than Word apart from the first are different.
LEMMA WrapInjective ==
    ASSUME NEW w \in Nat, NEW f \in 0 .. w - 1, NEW n \in 0 .. w - 1, NEW k \in 0 .. w - 1,
           (IF f + n < w THEN f + n ELSE f + n - w) = (IF f + k < w THEN f + k ELSE f + k - w)
    PROVE  n = k
BY SMT

LEMMA PlusInjective ==
    ASSUME NEW f \in Seqs, NEW n \in Seqs, NEW k \in Seqs, Plus(f, n) = Plus(f, k)
    PROVE  n = k
<1>1. (IF f + n < Word THEN f + n ELSE f + n - Word) = (IF f + k < Word THEN f + k ELSE f + k - Word)
  BY PlusValue
<1> QED BY <1>1, SeqsInt, WrapInjective DEF Seqs

LEMMA WrapWrap ==
    ASSUME NEW w \in Nat, NEW f \in 0 .. w - 1, NEW n \in Nat, NEW k \in Nat, n + k < w,
           NEW g \in Nat, g = (IF f + n < w THEN f + n ELSE f + n - w)
    PROVE  (IF g + k < w THEN g + k ELSE g + k - w)
             = (IF f + (n + k) < w THEN f + (n + k) ELSE f + (n + k) - w)
BY SMT

LEMMA PlusPlus ==
    ASSUME NEW f \in Seqs, NEW n \in Nat, NEW k \in Nat, n + k < Word
    PROVE  Plus(Plus(f, n), k) = Plus(f, n + k)
<1> DEFINE g == Plus(f, n)
           m == n + k
<1>1. n \in Seqs /\ k \in Seqs /\ m \in Seqs
  BY SeqsInt
<1>2. g \in Seqs
  BY PlusSeqs
<1>3. g = IF f + n < Word THEN f + n ELSE f + n - Word
  BY <1>1, PlusValue
<1>4. Plus(f, m) = IF f + m < Word THEN f + m ELSE f + m - Word
  <2> HIDE DEF m
  <2> QED BY <1>1, PlusValue
<1> HIDE DEF g
<1>5. Plus(g, k) = IF g + k < Word THEN g + k ELSE g + k - Word
  BY <1>1, <1>2, PlusValue
<1>6. Plus(g, k) = Plus(f, m)
  BY <1>1, <1>2, <1>3, <1>4, <1>5, SeqsInt, WrapWrap DEF Seqs
<1> QED BY <1>6 DEF g

LEMMA PlusMinus ==
    ASSUME NEW f \in Seqs, NEW n \in Seqs
    PROVE  (Plus(f, n) - f) % Word = n
<1>1. Plus(f, n) - f = n \/ Plus(f, n) - f = n - Word
  BY PlusValue, SizeAssumption DEF Seqs
<1>2. CASE Plus(f, n) - f = n
  BY <1>2, SizeAssumption, ModDown DEF Seqs
<1>3. CASE Plus(f, n) - f = n - Word
  <2> DEFINE x == n - Word
  <2>1. x \in Int /\ x < Word /\ x >= -Word /\ Word \in Nat /\ (x >= 0 => x = n) /\ x + Word = n
    BY SizeAssumption DEF Seqs
  <2>2. x < 0
    BY SizeAssumption DEF Seqs
  <2> HIDE DEF x
  <2>3. x % Word = n
    BY <2>1, <2>2, ModDown
  <2> QED BY <1>3, <2>3 DEF x
<1> QED BY <1>1, <1>2, <1>3

-----------------------------------------------------------------------------
(* Runs of bytes                                                           *)

LEMMA RunSeq ==
    ASSUME NEW i \in Nat, NEW j \in Nat, i >= 1, i <= j + 1
    PROVE  /\ Run(i, j) \in Seq(Nat)
           /\ Len(Run(i, j)) = j - i + 1
           /\ \A k \in 1 .. j - i + 1 : Run(i, j)[k] = i + k - 1
<1>1. j - i + 1 \in Nat
  OBVIOUS
<1>2. Run(i, j) \in [1 .. j - i + 1 -> Nat]
  BY DEF Run
<1> QED BY <1>1, <1>2 DEF Run

\* A sequence is a run when it has its length and its bytes.
LEMMA IsRun ==
    ASSUME NEW i \in Nat, NEW j \in Nat, i >= 1, i <= j + 1, NEW s \in Seq(Nat),
           Len(s) = j - i + 1, \A k \in 1 .. j - i + 1 : s[k] = i + k - 1
    PROVE  s = Run(i, j)
<1>1. Run(i, j) \in Seq(Nat) /\ Len(Run(i, j)) = Len(s)
  BY RunSeq
<1>2. \A k \in 1 .. Len(s) : s[k] = Run(i, j)[k]
  BY RunSeq
<1> QED BY <1>1, <1>2, SeqEqual

\* A run continued.
LEMMA RunConcat ==
    ASSUME NEW i \in Nat, NEW n \in Nat, NEW j \in Nat, i >= 1, i <= n + 1, n <= j
    PROVE  Run(i, n) \o Run(n + 1, j) = Run(i, j)
<1> DEFINE a == Run(i, n)
           b == Run(n + 1, j)
           c == a \o b
           l == n - i + 1
<1>1. l \in Nat /\ a \in Seq(Nat) /\ Len(a) = l /\ \A k \in 1 .. l : a[k] = i + k - 1
  BY RunSeq
<1>2. b \in Seq(Nat) /\ Len(b) = j - n /\ \A k \in 1 .. j - n : b[k] = n + k
  <2> DEFINE m == n + 1
  <2>1. m \in Nat /\ m >= 1 /\ m <= j + 1 /\ j - m + 1 = j - n /\ m = n + 1
    OBVIOUS
  <2> HIDE DEF m
  <2>2. Run(m, j) \in Seq(Nat) /\ Len(Run(m, j)) = j - m + 1
        /\ \A k \in 1 .. j - m + 1 : Run(m, j)[k] = m + k - 1
    BY <2>1, RunSeq
  <2>3. \A k \in 1 .. j - n : m + k - 1 = n + k
    BY <2>1
  <2>4. b = Run(m, j)
    BY <2>1
  <2> HIDE DEF b
  <2> QED BY <2>1, <2>2, <2>3, <2>4
<1> HIDE DEF a, b
<1>3. /\ c \in Seq(Nat)
      /\ Len(c) = Len(a) + Len(b)
      /\ \A k \in 1 .. Len(a) + Len(b) :
             c[k] = IF k <= Len(a) THEN a[k] ELSE b[k - Len(a)]
  BY <1>1, <1>2, ConcatProperties
<1> HIDE DEF c
<1>4. ASSUME NEW k \in 1 .. j - i + 1
      PROVE  c[k] = i + k - 1
  <2>1. k \in 1 .. Len(a) + Len(b)
    BY <1>1, <1>2
  <2>2. CASE k <= l
    BY <1>1, <1>3, <2>1, <2>2
  <2>3. CASE k > l
    <3>1. c[k] = b[k - l]
      BY <1>1, <1>3, <2>1, <2>3
    <3>2. k - l \in 1 .. j - n /\ n + (k - l) = i + k - 1
      BY <1>1, <2>3
    <3> QED BY <1>2, <3>1, <3>2
  <2> QED BY <1>1, <2>2, <2>3
<1>5. Len(c) = j - i + 1
  BY <1>1, <1>2, <1>3
<1>6. i <= j + 1
  OBVIOUS
<1>7. c = Run(i, j)
  BY <1>3, <1>4, <1>5, <1>6, IsRun
<1> QED BY <1>7 DEF a, b, c

\* A part of a run, and the rest of it.
LEMMA RunPart ==
    ASSUME NEW i \in Nat, NEW j \in Nat, i >= 1, i <= j + 1, NEW n \in Nat
    PROVE  /\ n <= j - i + 1 => SubSeq(Run(i, j), 1, n) = Run(i, i + n - 1)
           /\ n <= j - i + 1 => SubSeq(Run(i, j), n + 1, j - i + 1) = Run(i + n, j)
           /\ n > j - i + 1 => SubSeq(Run(i, j), n + 1, j - i + 1) = <<>>
<1> DEFINE a == Run(i, j)
<1>1. a \in Seq(Nat) /\ Len(a) = j - i + 1 /\ \A k \in 1 .. j - i + 1 : a[k] = i + k - 1
  BY RunSeq
<1> HIDE DEF a
<1>2. CASE n <= j - i + 1
  <2> DEFINE l == SubSeq(a, 1, n)
             r == SubSeq(a, n + 1, j - i + 1)
  <2>1. l \in Seq(Nat) /\ Len(l) = n /\ \A k \in 1 .. n : l[k] = a[k]
    BY <1>1, <1>2, SubSeqProperties
  <2>2. r \in Seq(Nat) /\ Len(r) = j - i + 1 - n /\ \A k \in 1 .. j - i + 1 - n : r[k] = a[n + k]
    <3> DEFINE m == n + 1
               e == j - i + 1
    <3>1. m \in Int /\ e \in Int /\ \A k \in m .. e : a[k] \in Nat
      BY <1>1
    <3>2. r = SubSeq(a, m, e)
      OBVIOUS
    <3>3. e - m + 1 = j - i + 1 - n /\ m <= e + 1 /\ m - 1 = n
      BY <1>2
    <3> HIDE DEF m, e, r
    <3>4. /\ r \in Seq(Nat)
          /\ Len(r) = IF m <= e THEN e - m + 1 ELSE 0
          /\ \A k \in 1 .. e - m + 1 : r[k] = a[m + k - 1]
      BY <3>1, <3>2, SubSeqProperties
    <3>5. \A k \in 1 .. e - m + 1 : r[k] = a[n + k]
      <4> SUFFICES ASSUME NEW k \in 1 .. e - m + 1 PROVE r[k] = a[n + k]
        OBVIOUS
      <4>1. m + k - 1 = n + k
        BY <3>1, <3>3
      <4> QED BY <3>4, <4>1
    <3>6. Len(r) = e - m + 1
      BY <3>1, <3>3, <3>4
    <3> QED BY <3>3, <3>4, <3>5, <3>6
  <2> HIDE DEF l, r
  <2>3. \A k \in 1 .. n : l[k] = i + k - 1
    <3> SUFFICES ASSUME NEW k \in 1 .. n PROVE l[k] = i + k - 1
      OBVIOUS
    <3>1. k \in 1 .. j - i + 1
      BY <1>2
    <3>2. l[k] = a[k] /\ a[k] = i + k - 1
      BY <1>1, <2>1, <3>1
    <3> QED BY <3>2
  <2>4. \A k \in 1 .. j - i + 1 - n : r[k] = (i + n) + k - 1
    <3> SUFFICES ASSUME NEW k \in 1 .. j - i + 1 - n PROVE r[k] = (i + n) + k - 1
      OBVIOUS
    <3>1. n + k \in 1 .. j - i + 1 /\ i + (n + k) - 1 = (i + n) + k - 1
      BY <1>2
    <3> QED BY <1>1, <2>2, <3>1
  <2>5. l = Run(i, i + n - 1)
    <3>1. i + n - 1 \in Nat /\ i <= (i + n - 1) + 1 /\ Len(l) = (i + n - 1) - i + 1 /\ n = (i + n - 1) - i + 1
      BY <2>1
    <3> QED BY <2>1, <2>3, <3>1, IsRun
  <2>6. r = Run(i + n, j)
    <3>1. i + n \in Nat /\ i + n >= 1 /\ i + n <= j + 1 /\ Len(r) = j - (i + n) + 1
          /\ j - i + 1 - n = j - (i + n) + 1
      BY <1>2, <2>2
    <3> QED BY <2>2, <2>4, <3>1, IsRun
  <2> QED BY <1>2, <2>5, <2>6 DEF l, r, a
<1>3. CASE n > j - i + 1
  BY <1>1, <1>3, SubSeqEmpty DEF a
<1> QED BY <1>2, <1>3
-----------------------------------------------------------------------------
(* The invariants                                                          *)

Packets == [kind : {"SYN", "SYNACK", "ACK", "FIN"}, seq : Seqs, ack : Seqs, data : Seq(Nat)]

Clients == [pc : {"new", "connect", "gone", "app", "send", "recv", "fin", "close"},
            op : {"app", "send", "recv"}, is_open : BOOLEAN,
            send_next : Seqs, recv_first : Seqs, recv_next : Seqs,
            is_waiting_seq : BOOLEAN, seq_to_wait : Seqs, tries : Nat,
            segment : Seq(Nat), rest : Seq(Nat), buffer : Seq(Nat), fin : Seq(Packets),
            given : 0 .. NOut, returned : 0 .. NOut, failed : BOOLEAN, eof : BOOLEAN,
            draining : BOOLEAN]

Peers == [st : {"listen", "syn_received", "established", "closed"}, rcv_next : Seqs,
          got : Seq(Nat), una : 0 .. NIn + 2, nxt : 0 .. NIn + 2]

\* Numbers stay in their width, counts within the streams.
TypeOK ==
    /\ client \in Clients
    /\ client.pc = "fin" => Len(client.fin) = 1
    /\ peer \in Peers
    /\ net \in [client : SUBSET Packets, peer : SUBSET Packets]
    /\ read \in Seq(Nat)

\* The peer may take bytes before a for arrived when the client has n of them; its
\* FIN has the number NIn + 1.
Confirmed(a, n) == a <= n + 1 \/ (a = NIn + 2 /\ n = NIn)

\* A packet of the peer has its bytes at their place, and FIN when n is all.
FromPeer(m, n) ==
    \E i \in 0 .. NIn + 2 :
        /\ m.seq = Plus(PeerSeq, i)
        /\ m.kind = "SYNACK" => i = 0
        /\ m.kind = "FIN" => m.data = <<>> /\ n = NIn
        /\ m.data # <<>> => i >= 1 /\ \E j \in i .. NIn : m.data = Run(i, j)

\* A packet of the client acknowledges nothing that it does not have.
AcksRight(m, n) ==
    m.kind # "SYN" => \E a \in 1 .. NIn + 2 : m.ack = Plus(PeerSeq, a) /\ Confirmed(a, n)

Began(c) == c.pc \notin {"new", "connect", "gone"}

\* The stream to the client, at the n bytes it has.
InAt(n) ==
    /\ Received = Run(1, n)
    /\ n \in 0 .. NIn
    /\ IF Began(client) THEN client.recv_next = Plus(PeerSeq, n + 1) ELSE n = 0
    /\ client.eof => n = NIn
    /\ client.pc = "fin" => Head(client.fin).data = <<>> /\ n = NIn
    /\ Confirmed(peer.una, n)
    /\ \A m \in net.client : FromPeer(m, n)
    /\ \A m \in net.peer : AcksRight(m, n)

InInv == TypeOK /\ InAt(Len(Received))

\* No FIN was sent with a segment under way.
Clean(c) == c.pc \in {"new", "connect"} \/ (c.is_open /\ c.pc \notin {"fin", "gone"})

\* A packet of the client has the bytes at their place, and no FIN but from close.
FromClient(m, c) ==
    /\ m.kind = "SYN" => m.seq = FirstSeq
    /\ m.kind = "FIN" => c.pc = "close"
    /\ m.data # <<>> => \E i \in 1 .. NOut : \E j \in i .. NOut :
                            m.seq = Plus(FirstSeq, i) /\ m.data = Run(i, j)

\* A packet of the peer acknowledges at most the n bytes that it has.
AcksGot(m, n) == \E a \in 1 .. n + 1 : m.ack = Plus(FirstSeq, a)

\* The segment at hand of a send, and the bytes after it, when the peer has n.
Sending(c, n) ==
    \E b \in 0 .. NOut : \E e \in b + 1 .. c.given :
        /\ c.send_next = Plus(FirstSeq, b + 1)
        /\ c.segment = Run(b + 1, e)
        /\ c.rest = Run(e + 1, c.given)
        /\ IF c.is_waiting_seq THEN c.seq_to_wait = Plus(FirstSeq, e + 1) ELSE n >= e

ClientAt(c, n) ==
    /\ c.pc = "new" => c.send_next = FirstSeq /\ c.given = 0 /\ ~c.failed
    /\ c.pc \in {"connect", "app", "recv"} /\ ~c.failed => c.send_next = Plus(FirstSeq, c.given + 1)
    /\ c.pc = "connect" => c.given = 0 /\ ~c.failed
    /\ c.pc = "send" => ~c.failed /\ Sending(c, n)

PeerAt(p, n) ==
    /\ p.got = Run(1, n)
    /\ n \in 0 .. NOut
    /\ p.st = "listen" => n = 0
    /\ p.st \in {"syn_received", "established"} => p.rcv_next = Plus(FirstSeq, n + 1)

\* The stream to the peer, at the n bytes it has got.
OutAt(n) ==
    /\ PeerAt(peer, n)
    /\ ClientAt(client, n)
    /\ \A m \in net.peer : FromClient(m, client)
    /\ client.pc # "close" => peer.st # "closed" /\ \A m \in net.client : AcksGot(m, n)

OutInv ==
    /\ TypeOK
    /\ Len(peer.got) >= client.returned
    /\ \A i \in 1 .. client.returned : peer.got[i] = i
    /\ Clean(client) => OutAt(Len(peer.got))
-----------------------------------------------------------------------------
(* The network                                                             *)

Nets == [client : SUBSET Packets, peer : SUBSET Packets]

\* A packet sent is under way at most, and nothing else is that was not.
LEMMA SentToClient ==
    ASSUME NEW n \in Nets, NEW m \in Packets, NEW r \in Sent(n, "client", m)
    PROVE  r \in Nets /\ r.client \subseteq n.client \cup {m} /\ r.peer = n.peer
<1>1. CASE r = n
  BY <1>1
<1>2. CASE r # n
  <2>1. PICK S \in Kept(n.client \ {m}, NetMax["client"]) : r = [n EXCEPT !.client = S \cup {m}]
    BY <1>2 DEF Sent
  <2>2. S \subseteq n.client
    BY <2>1 DEF Kept
  <2> QED BY <2>1, <2>2 DEF Nets
<1> QED BY <1>1, <1>2

LEMMA SentToPeer ==
    ASSUME NEW n \in Nets, NEW m \in Packets, NEW r \in Sent(n, "peer", m)
    PROVE  r \in Nets /\ r.peer \subseteq n.peer \cup {m} /\ r.client = n.client
<1>1. CASE r = n
  BY <1>1
<1>2. CASE r # n
  <2>1. PICK S \in Kept(n.peer \ {m}, NetMax["peer"]) : r = [n EXCEPT !.peer = S \cup {m}]
    BY <1>2 DEF Sent
  <2>2. S \subseteq n.peer
    BY <2>1 DEF Kept
  <2> QED BY <2>1, <2>2 DEF Nets
<1> QED BY <1>1, <1>2

LEMMA ArrivedLess ==
    ASSUME NEW n \in Nets, NEW to \in {"client", "peer"}, NEW m, NEW r \in Arrived(n, to, m)
    PROVE  r \in Nets /\ r.client \subseteq n.client /\ r.peer \subseteq n.peer
BY DEF Arrived, Nets

\* A packet read and its answer.
LEMMA AnswerNet ==
    ASSUME net \in Nets, NEW m, NEW R \in SUBSET Packets, Answer("client", m, "peer", R)
    PROVE  net' \in Nets /\ net'.client \subseteq net.client /\ net'.peer \subseteq net.peer \cup R
<1>1. PICK n \in Arrived(net, "client", m) :
          IF R = {} THEN net' = n ELSE \E r \in R : net' \in Sent(n, "peer", r)
  BY DEF Answer
<1>2. n \in Nets /\ n.client \subseteq net.client /\ n.peer \subseteq net.peer
  BY <1>1, ArrivedLess
<1>3. CASE R = {}
  BY <1>1, <1>2, <1>3
<1>4. CASE R # {}
  <2>1. PICK r \in R : net' \in Sent(n, "peer", r)
    BY <1>1, <1>4
  <2>2. net' \in Nets /\ net'.peer \subseteq n.peer \cup {r} /\ net'.client = n.client
    BY <1>2, <2>1, SentToPeer
  <2> QED BY <1>2, <2>2
<1> QED BY <1>3, <1>4

\* A connection left takes what came for it along.
LEMMA LeaveNet ==
    ASSUME net \in Nets, Leave
    PROVE  net' \in Nets /\ net'.client \subseteq net.client /\ net'.peer = net.peer
BY DEF Leave, Nets

-----------------------------------------------------------------------------
(* What the steps leave                                                    *)

\* A packet of the client.
LEMMA SegmentPacket ==
    ASSUME NEW c \in Clients, NEW k \in {"SYN", "SYNACK", "ACK", "FIN"}, NEW bytes \in Seq(Nat)
    PROVE  /\ Segment(c, k, bytes) \in Packets
           /\ Segment(c, k, bytes).kind = k
           /\ Segment(c, k, bytes).seq = c.send_next
           /\ Segment(c, k, bytes).ack = c.recv_next
           /\ Segment(c, k, bytes).data = bytes
BY DEF Segment, Packet, Packets, Clients

LEMMA ToPeerNet ==
    ASSUME net \in Nets, NEW m \in Packets, ToPeer(m)
    PROVE  net' \in Nets /\ net'.client = net.client /\ net'.peer \subseteq net.peer \cup {m}
BY SentToPeer DEF ToPeer

LEMMA ToClientNet ==
    ASSUME net \in Nets, NEW m \in Packets, ToClient(m)
    PROVE  net' \in Nets /\ net'.peer = net.peer /\ net'.client \subseteq net.client \cup {m}
BY SentToClient DEF ToClient

\* c and d agree on what the stream from the peer is about.
SameIn(c, d) ==
    /\ d.recv_next = c.recv_next
    /\ d.buffer = c.buffer
    /\ d.eof = c.eof

LEMMA TransmittedFields ==
    ASSUME NEW c \in Clients, c.tries > 0
    PROVE  /\ Transmitted(c) \in Clients
           /\ SameIn(c, Transmitted(c))
           /\ Transmitted(c).pc = "send"
           /\ Transmitted(c).is_waiting_seq
           /\ Transmitted(c).seq_to_wait = Plus(c.send_next, Len(c.segment))
           /\ Transmitted(c).send_next = c.send_next
           /\ Transmitted(c).segment = c.segment
           /\ Transmitted(c).rest = c.rest
           /\ Transmitted(c).is_open = c.is_open
           /\ Transmitted(c).given = c.given
           /\ Transmitted(c).returned = c.returned
           /\ Transmitted(c).failed = c.failed
<1>1. Plus(c.send_next, Len(c.segment)) \in Seqs
  BY PlusSeqs DEF Clients
<1>2. c.tries - 1 \in Nat
  BY DEF Clients
<1> QED BY <1>1, <1>2 DEF Transmitted, Clients, SameIn

\* The segment is the first bytes, the rest what follows.
LEMMA LoadedFields ==
    ASSUME NEW c \in Clients, NEW i \in Nat, NEW j \in Nat, i >= 1, i <= j
    PROVE  \E e \in i .. j :
              /\ Loaded(c, Run(i, j)) \in Clients
              /\ SameIn(c, Loaded(c, Run(i, j)))
              /\ Loaded(c, Run(i, j)).pc = "send"
              /\ Loaded(c, Run(i, j)).is_waiting_seq
              /\ Loaded(c, Run(i, j)).seq_to_wait = Plus(c.send_next, e - i + 1)
              /\ Loaded(c, Run(i, j)).send_next = c.send_next
              /\ Loaded(c, Run(i, j)).segment = Run(i, e)
              /\ Loaded(c, Run(i, j)).rest = Run(e + 1, j)
              /\ Loaded(c, Run(i, j)).is_open = c.is_open
              /\ Loaded(c, Run(i, j)).given = c.given
              /\ Loaded(c, Run(i, j)).returned = c.returned
              /\ Loaded(c, Run(i, j)).failed = c.failed
<1> DEFINE l == j - i + 1
           s == Shorter(l)
           e == i + s - 1
           seg == SubSeq(Run(i, j), 1, Shorter(Len(Run(i, j))))
           rest == SubSeq(Run(i, j), MAX_SEGMENT + 1, Len(Run(i, j)))
           d == [c EXCEPT !.segment = seg, !.rest = rest, !.tries = Tries]
<1>1. l \in Nat /\ l >= 1 /\ s \in Nat /\ s >= 1 /\ s <= l /\ e \in i .. j
      /\ (s = MAX_SEGMENT \/ (s = l /\ MAX_SEGMENT > l)) /\ MAX_SEGMENT \in Nat
  BY SizeAssumption DEF Shorter
<1>2. Len(Run(i, j)) = l
  BY RunSeq
<1>3. seg = Run(i, e)
  <2>1. seg = SubSeq(Run(i, j), 1, s)
    BY <1>2
  <2> HIDE DEF s
  <2>2. SubSeq(Run(i, j), 1, s) = Run(i, i + s - 1)
    BY <1>1, RunPart, SMTT(30)
  <2> QED BY <2>1, <2>2
<1>4. rest = Run(e + 1, j)
  <2>1. rest = SubSeq(Run(i, j), MAX_SEGMENT + 1, j - i + 1)
    BY <1>2
  <2>2. CASE s = MAX_SEGMENT
    <3>1. MAX_SEGMENT <= j - i + 1 /\ e + 1 = i + MAX_SEGMENT
      BY <1>1, <2>2
    <3>2. SubSeq(Run(i, j), MAX_SEGMENT + 1, j - i + 1) = Run(i + MAX_SEGMENT, j)
      BY <1>1, <3>1, RunPart
    <3> QED BY <2>1, <3>1, <3>2
  <2>3. CASE s = l /\ MAX_SEGMENT > l
    <3>1. rest = <<>>
      BY <1>1, <2>1, <2>3, RunPart
    <3>2. e + 1 = j + 1
      BY <2>3
    <3>3. Run(j + 1, j) = <<>>
      <4>1. Run(j + 1, j) \in Seq(Nat) /\ Len(Run(j + 1, j)) = j - (j + 1) + 1
        BY RunSeq
      <4> QED BY <4>1, EmptySeq
    <3> QED BY <3>1, <3>2, <3>3
  <2> QED BY <1>1, <2>2, <2>3
<1>5. /\ Run(i, e) \in Seq(Nat)
      /\ Len(Run(i, e)) = e - i + 1
      /\ Run(e + 1, j) \in Seq(Nat)
  <2> HIDE DEF e
  <2>1. e \in Nat /\ i <= e + 1 /\ e + 1 \in Nat /\ e + 1 >= 1 /\ e + 1 <= j + 1
    BY <1>1
  <2> QED BY <2>1, RunSeq
<1>6. /\ d \in Clients
      /\ d.tries > 0
      /\ d.segment = Run(i, e)
      /\ d.rest = Run(e + 1, j)
      /\ SameIn(c, d)
      /\ d.send_next = c.send_next
      /\ d.is_open = c.is_open
      /\ d.given = c.given
      /\ d.returned = c.returned
      /\ d.failed = c.failed
  <2> HIDE DEF seg, rest, e
  <2>1. seg \in Seq(Nat) /\ rest \in Seq(Nat) /\ Tries \in Nat /\ Tries > 0
    BY <1>3, <1>4, <1>5, SizeAssumption
  <2>2. d \in Clients
    BY <2>1 DEF Clients
  <2>3. d.segment = seg /\ d.rest = rest /\ d.tries = Tries
    BY <2>1 DEF Clients
  <2>4. /\ SameIn(c, d)
        /\ d.send_next = c.send_next
        /\ d.is_open = c.is_open
        /\ d.given = c.given
        /\ d.returned = c.returned
        /\ d.failed = c.failed
    BY <2>1 DEF Clients, SameIn
  <2> QED BY <1>3, <1>4, <2>1, <2>2, <2>3, <2>4
<1>7. Loaded(c, Run(i, j)) = Transmitted(d)
  BY DEF Loaded
<1> HIDE DEF d, e
<1>8. Loaded(c, Run(i, j)).seq_to_wait = Plus(c.send_next, e - i + 1)
  BY <1>5, <1>6, <1>7, TransmittedFields
<1>9. SameIn(c, Loaded(c, Run(i, j)))
  BY <1>6, <1>7, TransmittedFields DEF SameIn
<1> QED
  <2>1. Loaded(c, Run(i, j)) \in Clients
    BY <1>6, <1>7, TransmittedFields
  <2>2. /\ Loaded(c, Run(i, j)).pc = "send"
        /\ Loaded(c, Run(i, j)).is_waiting_seq
        /\ Loaded(c, Run(i, j)).send_next = c.send_next
        /\ Loaded(c, Run(i, j)).segment = Run(i, e)
        /\ Loaded(c, Run(i, j)).rest = Run(e + 1, j)
        /\ Loaded(c, Run(i, j)).is_open = c.is_open
        /\ Loaded(c, Run(i, j)).given = c.given
        /\ Loaded(c, Run(i, j)).returned = c.returned
        /\ Loaded(c, Run(i, j)).failed = c.failed
    BY <1>6, <1>7, TransmittedFields
  <2> QED BY <1>1, <1>8, <1>9, <2>1, <2>2

\* ... and of the stream to the peer.
SameOut(c, d) ==
    /\ d.send_next = c.send_next
    /\ d.given = c.given
    /\ d.returned = c.returned
    /\ d.failed = c.failed
    /\ d.is_open = c.is_open

SameSegment(c, d) ==
    /\ d.segment = c.segment
    /\ d.rest = c.rest
    /\ d.is_waiting_seq = c.is_waiting_seq
    /\ d.seq_to_wait = c.seq_to_wait

LEMMA ReturnedFields ==
    ASSUME NEW c \in Clients
    PROVE  /\ Returned(c) \in Clients
           /\ Returned(c).pc = "app"
           /\ SameIn(c, Returned(c))
           /\ SameOut(c, Returned(c))
<1>1. <<>> \in Seq(Nat)
  OBVIOUS
<1>2. Returned(c) \in Clients
  BY <1>1 DEF Returned, Clients
<1>3. SameIn(c, Returned(c)) /\ SameOut(c, Returned(c)) /\ Returned(c).pc = "app"
  BY DEF Returned, Clients, SameIn, SameOut
<1> QED BY <1>2, <1>3

LEMMA AckedFields ==
    ASSUME NEW c \in Clients
    PROVE  /\ Acked(c) \in Clients
           /\ Acked(c).send_next = Plus(c.send_next, Len(c.segment))
           /\ Acked(c).pc = c.pc
           /\ Acked(c).is_open = c.is_open
           /\ Acked(c).given = c.given
           /\ Acked(c).returned = c.returned
           /\ Acked(c).failed = c.failed
           /\ Acked(c).rest = c.rest
           /\ SameIn(c, Acked(c))
<1>1. Plus(c.send_next, Len(c.segment)) \in Seqs
  BY PlusSeqs DEF Clients
<1> QED BY <1>1 DEF Acked, Clients, SameIn

LEMMA AcceptedFields ==
    ASSUME NEW c \in Clients, NEW seq \in Seqs, NEW data \in Seq(Nat)
    PROVE  /\ Accepted(c, seq, data) \in Clients
           /\ Accepted(c, seq, data).pc = c.pc
           /\ Accepted(c, seq, data).fin = c.fin
           /\ Accepted(c, seq, data).eof = c.eof
           /\ SameOut(c, Accepted(c, seq, data))
           /\ SameSegment(c, Accepted(c, seq, data))
           /\ IF data # <<>> /\ seq = c.recv_next
              THEN /\ Accepted(c, seq, data).recv_next = Plus(seq, Len(data))
                   /\ Accepted(c, seq, data).buffer = c.buffer \o data
              ELSE Accepted(c, seq, data) = c
<1>1. Plus(seq, Len(data)) \in Seqs
  BY PlusSeqs
<1>2. c.buffer \o data \in Seq(Nat)
  BY DEF Clients
<1> QED BY <1>1, <1>2, ZenonT(40) DEF Accepted, InOrder, Clients, SameOut, SameSegment

\* The answer to bytes is an acknowledgment of what is there then.
LEMMA RepliesFields ==
    ASSUME NEW c \in Clients, NEW seq \in Seqs, NEW data \in Seq(Nat)
    PROVE  /\ Replies(c, seq, data) \in SUBSET Packets
           /\ \A r \in Replies(c, seq, data) :
                 /\ r.kind = "ACK"
                 /\ r.ack = Accepted(c, seq, data).recv_next
                 /\ r.data = <<>>
<1>1. Accepted(c, seq, data) \in Clients
  BY AcceptedFields
<1>2. <<>> \in Seq(Nat)
  OBVIOUS
<1>3. ASSUME NEW d \in Clients
      PROVE  LET r == Segment(d, "ACK", <<>>)
             IN  r \in Packets /\ r.kind = "ACK" /\ r.ack = d.recv_next /\ r.data = <<>>
  BY <1>2 DEF Segment, Packet, Packets, Clients
<1> DEFINE r == Segment(Accepted(c, seq, data), "ACK", <<>>)
<1>4. r \in Packets /\ r.kind = "ACK" /\ r.ack = Accepted(c, seq, data).recv_next /\ r.data = <<>>
  BY <1>1, <1>3
<1>5. Replies(c, seq, data) \in SUBSET {r}
  BY DEF Replies
<1> HIDE DEF r
<1> QED BY <1>4, <1>5

\* A packet of the peer.
LEMMA PeerPacketFields ==
    ASSUME peer \in Peers, NEW k \in {"SYN", "SYNACK", "ACK", "FIN"}, NEW n \in Nat,
           NEW bytes \in Seq(Nat)
    PROVE  /\ PeerPacket(k, n, bytes) \in Packets
           /\ PeerPacket(k, n, bytes).kind = k
           /\ PeerPacket(k, n, bytes).seq = Plus(PeerSeq, n)
           /\ PeerPacket(k, n, bytes).ack = peer.rcv_next
           /\ PeerPacket(k, n, bytes).data = bytes
<1>1. Plus(PeerSeq, n) \in Seqs
  BY PlusSeqs, SizeAssumption DEF Seqs
<1> QED BY <1>1 DEF PeerPacket, Packet, Packets, Peers

\* An acknowledgment counts when it is of something sent and not yet acknowledged.
LEMMA AckedByValue ==
    ASSUME peer \in Peers, NEW m \in Packets
    PROVE  /\ AckedBy(m) \in 0 .. NIn + 2
           /\ \A a \in 0 .. NIn + 2 : m.ack = Plus(PeerSeq, a) => AckedBy(m) \in {a, peer.una}
<1> DEFINE n == (m.ack - PeerSeq) % Word
<1>1. n \in Int
  BY SizeAssumption DEF Packets, Seqs
<1>2. AckedBy(m) = IF n > peer.una /\ n <= peer.nxt THEN n ELSE peer.una
  BY DEF AckedBy
<1>3. ASSUME NEW a \in 0 .. NIn + 2, m.ack = Plus(PeerSeq, a)
      PROVE  n = a
  <2>1. PeerSeq \in Seqs /\ a \in Seqs
    BY SizeAssumption DEF Seqs
  <2> QED BY <1>3, <2>1, PlusMinus
<1> HIDE DEF n
<1> QED BY <1>1, <1>2, <1>3, SizeAssumption DEF Peers

-----------------------------------------------------------------------------
(* The steps: types, and what each one changes                             *)

LEMMA EmptyBytes == <<>> \in Seq(Nat)
OBVIOUS

LEMMA InitType == Init => TypeOK
<1>1. 0 \in Seqs /\ FirstSeq \in Seqs
  BY SizeAssumption DEF Seqs
<1>2. <<>> \in Seq(Packets)
  OBVIOUS
<1> QED BY <1>1, <1>2, EmptyBytes, SizeAssumption
    DEF Init, TypeOK, Clients, Peers

\* A step of the client that keeps the types.
LEMMA ClientType ==
    ASSUME TypeOK, client' \in Clients, client'.pc = "fin" => Len(client'.fin) = 1,
           net' \in Nets, read' \in Seq(Nat), UNCHANGED peer
    PROVE  TypeOK'
BY DEF TypeOK, Nets

\* At most these packets are under way that were not.
Sends(A, B) == net'.client \subseteq net.client \cup A /\ net'.peer \subseteq net.peer \cup B

LEMMA ConnectStep ==
    ASSUME TypeOK, Connect
    PROVE  /\ TypeOK'
           /\ client.pc = "new" /\ client'.pc = "connect"
           /\ SameIn(client, client')
           /\ client'.send_next = Plus(client.send_next, 1)
           /\ client'.given = client.given
           /\ client'.returned = client.returned
           /\ client'.failed = client.failed
           /\ UNCHANGED <<peer, read>>
           /\ Sends({}, {Segment(client, "SYN", <<>>)})
<1>1. client \in Clients /\ net \in Nets /\ Plus(client.send_next, 1) \in Seqs
  BY PlusSeqs DEF TypeOK, Nets, Clients
<1>2. Segment(client, "SYN", <<>>) \in Packets
  BY <1>1, SegmentPacket, EmptyBytes
<1>3. net' \in Nets /\ Sends({}, {Segment(client, "SYN", <<>>)})
  BY <1>1, <1>2, ToPeerNet DEF Connect, Sends
<1>4. client' \in Clients /\ client'.pc = "connect" /\ SameIn(client, client')
  BY <1>1 DEF Connect, Clients, SameIn
<1>5. /\ client'.send_next = Plus(client.send_next, 1)
      /\ client'.given = client.given
      /\ client'.returned = client.returned
      /\ client'.failed = client.failed
  BY <1>1 DEF Connect, Clients
<1>6. TypeOK'
  BY <1>3, <1>4, ClientType DEF Connect, TypeOK
<1> QED BY <1>3, <1>4, <1>5, <1>6 DEF Connect

\* A packet in the wait for the connection is the answer, or is nothing.
LEMMA ConnectRecvStep ==
    ASSUME TypeOK, NEW m \in net.client, ConnectRecv(m)
    PROVE  /\ TypeOK'
           /\ client.pc = "connect"
           /\ UNCHANGED <<peer, read>>
           /\ \/ UNCHANGED client /\ Sends({}, {})
              \/ /\ m.kind = "SYNACK"
                 /\ client'.pc = "app"
                 /\ client'.is_open
                 /\ client'.recv_next = Plus(m.seq, 1)
                 /\ client'.buffer = client.buffer
                 /\ client'.eof = client.eof
                 /\ client'.send_next = client.send_next
                 /\ client'.given = client.given
                 /\ client'.returned = client.returned
                 /\ client'.failed = client.failed
                 /\ Sends({}, {Segment(client', "ACK", <<>>)})
<1>1. client \in Clients /\ net \in Nets /\ m \in Packets
  BY DEF TypeOK, Nets
<1>2. CASE m.kind = "SYNACK" /\ m.ack = client.send_next
  <2> DEFINE c == [client EXCEPT !.pc = "app", !.is_open = TRUE,
                                 !.recv_first = m.seq, !.recv_next = Plus(m.seq, 1)]
             r == Segment(c, "ACK", <<>>)
  <2>1. m.seq \in Seqs /\ Plus(m.seq, 1) \in Seqs
    BY <1>1, PlusSeqs DEF Packets
  <2>2. c \in Clients /\ c.pc = "app" /\ c.is_open /\ c.recv_next = Plus(m.seq, 1)
    BY <1>1, <2>1 DEF Clients
  <2>3. /\ c.buffer = client.buffer
        /\ c.eof = client.eof
        /\ c.send_next = client.send_next
        /\ c.given = client.given
        /\ c.returned = client.returned
        /\ c.failed = client.failed
    BY <1>1, <2>1 DEF Clients
  <2>4. client' = c /\ Answer("client", m, "peer", {r}) /\ UNCHANGED <<peer, read>>
    BY <1>2 DEF ConnectRecv
  <2> HIDE DEF c
  <2>5. r \in Packets
    BY <2>2, SegmentPacket, EmptyBytes
  <2>6. r = Segment(client', "ACK", <<>>)
    BY <2>4
  <2> HIDE DEF r
  <2>7. net' \in Nets /\ Sends({}, {r})
    BY <1>1, <2>4, <2>5, AnswerNet DEF Sends
  <2>8. TypeOK'
    BY <2>2, <2>4, <2>7, ClientType DEF TypeOK
  <2> QED BY <1>2, <2>2, <2>3, <2>4, <2>6, <2>7, <2>8 DEF ConnectRecv
<1>3. CASE ~(m.kind = "SYNACK" /\ m.ack = client.send_next)
  <2>1. client.pc = "connect" /\ Answer("client", m, "peer", {}) /\ UNCHANGED <<client, peer, read>>
    BY <1>3 DEF ConnectRecv
  <2>2. net' \in Nets /\ Sends({}, {})
    BY <1>1, <2>1, AnswerNet DEF Sends
  <2>3. TypeOK'
    BY <2>1, <2>2 DEF TypeOK, Nets
  <2> QED BY <2>1, <2>2, <2>3
<1> QED BY <1>2, <1>3

\* A transmission.
LEMMA TransmitStep ==
    ASSUME TypeOK, NEW c \in Clients, c.pc = "send", Transmit(c)
    PROVE  /\ TypeOK'
           /\ client' = c
           /\ UNCHANGED <<peer, read>>
           /\ Sends({}, {Segment(c, "ACK", c.segment)})
<1>1. net \in Nets /\ Segment(c, "ACK", c.segment) \in Packets
  BY SegmentPacket DEF TypeOK, Nets, Clients
<1>2. net' \in Nets /\ Sends({}, {Segment(c, "ACK", c.segment)})
  BY <1>1, ToPeerNet DEF Transmit, Sends
<1>3. TypeOK'
  BY <1>2, ClientType DEF Transmit, TypeOK
<1> QED BY <1>2, <1>3 DEF Transmit

\* The first segment of a call, with the bytes after the e that it has.
LEMMA SendCallStep ==
    ASSUME TypeOK, NEW n \in 1 .. NOut, SendCall(n)
    PROVE  /\ TypeOK'
           /\ client.pc = "app" /\ client.is_open /\ ~client.failed
           /\ SameIn(client, client')
           /\ client'.pc = "send"
           /\ client'.is_open
           /\ ~client'.failed
           /\ client'.send_next = client.send_next
           /\ client'.given = client.given + n
           /\ client'.returned = client.returned
           /\ client'.is_waiting_seq
           /\ \E e \in client.given + 1 .. client'.given :
                 /\ client'.segment = Run(client.given + 1, e)
                 /\ client'.rest = Run(e + 1, client'.given)
                 /\ client'.seq_to_wait = Plus(client.send_next, e - client.given)
           /\ UNCHANGED <<peer, read>>
           /\ Sends({}, {Segment(client', "ACK", client'.segment)})
<1> DEFINE c == [client EXCEPT !.given = @ + n]
           i == client.given + 1
           j == client.given + n
           d == Loaded(c, Run(i, j))
<1>1. client \in Clients /\ client.given \in Nat /\ j <= NOut /\ client.pc = "app"
      /\ client.is_open /\ ~client.failed
  BY SizeAssumption DEF TypeOK, Clients, SendCall
<1>2. i \in Nat /\ j \in Nat /\ i >= 1 /\ i <= j
  BY <1>1
<1>3. j \in 0 .. NOut
  BY <1>1, SizeAssumption
<1>4. /\ c \in Clients
      /\ c.given = j
      /\ SameIn(client, c)
      /\ c.send_next = client.send_next
      /\ c.is_open = client.is_open
      /\ c.returned = client.returned
      /\ c.failed = client.failed
  BY <1>1, <1>3 DEF Clients, SameIn
<1>5. Transmit(d)
  BY DEF SendCall
<1> HIDE DEF c, i, j
<1>6. PICK e \in i .. j :
         /\ d \in Clients
         /\ SameIn(c, d)
         /\ d.pc = "send"
         /\ d.is_waiting_seq
         /\ d.seq_to_wait = Plus(c.send_next, e - i + 1)
         /\ d.send_next = c.send_next
         /\ d.segment = Run(i, e)
         /\ d.rest = Run(e + 1, j)
         /\ d.is_open = c.is_open
         /\ d.given = c.given
         /\ d.returned = c.returned
         /\ d.failed = c.failed
  BY <1>2, <1>4, LoadedFields, ZenonT(40)
<1> HIDE DEF d
<1>7. TypeOK' /\ client' = d /\ UNCHANGED <<peer, read>> /\ Sends({}, {Segment(d, "ACK", d.segment)})
  BY <1>5, <1>6, TransmitStep
<1>8. SameIn(client, client')
  BY <1>4, <1>6, <1>7 DEF SameIn
<1>9. e - i + 1 = e - client.given /\ j = client.given + n /\ i = client.given + 1 /\ e \in i .. j
  BY <1>1, <1>6 DEF i, j
<1> QED BY <1>1, <1>4, <1>6, <1>7, <1>8, <1>9

\* The same segment again.
LEMMA RetryStep ==
    ASSUME TypeOK, Retry
    PROVE  /\ TypeOK'
           /\ client.pc = "send" /\ client'.pc = "send"
           /\ SameIn(client, client')
           /\ SameOut(client, client')
           /\ client.is_waiting_seq /\ client'.is_waiting_seq
           /\ client'.segment = client.segment
           /\ client'.rest = client.rest
           /\ client'.seq_to_wait = Plus(client.send_next, Len(client.segment))
           /\ UNCHANGED <<peer, read>>
           /\ Sends({}, {Segment(client', "ACK", client'.segment)})
<1>1. client \in Clients /\ client.tries > 0 /\ client.pc = "send" /\ client.is_waiting_seq
  BY DEF TypeOK, Retry
<1>2. TypeOK' /\ client' = Transmitted(client) /\ UNCHANGED <<peer, read>>
      /\ Sends({}, {Segment(client', "ACK", client'.segment)})
  BY <1>1, TransmittedFields, TransmitStep DEF Retry
<1> QED BY <1>1, <1>2, TransmittedFields DEF SameOut

\* The ends of a send that has failed, and of other calls that leave with what
\* they found.
LEMMA SendFailStep ==
    ASSUME TypeOK, SendFail
    PROVE  /\ TypeOK'
           /\ client.pc = "send" /\ client'.pc = "app" /\ client'.failed
           /\ SameIn(client, client')
           /\ client'.is_open = client.is_open
           /\ client'.returned = client.returned
           /\ UNCHANGED <<peer, read>>
           /\ Sends({}, {})
<1> DEFINE d == Returned(client)
<1>1. /\ client \in Clients /\ net \in Nets /\ client.pc = "send"
      /\ client' = [d EXCEPT !.failed = TRUE] /\ Leave /\ UNCHANGED <<peer, read>>
  BY DEF TypeOK, Nets, SendFail
<1>2. d \in Clients /\ d.pc = "app" /\ SameIn(client, d) /\ SameOut(client, d)
  BY <1>1, ReturnedFields
<1> HIDE DEF d
<1>3. /\ client' \in Clients
      /\ client'.pc = "app"
      /\ client'.failed
      /\ client'.is_open = d.is_open
      /\ client'.returned = d.returned
      /\ SameIn(d, client')
  BY <1>1, <1>2 DEF Clients, SameIn
<1>4. net' \in Nets /\ Sends({}, {})
  BY <1>1, LeaveNet DEF Sends
<1>5. TypeOK'
  BY <1>1, <1>3, <1>4, ClientType DEF TypeOK
<1> QED BY <1>1, <1>2, <1>3, <1>4, <1>5 DEF SameIn, SameOut

LEMMA SendDoneStep ==
    ASSUME TypeOK, SendDone
    PROVE  /\ TypeOK'
           /\ client.pc = "send" /\ client'.pc = "app"
           /\ client.rest = <<>> /\ ~client.is_waiting_seq
           /\ SameIn(client, client')
           /\ client'.send_next = Plus(client.send_next, Len(client.segment))
           /\ client'.is_open = client.is_open
           /\ client'.given = client.given
           /\ client'.failed = client.failed
           /\ client'.returned = IF client.is_open THEN client.given ELSE client.returned
           /\ UNCHANGED <<peer, read>>
           /\ Sends({}, {})
<1> DEFINE a == Acked(client)
           d == Returned(a)
           r == IF client.is_open THEN client.given ELSE client.returned
<1>1. /\ client \in Clients /\ net \in Nets /\ client.pc = "send"
      /\ client.rest = <<>> /\ ~client.is_waiting_seq
      /\ client' = [d EXCEPT !.returned = r] /\ Leave /\ UNCHANGED <<peer, read>>
  BY DEF TypeOK, Nets, SendDone, Success
<1>2. /\ a \in Clients
      /\ a.send_next = Plus(client.send_next, Len(client.segment))
      /\ a.is_open = client.is_open
      /\ a.given = client.given
      /\ a.failed = client.failed
      /\ SameIn(client, a)
  BY <1>1, AckedFields
<1> HIDE DEF a
<1>3. d \in Clients /\ d.pc = "app" /\ SameIn(a, d) /\ SameOut(a, d)
  BY <1>2, ReturnedFields
<1>4. r \in 0 .. NOut
  BY <1>1 DEF Clients
<1> HIDE DEF d, r
<1>5. /\ client' \in Clients
      /\ client'.pc = "app"
      /\ client'.returned = r
      /\ client'.send_next = d.send_next
      /\ client'.is_open = d.is_open
      /\ client'.given = d.given
      /\ client'.failed = d.failed
      /\ SameIn(d, client')
  BY <1>1, <1>3, <1>4 DEF Clients, SameIn
<1>6. net' \in Nets /\ Sends({}, {})
  BY <1>1, LeaveNet DEF Sends
<1>7. TypeOK'
  BY <1>1, <1>5, <1>6, ClientType DEF TypeOK
<1>8. SameIn(client, client')
  BY <1>2, <1>3, <1>5 DEF SameIn
<1>9. r = IF client.is_open THEN client.given ELSE client.returned
  BY DEF r
<1> QED BY <1>1, <1>2, <1>3, <1>5, <1>6, <1>7, <1>8, <1>9 DEF SameOut

\* The next segment of a call; e as for the first.
LEMMA SegmentDoneStep ==
    ASSUME TypeOK, SegmentDone,
           NEW b \in Nat, NEW j \in Nat, b < j, client.rest = Run(b + 1, j)
    PROVE  /\ TypeOK'
           /\ client.pc = "send" /\ ~client.is_waiting_seq
           /\ SameIn(client, client')
           /\ client'.is_open = client.is_open
           /\ client'.returned = client.returned
           /\ client'.given = client.given
           /\ UNCHANGED <<peer, read>>
           /\ \/ /\ client.is_open
                 /\ client'.pc = "send"
                 /\ client'.failed = client.failed
                 /\ client'.send_next = Plus(client.send_next, Len(client.segment))
                 /\ client'.is_waiting_seq
                 /\ \E e \in b + 1 .. j :
                       /\ client'.segment = Run(b + 1, e)
                       /\ client'.rest = Run(e + 1, j)
                       /\ client'.seq_to_wait = Plus(client'.send_next, e - b)
                 /\ Sends({}, {Segment(client', "ACK", client'.segment)})
              \/ ~client.is_open /\ client'.pc = "app" /\ Sends({}, {})
<1> DEFINE a == Acked(client)
           i == b + 1
           d == Loaded(a, Run(i, j))
           r == Returned(a)
<1>1. client \in Clients /\ net \in Nets /\ client.pc = "send" /\ ~client.is_waiting_seq
  BY DEF TypeOK, Nets, SegmentDone
<1>2. /\ a \in Clients
      /\ a.send_next = Plus(client.send_next, Len(client.segment))
      /\ a.is_open = client.is_open
      /\ a.given = client.given
      /\ a.returned = client.returned
      /\ a.failed = client.failed
      /\ SameIn(client, a)
  BY <1>1, AckedFields
<1>3. i \in Nat /\ i >= 1 /\ i <= j
  OBVIOUS
<1>4. CASE client.is_open
  <2>1. Transmit(d)
    BY <1>4 DEF SegmentDone
  <2> HIDE DEF a, i
  <2>2. PICK e \in i .. j :
           /\ d \in Clients
           /\ SameIn(a, d)
           /\ d.pc = "send"
           /\ d.is_waiting_seq
           /\ d.seq_to_wait = Plus(a.send_next, e - i + 1)
           /\ d.send_next = a.send_next
           /\ d.segment = Run(i, e)
           /\ d.rest = Run(e + 1, j)
           /\ d.is_open = a.is_open
           /\ d.given = a.given
           /\ d.returned = a.returned
           /\ d.failed = a.failed
    BY <1>2, <1>3, LoadedFields, ZenonT(40)
  <2> HIDE DEF d
  <2>3. TypeOK' /\ client' = d /\ UNCHANGED <<peer, read>> /\ Sends({}, {Segment(d, "ACK", d.segment)})
    BY <2>1, <2>2, TransmitStep
  <2>4. SameIn(client, client')
    BY <1>2, <2>2, <2>3 DEF SameIn
  <2>5. e \in b + 1 .. j /\ i = b + 1 /\ e - i + 1 = e - b
    BY <2>2 DEF i
  <2> QED BY <1>1, <1>2, <1>4, <2>2, <2>3, <2>4, <2>5
<1>5. CASE ~client.is_open
  <2>1. client' = [r EXCEPT !.failed = TRUE] /\ Leave /\ UNCHANGED <<peer, read>>
    BY <1>5 DEF SegmentDone
  <2> HIDE DEF a
  <2>2. r \in Clients /\ r.pc = "app" /\ SameIn(a, r) /\ SameOut(a, r)
    BY <1>2, ReturnedFields
  <2> HIDE DEF r
  <2>3. /\ client' \in Clients
        /\ client'.pc = "app"
        /\ client'.is_open = r.is_open
        /\ client'.returned = r.returned
        /\ client'.given = r.given
        /\ SameIn(r, client')
    BY <2>1, <2>2 DEF Clients, SameIn
  <2>4. net' \in Nets /\ Sends({}, {})
    BY <1>1, <2>1, LeaveNet DEF Sends
  <2>5. TypeOK'
    BY <2>1, <2>3, <2>4, ClientType DEF TypeOK
  <2>6. SameIn(client, client')
    BY <1>2, <2>2, <2>3 DEF SameIn
  <2> QED BY <1>1, <1>2, <1>5, <2>1, <2>2, <2>3, <2>4, <2>5, <2>6 DEF SameOut
<1> QED BY <1>4, <1>5

\* Whatever the bytes are.
LEMMA SegmentDoneType ==
    ASSUME TypeOK, SegmentDone
    PROVE  /\ TypeOK'
           /\ client.pc = "send" /\ client'.pc \in {"send", "app"}
           /\ SameIn(client, client')
           /\ client'.returned = client.returned
           /\ Clean(client') => client.is_open
           /\ UNCHANGED <<peer, read>>
           /\ Sends({}, {Segment(client', "ACK", client'.segment)})
<1> DEFINE a == Acked(client)
           seg == SubSeq(client.rest, 1, Shorter(Len(client.rest)))
           rest == SubSeq(client.rest, MAX_SEGMENT + 1, Len(client.rest))
           c == [a EXCEPT !.segment = seg, !.rest = rest, !.tries = Tries]
           r == Returned(a)
<1>1. client \in Clients /\ net \in Nets /\ client.pc = "send" /\ client.rest \in Seq(Nat)
  BY DEF TypeOK, Nets, SegmentDone, Clients
<1>2. a \in Clients /\ SameIn(client, a) /\ a.returned = client.returned /\ a.is_open = client.is_open
  BY <1>1, AckedFields
<1>3. CASE client.is_open
  <2>1. seg \in Seq(Nat) /\ rest \in Seq(Nat) /\ Tries \in Nat /\ Tries > 0
    <3>1. Shorter(Len(client.rest)) \in Nat /\ Shorter(Len(client.rest)) <= Len(client.rest)
      BY <1>1, SizeAssumption DEF Shorter
    <3>2. seg \in Seq(Nat)
      BY <1>1, <3>1, SubSeqProperties
    <3>3. rest \in Seq(Nat)
      BY <1>1, SizeAssumption, SubSeqProperties
    <3> QED BY <3>2, <3>3, SizeAssumption
  <2>2. Transmit(Transmitted(c))
    BY <1>3 DEF SegmentDone, Loaded
  <2> HIDE DEF a, seg, rest
  <2>3. c \in Clients /\ c.tries > 0 /\ SameIn(a, c) /\ c.returned = a.returned
    BY <1>2, <2>1 DEF Clients, SameIn
  <2> HIDE DEF c
  <2>4. Transmitted(c) \in Clients /\ SameIn(c, Transmitted(c)) /\ Transmitted(c).pc = "send"
        /\ Transmitted(c).returned = c.returned
    BY <2>3, TransmittedFields
  <2>5. /\ TypeOK'
        /\ client' = Transmitted(c)
        /\ UNCHANGED <<peer, read>>
        /\ Sends({}, {Segment(client', "ACK", client'.segment)})
    BY <2>2, <2>4, TransmitStep
  <2> QED BY <1>1, <1>2, <1>3, <2>3, <2>4, <2>5 DEF SameIn
<1>4. CASE ~client.is_open
  <2>1. client' = [r EXCEPT !.failed = TRUE] /\ Leave /\ UNCHANGED <<peer, read>>
    BY <1>4 DEF SegmentDone
  <2> HIDE DEF a
  <2>2. r \in Clients /\ r.pc = "app" /\ SameIn(a, r) /\ SameOut(a, r)
    BY <1>2, ReturnedFields
  <2> HIDE DEF r
  <2>3. /\ client' \in Clients
        /\ client'.pc = "app"
        /\ SameIn(r, client')
        /\ client'.returned = r.returned
        /\ client'.is_open = r.is_open
    BY <2>1, <2>2 DEF Clients, SameIn
  <2>4. net' \in Nets /\ Sends({}, {}) /\ Sends({}, {Segment(client', "ACK", client'.segment)})
    BY <1>1, <2>1, LeaveNet DEF Sends
  <2>5. TypeOK'
    BY <2>1, <2>3, <2>4, ClientType DEF TypeOK
  <2>6. ~Clean(client')
    BY <1>2, <1>4, <2>2, <2>3 DEF Clean, SameOut
  <2>7. SameIn(client, client') /\ client'.returned = client.returned
    BY <1>2, <2>2, <2>3 DEF SameIn, SameOut
  <2> QED BY <1>1, <2>1, <2>3, <2>4, <2>5, <2>6, <2>7
<1> QED BY <1>3, <1>4

\* The steps that only move the process on.
LEMMA MoveStep ==
    ASSUME TypeOK, RecvCall \/ RecvTimeout \/ ConnectTimeout \/ CloseEnd
    PROVE  /\ TypeOK'
           /\ client'.pc # "fin"
           /\ Began(client') <=> Began(client)
           /\ SameIn(client, client')
           /\ client'.send_next = client.send_next
           /\ client'.given = client.given
           /\ client'.returned = client.returned
           /\ client'.failed = client.failed
           /\ Clean(client') => Clean(client) /\ client.pc # "close" /\ client'.pc \in {"app", "recv"}
           /\ Clean(client') => client.pc \in {"app", "recv"}
           /\ UNCHANGED <<peer, read>>
           /\ Sends({}, {})
<1>1. client \in Clients /\ net \in Nets
  BY DEF TypeOK, Nets
<1>2. net' \in Nets /\ Sends({}, {}) /\ UNCHANGED <<peer, read>>
  BY <1>1, LeaveNet DEF Sends, RecvCall, RecvTimeout, ConnectTimeout, CloseEnd
<1>3. client' \in Clients /\ client'.pc # "fin"
  BY <1>1, ZenonT(40) DEF Clients, RecvCall, RecvTimeout, ConnectTimeout, CloseEnd
<1>4. TypeOK'
  BY <1>2, <1>3, ClientType DEF TypeOK
<1>5. /\ Began(client') <=> Began(client)
      /\ SameIn(client, client')
      /\ client'.send_next = client.send_next
      /\ client'.given = client.given
      /\ client'.returned = client.returned
      /\ client'.failed = client.failed
  BY <1>1, ZenonT(40) DEF Clients, RecvCall, RecvTimeout, ConnectTimeout, CloseEnd, Began, SameIn
<1>6. /\ Clean(client') => Clean(client) /\ client.pc # "close" /\ client'.pc \in {"app", "recv"}
      /\ Clean(client') => client.pc \in {"app", "recv"}
  BY <1>1 DEF Clients, RecvCall, RecvTimeout, ConnectTimeout, CloseEnd, Clean
<1> QED BY <1>2, <1>3, <1>4, <1>5, <1>6

\* Bytes go from the buffer to the caller.
LEMMA RecvReturnStep ==
    ASSUME TypeOK, NEW n \in 1 .. NIn, RecvReturn(n)
    PROVE  /\ TypeOK'
           /\ client.pc \in {"recv", "app"} /\ client'.pc = "app"
           /\ Received' = Received
           /\ client'.recv_next = client.recv_next
           /\ client'.eof = client.eof
           /\ SameOut(client, client')
           /\ UNCHANGED peer
           /\ Sends({}, {})
<1> DEFINE l == SubSeq(client.buffer, 1, n)
           r == SubSeq(client.buffer, n + 1, Len(client.buffer))
<1>1. /\ client \in Clients /\ net \in Nets /\ client.pc \in {"recv", "app"}
      /\ client.buffer \in Seq(Nat) /\ read \in Seq(Nat) /\ n <= Len(client.buffer)
      /\ read' = read \o l
      /\ client' = [client EXCEPT !.pc = "app", !.buffer = r, !.draining = FALSE]
      /\ Leave /\ UNCHANGED peer
  BY DEF TypeOK, Nets, Clients, RecvReturn
<1>2. l \in Seq(Nat) /\ r \in Seq(Nat)
  <2>1. \A i \in 1 .. n : client.buffer[i] \in Nat
    BY <1>1
  <2>2. l \in Seq(Nat)
    BY <2>1, SubSeqProperties
  <2>3. \A i \in n + 1 .. Len(client.buffer) : client.buffer[i] \in Nat
    BY <1>1
  <2>4. r \in Seq(Nat)
    BY <1>1, <2>3, SubSeqProperties
  <2> QED BY <2>2, <2>4
<1>3. client.buffer = l \o r
  <2>1. SubSeq(client.buffer, 1, Len(client.buffer)) = client.buffer
    BY <1>1, SubSeqFull
  <2> DEFINE e == Len(client.buffer)
  <2>2. e \in Nat /\ 1 \in 1 .. e + 1 /\ n \in 1 - 1 .. e /\ e \in n .. e
    BY <1>1
  <2>3. SubSeq(client.buffer, 1, n) \o SubSeq(client.buffer, n + 1, e) = SubSeq(client.buffer, 1, e)
    BY <1>1, <2>2, ConcatAdjacentSubSeq
  <2> QED BY <2>1, <2>3
<1> HIDE DEF l, r
<1>4. /\ client' \in Clients
      /\ client'.pc = "app"
      /\ client'.buffer = r
      /\ client'.recv_next = client.recv_next
      /\ client'.eof = client.eof
      /\ SameOut(client, client')
  BY <1>1, <1>2 DEF Clients, SameOut
<1>5. Received' = Received
  <2>1. Received' = (read \o l) \o r
    BY <1>1, <1>4 DEF Received
  <2>2. (read \o l) \o r = read \o (l \o r)
    <3>1. read \in Seq(Nat) /\ l \in Seq(Nat) /\ r \in Seq(Nat)
      BY <1>1, <1>2
    <3>2. \A s, t, u \in Seq(Nat) : (s \o t) \o u = s \o (t \o u)
      BY ConcatAssociative
    <3> QED BY <3>1, <3>2
  <2> QED BY <1>3, <2>1, <2>2 DEF Received
<1>6. net' \in Nets /\ Sends({}, {}) /\ read' \in Seq(Nat)
  BY <1>1, <1>2, LeaveNet DEF Sends
<1>7. TypeOK'
  BY <1>1, <1>4, <1>6, ClientType
<1> QED BY <1>1, <1>4, <1>5, <1>6, <1>7

\* A packet in I_mlw_tcp_update: the end of the peer, or bytes or none.
LEMMA UpdateStep ==
    ASSUME TypeOK, NEW m \in net.client, Update(m)
    PROVE  /\ TypeOK'
           /\ client.pc \in {"send", "recv"}
           /\ client'.eof = client.eof
           /\ client'.returned = client.returned
           /\ UNCHANGED <<peer, read>>
           /\ \E R \in SUBSET Packets :
                 /\ Sends({}, R)
                 /\ \A r \in R : r.kind = "ACK" /\ r.data = <<>>
                 /\ \/ /\ m.kind = "FIN"
                       /\ client'.pc = "fin"
                       /\ client'.fin = <<m>>
                       /\ SameIn(client, client')
                       /\ \A r \in R : r.ack = Plus(client.recv_next, 1 + Len(m.data))
                    \/ /\ m.kind # "FIN"
                       /\ client'.pc = client.pc
                       /\ SameOut(client, client')
                       /\ client'.segment = client.segment
                       /\ client'.rest = client.rest
                       /\ client'.seq_to_wait = client.seq_to_wait
                       /\ client'.is_waiting_seq
                             <=> client.is_waiting_seq /\ m.ack # client.seq_to_wait
                       /\ IF m.data # <<>> /\ m.seq = client.recv_next
                          THEN /\ client'.recv_next = Plus(m.seq, Len(m.data))
                               /\ client'.buffer = client.buffer \o m.data
                          ELSE SameIn(client, client')
                       /\ \A r \in R : r.ack = client'.recv_next
<1> DEFINE w == client.is_waiting_seq /\ m.ack # client.seq_to_wait
           c == Heeded(client, m)
<1>1. client \in Clients /\ net \in Nets /\ m \in Packets /\ UNCHANGED <<peer, read>>
      /\ client.pc \in {"send", "recv"}
  BY DEF TypeOK, Nets, Update
<1>2. m.seq \in Seqs /\ m.data \in Seq(Nat)
  BY <1>1 DEF Packets
<1>3. /\ c \in Clients
      /\ c.pc = client.pc
      /\ SameIn(client, c)
      /\ SameOut(client, c)
      /\ c.segment = client.segment
      /\ c.rest = client.rest
      /\ c.seq_to_wait = client.seq_to_wait
      /\ c.is_waiting_seq <=> w
  <2>1. w \in BOOLEAN
    BY <1>1 DEF Clients
  <2>2. c = [client EXCEPT !.is_waiting_seq = w]
    BY DEF Heeded, IsAwaited
  <2> HIDE DEF w, c
  <2> QED BY <1>1, <2>1, <2>2 DEF Clients, SameIn, SameOut
<1>4. CASE m.kind = "FIN"
  <2> DEFINE r == Packet("ACK", c.send_next, Plus(c.recv_next, 1 + Len(m.data)), <<>>)
  <2>1. client' = [c EXCEPT !.pc = "fin", !.op = client.pc, !.fin = <<m>>]
        /\ Answer("client", m, "peer", {r})
    BY <1>4 DEF Update
  <2> HIDE DEF c
  <2>2. Plus(c.recv_next, 1 + Len(m.data)) \in Seqs /\ c.send_next \in Seqs
    BY <1>2, <1>3, PlusSeqs, SMTT(30) DEF Clients
  <2>3. r \in Packets /\ r.kind = "ACK" /\ r.data = <<>> /\ r.ack = Plus(c.recv_next, 1 + Len(m.data))
    BY <2>2, EmptyBytes DEF Packet, Packets
  <2> HIDE DEF r
  <2>4. net' \in Nets /\ Sends({}, {r})
    BY <1>1, <2>1, <2>3, AnswerNet DEF Sends
  <2>5. <<m>> \in Seq(Packets) /\ Len(<<m>>) = 1
    BY <1>1
  <2>6. /\ client' \in Clients
        /\ client'.pc = "fin"
        /\ client'.fin = <<m>>
        /\ client'.eof = c.eof
        /\ client'.returned = c.returned
        /\ SameIn(c, client')
    BY <1>1, <1>3, <2>1, <2>5 DEF Clients, SameIn
  <2>7. TypeOK'
    BY <1>1, <2>4, <2>5, <2>6, ClientType DEF TypeOK
  <2>8. SameIn(client, client') /\ client'.eof = client.eof /\ client'.returned = client.returned
    BY <1>3, <2>6 DEF SameIn, SameOut
  <2>9. r.ack = Plus(client.recv_next, 1 + Len(m.data))
    BY <1>3, <2>3 DEF SameIn
  <2>10. {r} \in SUBSET Packets /\ \A q \in {r} : q.kind = "ACK" /\ q.data = <<>>
                                                 /\ q.ack = Plus(client.recv_next, 1 + Len(m.data))
    BY <2>3, <2>9
  <2> QED BY <1>1, <1>4, <2>4, <2>6, <2>7, <2>8, <2>10
<1>5. CASE m.kind # "FIN"
  <2> DEFINE R == Replies(c, m.seq, m.data)
             d == Accepted(c, m.seq, m.data)
  <2>1. client' = d /\ Answer("client", m, "peer", R)
    BY <1>5 DEF Update
  <2>2. /\ d \in Clients
        /\ d.pc = c.pc
        /\ d.eof = c.eof
        /\ SameOut(c, d)
        /\ SameSegment(c, d)
        /\ IF m.data # <<>> /\ m.seq = c.recv_next
           THEN d.recv_next = Plus(m.seq, Len(m.data)) /\ d.buffer = c.buffer \o m.data
           ELSE d = c
    BY <1>2, <1>3, AcceptedFields
  <2>3. /\ R \in SUBSET Packets
        /\ \A r \in R : r.kind = "ACK" /\ r.data = <<>> /\ r.ack = d.recv_next
    BY <1>2, <1>3, RepliesFields
  <2> HIDE DEF c, d, R
  <2>5. IF m.data # <<>> /\ m.seq = client.recv_next
        THEN d.recv_next = Plus(m.seq, Len(m.data)) /\ d.buffer = client.buffer \o m.data
        ELSE SameIn(client, d)
    BY <1>3, <2>2 DEF SameIn
  <2>7. net' \in Nets /\ Sends({}, R)
    BY <1>1, <2>1, <2>3, AnswerNet DEF Sends
  <2>8. TypeOK'
    BY <1>1, <1>3, <2>1, <2>2, <2>7, ClientType DEF TypeOK
  <2>9. /\ SameOut(client, d)
        /\ d.segment = client.segment
        /\ d.rest = client.rest
        /\ d.seq_to_wait = client.seq_to_wait
        /\ d.is_waiting_seq <=> w
        /\ d.eof = client.eof
    BY <1>3, <2>2 DEF SameOut, SameSegment, SameIn
  <2>10. \A r \in R : r.kind = "ACK" /\ r.data = <<>> /\ r.ack = client'.recv_next
    BY <2>1, <2>3
  <2> QED BY <1>1, <1>3, <1>5, <2>1, <2>2, <2>3, <2>5, <2>7, <2>8, <2>9, <2>10 DEF SameOut
<1> QED BY <1>4, <1>5

\* The loops that wait for the acknowledgment of a FIN.
LEMMA CloseRecvStep ==
    ASSUME TypeOK, NEW m \in net.client, CloseRecv(m)
    PROVE  /\ TypeOK'
           /\ client.pc \in {"fin", "close"}
           /\ client'.pc = client.pc
           /\ client'.fin = client.fin
           /\ client'.returned = client.returned
           /\ client'.is_open = client.is_open
           /\ SameIn(client, client')
           /\ UNCHANGED <<peer, read>>
           /\ Sends({}, {})
<1>1. client \in Clients /\ net \in Nets /\ client.pc \in {"fin", "close"} /\ UNCHANGED <<peer, read>>
  BY DEF TypeOK, Nets, CloseRecv
<1>2. Plus(client.send_next, 1) \in Seqs
  BY <1>1, PlusSeqs DEF Clients
<1>3. net' \in Nets /\ Sends({}, {})
  BY <1>1, AnswerNet DEF Sends, CloseRecv
<1>4. /\ client' \in Clients
      /\ client'.pc = client.pc
      /\ client'.fin = client.fin
      /\ client'.returned = client.returned
      /\ client'.is_open = client.is_open
      /\ SameIn(client, client')
  BY <1>1, <1>2 DEF CloseRecv, Clients, SameIn
<1>5. TypeOK'
  BY <1>1, <1>3, <1>4, ClientType DEF TypeOK
<1> QED BY <1>1, <1>3, <1>4, <1>5

LEMMA CloseResendStep ==
    ASSUME TypeOK, CloseResend
    PROVE  /\ TypeOK'
           /\ client.pc \in {"fin", "close"}
           /\ UNCHANGED <<client, peer, read>>
           /\ Sends({}, {Segment(client, "FIN", <<>>)})
<1>1. client \in Clients /\ net \in Nets
  BY DEF TypeOK, Nets
<1>2. Segment(client, "FIN", <<>>) \in Packets
  BY <1>1, SegmentPacket, EmptyBytes
<1>3. net' \in Nets /\ Sends({}, {Segment(client, "FIN", <<>>)})
  BY <1>1, <1>2, ToPeerNet DEF CloseResend, Sends
<1> QED BY <1>3 DEF CloseResend, TypeOK, Nets

LEMMA CloseCallStep ==
    ASSUME TypeOK, CloseCall
    PROVE  /\ TypeOK'
           /\ client.pc = "app" /\ client'.pc = "close"
           /\ SameIn(client, client')
           /\ SameOut(client, client')
           /\ client.is_open
           /\ UNCHANGED <<peer, read>>
           /\ Sends({}, {Segment(client, "FIN", <<>>)})
<1>1. client \in Clients /\ net \in Nets
  BY DEF TypeOK, Nets
<1>2. Segment(client, "FIN", <<>>) \in Packets
  BY <1>1, SegmentPacket, EmptyBytes
<1>3. net' \in Nets /\ Sends({}, {Segment(client, "FIN", <<>>)})
  BY <1>1, <1>2, ToPeerNet DEF CloseCall, Sends
<1>4. client' \in Clients /\ client'.pc = "close" /\ SameIn(client, client') /\ SameOut(client, client')
  BY <1>1 DEF CloseCall, Clients, SameIn, SameOut
<1>5. TypeOK'
  BY <1>3, <1>4, ClientType DEF CloseCall, TypeOK
<1> QED BY <1>3, <1>4, <1>5 DEF CloseCall

\* The end of the peer is done with, and so are the bytes that came with it.
LEMMA FinEndStep ==
    ASSUME TypeOK, FinEnd, Head(client.fin).data = <<>>
    PROVE  /\ TypeOK'
           /\ client.pc = "fin" /\ client'.pc \in {"app", "send", "recv"}
           /\ ~client'.is_open
           /\ client'.recv_next = client.recv_next
           /\ client'.buffer = client.buffer
           /\ client'.returned = client.returned
           /\ UNCHANGED <<peer, read>>
           /\ Sends({}, {})
<1> DEFINE m == Head(client.fin)
           c == [client EXCEPT !.pc = client.op, !.op = "app", !.is_open = FALSE, !.fin = <<>>,
                               !.eof = TRUE, !.draining = TRUE]
<1>1. client \in Clients /\ net \in Nets /\ client.pc = "fin"
  BY DEF TypeOK, Nets, FinEnd
<1>2. Accepted(c, m.seq, m.data) = c /\ Replies(c, m.seq, m.data) = {}
  BY DEF Accepted, Replies
<1>3. client' = c /\ UNCHANGED <<net, peer, read>>
  BY <1>2 DEF FinEnd
<1>4. <<>> \in Seq(Packets)
  OBVIOUS
<1>5. /\ client' \in Clients
      /\ client'.pc \in {"app", "send", "recv"}
      /\ ~client'.is_open
      /\ client'.recv_next = client.recv_next
      /\ client'.buffer = client.buffer
      /\ client'.returned = client.returned
  BY <1>1, <1>3, <1>4 DEF Clients
<1>6. TypeOK'
  BY <1>1, <1>3, <1>5, ClientType DEF TypeOK
<1> QED BY <1>1, <1>3, <1>5, <1>6 DEF Sends

\* A step of the peer that keeps the types.
LEMMA PeerType ==
    ASSUME TypeOK, peer' \in Peers, net' \in Nets, UNCHANGED <<client, read>>
    PROVE  TypeOK'
BY DEF TypeOK, Nets

\* The peer sends what does not count anew.
LEMMA PeerTellStep ==
    ASSUME TypeOK, PeerSynAck \/ PeerAck
    PROVE  /\ TypeOK'
           /\ UNCHANGED <<client, peer, read>>
           /\ \E k \in {"SYNACK", "ACK"} : \E n \in 0 .. NIn + 2 :
                 /\ k = "SYNACK" => n = 0
                 /\ peer.st # "listen"
                 /\ Sends({PeerPacket(k, n, <<>>)}, {})
<1>1. peer \in Peers /\ net \in Nets /\ peer.nxt \in 0 .. NIn + 2 /\ 0 \in 0 .. NIn + 2
  BY SizeAssumption DEF TypeOK, Nets, Peers
<1>2. PICK k \in {"SYNACK", "ACK"}, n \in 0 .. NIn + 2 :
         /\ k = "SYNACK" => n = 0
         /\ peer.st # "listen"
         /\ ToClient(PeerPacket(k, n, <<>>))
  BY <1>1 DEF PeerSynAck, PeerAck
<1>3. k \in {"SYN", "SYNACK", "ACK", "FIN"} /\ n \in Nat
  OBVIOUS
<1>4. PeerPacket(k, n, <<>>) \in Packets
  BY <1>1, <1>3, PeerPacketFields, EmptyBytes
<1>5. net' \in Nets /\ Sends({PeerPacket(k, n, <<>>)}, {})
  BY <1>1, <1>2, <1>4, ToClientNet DEF Sends
<1>6. UNCHANGED <<client, peer, read>>
  BY DEF PeerSynAck, PeerAck
<1>7. TypeOK'
  BY <1>1, <1>5, <1>6, PeerType
<1> QED BY <1>2, <1>5, <1>6, <1>7

LEMMA PeerSendStep ==
    ASSUME TypeOK, NEW i \in 1 .. NIn, NEW j \in i .. NIn, PeerSend(i, j)
    PROVE  /\ TypeOK'
           /\ peer.st = "established"
           /\ peer'.st = peer.st
           /\ peer'.rcv_next = peer.rcv_next
           /\ peer'.got = peer.got
           /\ peer'.una = peer.una
           /\ UNCHANGED <<client, read>>
           /\ Sends({PeerPacket("ACK", i, Run(i, j))}, {})
<1>1. peer \in Peers /\ net \in Nets /\ peer.st = "established"
  BY DEF TypeOK, Nets, PeerSend, Established
<1>2. Run(i, j) \in Seq(Nat)
  BY RunSeq
<1>3. PeerPacket("ACK", i, Run(i, j)) \in Packets
  BY <1>1, <1>2, PeerPacketFields
<1>4. net' \in Nets /\ Sends({PeerPacket("ACK", i, Run(i, j))}, {})
  BY <1>1, <1>3, ToClientNet DEF Sends, PeerSend
<1>5. j + 1 \in 0 .. NIn + 2
  BY SizeAssumption
<1>6. /\ peer' \in Peers
      /\ peer'.st = peer.st
      /\ peer'.rcv_next = peer.rcv_next
      /\ peer'.got = peer.got
      /\ peer'.una = peer.una
  BY <1>1, <1>5 DEF PeerSend, Peers
<1>7. TypeOK'
  BY <1>4, <1>6, PeerType DEF PeerSend
<1> QED BY <1>1, <1>4, <1>6, <1>7 DEF PeerSend

LEMMA PeerFinStep ==
    ASSUME TypeOK, PeerFin
    PROVE  /\ TypeOK'
           /\ peer.st = "established" /\ peer.una = NIn + 1
           /\ peer'.st = peer.st
           /\ peer'.rcv_next = peer.rcv_next
           /\ peer'.got = peer.got
           /\ peer'.una = peer.una
           /\ UNCHANGED <<client, read>>
           /\ Sends({PeerPacket("FIN", NIn + 1, <<>>)}, {})
<1>1. peer \in Peers /\ net \in Nets /\ peer.st = "established" /\ peer.una = NIn + 1
  BY DEF TypeOK, Nets, PeerFin, Established
<1>2. PeerPacket("FIN", NIn + 1, <<>>) \in Packets
  <2>1. NIn + 1 \in Nat /\ "FIN" \in {"SYN", "SYNACK", "ACK", "FIN"}
    BY SizeAssumption
  <2> QED BY <1>1, <2>1, PeerPacketFields, EmptyBytes
<1>3. net' \in Nets /\ Sends({PeerPacket("FIN", NIn + 1, <<>>)}, {})
  BY <1>1, <1>2, ToClientNet DEF Sends, PeerFin
<1>4. NIn + 2 \in 0 .. NIn + 2
  BY SizeAssumption
<1>5. /\ peer' \in Peers
      /\ peer'.st = peer.st
      /\ peer'.rcv_next = peer.rcv_next
      /\ peer'.got = peer.got
      /\ peer'.una = peer.una
  BY <1>1, <1>4 DEF PeerFin, Peers
<1>6. TypeOK'
  BY <1>3, <1>5, PeerType DEF PeerFin
<1> QED BY <1>1, <1>3, <1>5, <1>6 DEF PeerFin

\* A packet at the peer.
LEMMA PeerRecvStep ==
    ASSUME TypeOK, NEW m \in net.peer, PeerRecv(m)
    PROVE  /\ TypeOK'
           /\ UNCHANGED <<client, read>>
           /\ Sends({}, {})
           /\ \/ UNCHANGED peer
              \/ /\ m.kind = "SYN" /\ peer.st = "listen"
                 /\ peer'.st = "syn_received"
                 /\ peer'.rcv_next = Plus(m.seq, 1)
                 /\ peer'.got = peer.got
                 /\ peer'.una = peer.una
              \/ /\ m.kind # "SYN" /\ peer.st \in {"syn_received", "established"}
                 /\ peer'.una = AckedBy(m)
                 /\ \/ /\ m.seq # peer.rcv_next
                       /\ peer'.st = "established"
                       /\ peer'.rcv_next = peer.rcv_next
                       /\ peer'.got = peer.got
                    \/ /\ m.seq = peer.rcv_next /\ m.kind = "FIN"
                       /\ peer'.st = "closed"
                       /\ peer'.got = peer.got
                    \/ /\ m.seq = peer.rcv_next /\ m.kind # "FIN"
                       /\ peer'.st = "established"
                       /\ peer'.rcv_next = Plus(peer.rcv_next, Len(m.data))
                       /\ peer'.got = peer.got \o m.data
<1> DEFINE opens == m.kind = "SYN" /\ peer.st = "listen"
           comes == m.kind # "SYN" /\ (Established \/ (peer.st = "syn_received" /\ AckedBy(m) = 1))
           p == [peer EXCEPT !.st = "established", !.una = AckedBy(m)]
<1>1. peer \in Peers /\ net \in Nets /\ m \in Packets /\ UNCHANGED <<client, read>>
      /\ net' \in Arrived(net, "peer", m)
  BY DEF TypeOK, Nets, PeerRecv
<1>2. net' \in Nets /\ Sends({}, {})
  BY <1>1, ArrivedLess DEF Sends
<1>3. m.seq \in Seqs /\ m.data \in Seq(Nat) /\ AckedBy(m) \in 0 .. NIn + 2
  BY <1>1, AckedByValue DEF Packets
<1>4. /\ opens => peer' = [peer EXCEPT !.st = "syn_received", !.rcv_next = Plus(m.seq, 1), !.nxt = 1]
      /\ comes => peer' = IF m.seq # p.rcv_next THEN p
                          ELSE IF m.kind = "FIN"
                          THEN [p EXCEPT !.rcv_next = Plus(@, 1), !.st = "closed"]
                          ELSE [p EXCEPT !.rcv_next = Plus(@, Len(m.data)), !.got = @ \o m.data]
      /\ ~opens /\ ~comes => peer' = peer
  BY DEF PeerRecv
<1>5. CASE opens
  <2>1. Plus(m.seq, 1) \in Seqs /\ 1 \in 0 .. NIn + 2
    BY <1>3, PlusSeqs, SizeAssumption
  <2>2. /\ peer' \in Peers
        /\ peer'.st = "syn_received"
        /\ peer'.rcv_next = Plus(m.seq, 1)
        /\ peer'.got = peer.got
        /\ peer'.una = peer.una
    BY <1>1, <1>4, <1>5, <2>1 DEF Peers
  <2> QED BY <1>1, <1>2, <1>5, <2>2, PeerType
<1>6. CASE comes
  <2>1. p \in Peers /\ p.rcv_next = peer.rcv_next /\ p.got = peer.got /\ p.una = AckedBy(m)
        /\ p.st = "established"
    BY <1>1, <1>3 DEF Peers
  <2>2. m.kind # "SYN" /\ peer.st \in {"syn_received", "established"}
    BY <1>6 DEF Established
  <2>3. peer' = IF m.seq # p.rcv_next THEN p
                ELSE IF m.kind = "FIN"
                THEN [p EXCEPT !.rcv_next = Plus(@, 1), !.st = "closed"]
                ELSE [p EXCEPT !.rcv_next = Plus(@, Len(m.data)), !.got = @ \o m.data]
    BY <1>4, <1>6
  <2> HIDE DEF p
  <2>4. CASE m.seq # p.rcv_next
    <3>1. peer' = p
      BY <2>3, <2>4
    <3> QED BY <1>1, <1>2, <2>1, <2>2, <2>4, <3>1, PeerType
  <2>5. CASE m.seq = p.rcv_next /\ m.kind = "FIN"
    <3>1. peer' = [p EXCEPT !.rcv_next = Plus(@, 1), !.st = "closed"]
      BY <2>3, <2>5
    <3>2. Plus(p.rcv_next, 1) \in Seqs
      BY <2>1, PlusSeqs DEF Peers
    <3>3. peer' \in Peers /\ peer'.st = "closed" /\ peer'.got = p.got /\ peer'.una = p.una
      BY <2>1, <3>1, <3>2 DEF Peers
    <3> QED BY <1>1, <1>2, <2>1, <2>2, <2>5, <3>3, PeerType
  <2>6. CASE m.seq = p.rcv_next /\ m.kind # "FIN"
    <3>1. peer' = [p EXCEPT !.rcv_next = Plus(@, Len(m.data)), !.got = @ \o m.data]
      BY <2>3, <2>6
    <3>2. Plus(p.rcv_next, Len(m.data)) \in Seqs /\ p.got \o m.data \in Seq(Nat)
      BY <1>3, <2>1, PlusSeqs DEF Peers
    <3>3. /\ peer' \in Peers
          /\ peer'.st = "established"
          /\ peer'.rcv_next = Plus(p.rcv_next, Len(m.data))
          /\ peer'.got = p.got \o m.data
          /\ peer'.una = p.una
      BY <2>1, <3>1, <3>2 DEF Peers
    <3> QED BY <1>1, <1>2, <2>1, <2>2, <2>6, <3>3, PeerType
  <2> QED BY <2>4, <2>5, <2>6
<1>7. CASE ~opens /\ ~comes
  <2>1. peer' = peer
    BY <1>4, <1>7
  <2> QED BY <1>1, <1>2, <2>1, PeerType
<1> QED BY <1>5, <1>6, <1>7

-----------------------------------------------------------------------------
(* The stream to the client                                                *)

\* What holds at n bytes holds at more.
LEMMA ConfirmedGrows ==
    ASSUME NEW n \in 0 .. NIn, NEW k \in n .. NIn, NEW a \in 0 .. NIn + 2, Confirmed(a, n)
    PROVE  Confirmed(a, k)
BY SizeAssumption DEF Confirmed

LEMMA FromPeerGrows ==
    ASSUME NEW n \in 0 .. NIn, NEW k \in n .. NIn, NEW m, FromPeer(m, n)
    PROVE  FromPeer(m, k)
<1>1. n = NIn => k = NIn
  BY SizeAssumption
<1> QED BY <1>1 DEF FromPeer

LEMMA AcksRightGrows ==
    ASSUME NEW n \in 0 .. NIn, NEW k \in n .. NIn, NEW m, AcksRight(m, n)
    PROVE  AcksRight(m, k)
<1> SUFFICES ASSUME m.kind # "SYN"
             PROVE  \E a \in 1 .. NIn + 2 : m.ack = Plus(PeerSeq, a) /\ Confirmed(a, k)
  BY DEF AcksRight
<1>1. PICK a \in 1 .. NIn + 2 : m.ack = Plus(PeerSeq, a) /\ Confirmed(a, n)
  BY DEF AcksRight
<1>2. Confirmed(a, k)
  BY <1>1, ConfirmedGrows
<1> QED BY <1>1, <1>2

\* An answer of the client acknowledges what it has.
LEMMA AcksWhatIs ==
    ASSUME NEW n \in 0 .. NIn, NEW m, m.ack = Plus(PeerSeq, n + 1)
    PROVE  AcksRight(m, n)
<1>1. n + 1 \in 1 .. NIn + 2 /\ Confirmed(n + 1, n)
  BY SizeAssumption DEF Confirmed
<1> QED BY <1>1 DEF AcksRight

\* A step that does not touch the stream.
LEMMA InKept ==
    ASSUME InInv, TypeOK', Received' = Received,
           client'.recv_next = client.recv_next,
           client'.eof => client.eof \/ client.pc = "fin",
           Began(client') <=> Began(client),
           client'.pc = "fin" => client.pc = "fin" /\ client'.fin = client.fin,
           Confirmed(peer'.una, Len(Received)),
           NEW A, NEW B, Sends(A, B),
           \A m \in A : FromPeer(m, Len(Received)),
           \A m \in B : AcksRight(m, Len(Received))
    PROVE  InInv'
BY DEF InInv, InAt, Sends

\* A step that leaves the peer as well.
LEMMA InKeptClient ==
    ASSUME InInv, TypeOK', SameIn(client, client'), UNCHANGED <<peer, read>>,
           Began(client') <=> Began(client),
           client'.pc = "fin" => client.pc = "fin" /\ client'.fin = client.fin,
           NEW B, Sends({}, B),
           \A m \in B : AcksRight(m, Len(Received))
    PROVE  InInv'
<1>1. Received' = Received
  BY DEF Received, SameIn
<1>2. /\ client'.recv_next = client.recv_next
      /\ client'.eof => client.eof
      /\ Confirmed(peer'.una, Len(Received))
  BY DEF InInv, InAt, SameIn
<1> QED BY <1>1, <1>2, InKept

\* What the client sends once it has begun says what it has.
LEMMA SegmentAcks ==
    ASSUME InInv, NEW k \in {"ACK", "FIN"}, NEW bytes \in Seq(Nat), NEW c \in Clients,
           SameIn(client, c), Began(client)
    PROVE  AcksRight(Segment(c, k, bytes), Len(Received))
<1>1. Len(Received) \in 0 .. NIn /\ client.recv_next = Plus(PeerSeq, Len(Received) + 1)
  BY DEF InInv, InAt
<1>2. Segment(c, k, bytes).ack = Plus(PeerSeq, Len(Received) + 1)
  BY <1>1 DEF Segment, Packet, SameIn
<1> QED BY <1>1, <1>2, AcksWhatIs

LEMMA InInit == Init => InInv
<1> SUFFICES ASSUME Init PROVE InInv
  OBVIOUS
<1>1. Received = <<>> /\ Len(Received) = 0
  BY DEF Init, Received
<1>2. Run(1, 0) = <<>>
  <2>1. Run(1, 0) \in Seq(Nat) /\ Len(Run(1, 0)) = 0
    BY RunSeq
  <2> QED BY <2>1, EmptySeq
<1>3. Confirmed(0, 0)
  BY DEF Confirmed
<1>4. ~Began(client)
  BY DEF Init, Began
<1> QED BY <1>1, <1>2, <1>3, <1>4, InitType, SizeAssumption DEF InInv, InAt, Init

\* Bytes of the peer at the number that is next continue the stream.
LEMMA Continues ==
    ASSUME NEW n \in 0 .. NIn, NEW m \in Packets, FromPeer(m, n), m.data # <<>>,
           m.seq = Plus(PeerSeq, n + 1)
    PROVE  \E j \in n + 1 .. NIn :
              m.data = Run(n + 1, j) /\ Plus(m.seq, Len(m.data)) = Plus(PeerSeq, j + 1)
<1>1. PICK i \in 0 .. NIn + 2 :
         m.seq = Plus(PeerSeq, i) /\ i >= 1 /\ \E j \in i .. NIn : m.data = Run(i, j)
  BY DEF FromPeer
<1>2. PICK j \in i .. NIn : m.data = Run(i, j)
  BY <1>1
<1>3. PeerSeq \in Seqs /\ i \in Seqs /\ n + 1 \in Seqs
  BY SizeAssumption DEF Seqs
<1>4. i = n + 1
  BY <1>1, <1>3, PlusInjective
<1>5. i \in Nat /\ j \in Nat /\ i >= 1 /\ i <= j + 1
  BY <1>1, <1>2, SizeAssumption
<1>6. Len(m.data) = j - i + 1
  BY <1>2, <1>5, RunSeq
<1>7. Plus(m.seq, Len(m.data)) = Plus(PeerSeq, j + 1)
  <2> DEFINE l == j - i + 1
  <2>1. l \in Nat /\ i + l = j + 1 /\ i + l < Word
    BY <1>2, <1>5, SizeAssumption
  <2> HIDE DEF l
  <2>2. Plus(Plus(PeerSeq, i), l) = Plus(PeerSeq, i + l)
    BY <1>3, <1>5, <2>1, PlusPlus
  <2> QED BY <1>1, <1>6, <2>1, <2>2 DEF l
<1> QED BY <1>2, <1>4, <1>7

LEMMA UpdateIn == ASSUME InInv, NEW m \in net.client, Update(m) PROVE InInv'
<1> DEFINE n == Len(Received)
<1>1. TypeOK /\ client \in Clients /\ m \in Packets /\ InAt(n) /\ n \in 0 .. NIn /\ FromPeer(m, n)
  BY DEF InInv, InAt, TypeOK
<1>2. /\ TypeOK'
      /\ client.pc \in {"send", "recv"}
      /\ client'.eof = client.eof
      /\ UNCHANGED <<peer, read>>
  BY <1>1, UpdateStep
<1>3. PICK R \in SUBSET Packets :
         /\ Sends({}, R)
         /\ \A r \in R : r.kind = "ACK" /\ r.data = <<>>
         /\ \/ /\ m.kind = "FIN"
               /\ client'.pc = "fin"
               /\ client'.fin = <<m>>
               /\ SameIn(client, client')
               /\ \A r \in R : r.ack = Plus(client.recv_next, 1 + Len(m.data))
            \/ /\ m.kind # "FIN"
               /\ client'.pc = client.pc
               /\ IF m.data # <<>> /\ m.seq = client.recv_next
                  THEN /\ client'.recv_next = Plus(m.seq, Len(m.data))
                       /\ client'.buffer = client.buffer \o m.data
                  ELSE SameIn(client, client')
               /\ \A r \in R : r.ack = client'.recv_next
  BY <1>1, UpdateStep
<1>4. Began(client) /\ client.recv_next = Plus(PeerSeq, n + 1) /\ Received = Run(1, n)
  BY <1>1, <1>2 DEF InAt, Began
<1> HIDE DEF n
<1>5. CASE m.kind = "FIN"
  <2>1. /\ client'.pc = "fin"
        /\ client'.fin = <<m>>
        /\ SameIn(client, client')
        /\ \A r \in R : r.ack = Plus(client.recv_next, 1 + Len(m.data))
    BY <1>3, <1>5
  <2>2. m.data = <<>> /\ n = NIn
    BY <1>1, <1>5 DEF FromPeer
  <2>3. Plus(client.recv_next, 1 + Len(m.data)) = Plus(PeerSeq, NIn + 2)
    <3>1. Len(m.data) = 0 /\ PeerSeq \in Seqs /\ NIn + 1 \in Nat /\ (NIn + 1) + 1 < Word
          /\ (NIn + 1) + 1 = NIn + 2
      BY <2>2, SizeAssumption DEF Seqs
    <3>2. Plus(Plus(PeerSeq, NIn + 1), 1) = Plus(PeerSeq, (NIn + 1) + 1)
      BY <3>1, PlusPlus
    <3> QED BY <1>4, <2>2, <3>1, <3>2
  <2>4. \A r \in R : AcksRight(r, n)
    <3>1. NIn + 2 \in 1 .. NIn + 2 /\ Confirmed(NIn + 2, n)
      BY <2>2, SizeAssumption DEF Confirmed
    <3> QED BY <2>1, <2>3, <3>1 DEF AcksRight
  <2>5. Received' = Received
    BY <1>2, <2>1 DEF Received, SameIn
  <2>6. Head(client'.fin).data = <<>>
    BY <2>1, <2>2
  <2>7. \A p \in net'.client : FromPeer(p, n)
    BY <1>1, <1>3 DEF InAt, Sends
  <2>8. \A p \in net'.peer : AcksRight(p, n)
    BY <1>1, <1>3, <2>4 DEF InAt, Sends
  <2>9. Began(client') /\ client'.recv_next = client.recv_next
    BY <2>1 DEF Began, SameIn
  <2>10. InAt(n)'
    BY <1>1, <1>2, <1>4, <2>2, <2>5, <2>6, <2>7, <2>8, <2>9 DEF InAt, n
  <2> QED BY <1>2, <2>5, <2>10 DEF InInv, n
<1>6. CASE m.kind # "FIN" /\ m.data # <<>> /\ m.seq = client.recv_next
  <2>1. /\ client'.pc = client.pc
        /\ client'.recv_next = Plus(m.seq, Len(m.data))
        /\ client'.buffer = client.buffer \o m.data
        /\ \A r \in R : r.ack = client'.recv_next
    BY <1>3, <1>6
  <2>2. PICK j \in n + 1 .. NIn :
           m.data = Run(n + 1, j) /\ Plus(m.seq, Len(m.data)) = Plus(PeerSeq, j + 1)
    BY <1>1, <1>4, <1>6, Continues
  <2>3. j \in n .. NIn /\ j \in 0 .. NIn /\ n \in Nat /\ j \in Nat
    BY <1>1, <2>2, SizeAssumption
  <2>4. Received' = Run(1, j)
    <3>1. Received' = read \o (client.buffer \o m.data)
      BY <1>2, <2>1 DEF Received
    <3>2. read \in Seq(Nat) /\ client.buffer \in Seq(Nat) /\ m.data \in Seq(Nat)
      BY <1>1 DEF TypeOK, Clients, Packets
    <3>3. \A s, t, u \in Seq(Nat) : (s \o t) \o u = s \o (t \o u)
      BY ConcatAssociative, SMTT(30)
    <3>4. Received' = Received \o m.data
      BY <3>1, <3>2, <3>3 DEF Received
    <3>5. Run(1, n) \o Run(n + 1, j) = Run(1, j)
      <4>1. 1 \in Nat /\ 1 >= 1 /\ 1 <= n + 1 /\ n <= j
        BY <2>2, <2>3
      <4> QED BY <2>3, <4>1, RunConcat
    <3> QED BY <1>4, <2>2, <3>4, <3>5
  <2>5. Len(Received') = j
    BY <2>3, <2>4, RunSeq
  <2>6. \A r \in R : AcksRight(r, j)
    BY <2>1, <2>2, <2>3, AcksWhatIs
  <2>7. \A p \in net'.client : FromPeer(p, j)
    BY <1>1, <1>3, <2>3, FromPeerGrows DEF InAt, Sends
  <2>8. \A p \in net'.peer : AcksRight(p, j)
    BY <1>1, <1>3, <2>3, <2>6, AcksRightGrows DEF InAt, Sends
  <2>9. Confirmed(peer'.una, j)
    <3>1. peer.una \in 0 .. NIn + 2 /\ Confirmed(peer.una, n)
      BY <1>1 DEF TypeOK, Peers, InAt
    <3> QED BY <1>1, <1>2, <2>3, <3>1, ConfirmedGrows
  <2>10. client'.eof => j = NIn
    BY <1>1, <1>2, <2>2, <2>3 DEF InAt
  <2>11. Began(client') /\ client'.pc # "fin"
    BY <1>2, <2>1 DEF Began
  <2>12. InAt(j)'
    BY <2>1, <2>2, <2>3, <2>4, <2>7, <2>8, <2>9, <2>10, <2>11 DEF InAt
  <2> QED BY <1>2, <2>5, <2>12 DEF InInv
<1>7. CASE m.kind # "FIN" /\ ~(m.data # <<>> /\ m.seq = client.recv_next)
  <2>1. client'.pc = client.pc /\ SameIn(client, client') /\ \A r \in R : r.ack = client'.recv_next
    BY <1>3, <1>7
  <2>2. \A r \in R : AcksRight(r, n)
    BY <1>1, <1>4, <2>1, AcksWhatIs DEF SameIn
  <2> QED BY <1>2, <1>3, <2>1, <2>2, InKeptClient DEF Began, n
<1> QED BY <1>5, <1>6, <1>7

LEMMA ConnectRecvIn == ASSUME InInv, NEW m \in net.client, ConnectRecv(m) PROVE InInv'
<1> DEFINE n == Len(Received)
<1>1. TypeOK /\ client \in Clients /\ InAt(n) /\ n \in 0 .. NIn /\ FromPeer(m, n)
  BY DEF InInv, InAt, TypeOK
<1>2. TypeOK' /\ client.pc = "connect" /\ UNCHANGED <<peer, read>>
  BY <1>1, ConnectRecvStep
<1>3. CASE UNCHANGED client /\ Sends({}, {})
  BY <1>2, <1>3, InKeptClient DEF SameIn, Began
<1>4. CASE /\ m.kind = "SYNACK"
           /\ client'.pc = "app"
           /\ client'.recv_next = Plus(m.seq, 1)
           /\ client'.buffer = client.buffer
           /\ client'.eof = client.eof
           /\ Sends({}, {Segment(client', "ACK", <<>>)})
  <2>1. n = 0
    BY <1>1, <1>2 DEF InAt, Began
  <2>2. client'.recv_next = Plus(PeerSeq, n + 1)
    <3>1. m.seq = Plus(PeerSeq, 0)
      BY <1>1, <1>4 DEF FromPeer
    <3>2. PeerSeq \in Seqs /\ 0 + 1 < Word
      BY SizeAssumption DEF Seqs
    <3>3. Plus(Plus(PeerSeq, 0), 1) = Plus(PeerSeq, 0 + 1)
      BY <3>2, PlusPlus
    <3> QED BY <1>4, <2>1, <3>1, <3>3
  <2>3. Segment(client', "ACK", <<>>).ack = Plus(PeerSeq, n + 1)
    BY <2>2 DEF Segment, Packet
  <2>4. AcksRight(Segment(client', "ACK", <<>>), n)
    BY <1>1, <2>3, AcksWhatIs
  <2>5. Received' = Received /\ Began(client')
    BY <1>2, <1>4 DEF Received, Began
  <2> HIDE DEF n
  <2>6. \A p \in net'.client : FromPeer(p, n)
    BY <1>1, <1>4 DEF InAt, Sends
  <2>7. \A p \in net'.peer : AcksRight(p, n)
    BY <1>1, <1>4, <2>4 DEF InAt, Sends
  <2>8. InAt(n)'
    BY <1>1, <1>2, <1>4, <2>2, <2>5, <2>6, <2>7 DEF InAt, n
  <2> QED BY <1>2, <2>5, <2>8 DEF InInv, n
<1> QED BY <1>1, <1>3, <1>4, ConnectRecvStep

LEMMA FinEndIn == ASSUME InInv, FinEnd PROVE InInv'
<1>1. TypeOK /\ InAt(Len(Received)) /\ client.pc = "fin"
  BY DEF InInv, FinEnd
<1>2. Head(client.fin).data = <<>>
  BY <1>1 DEF InAt
<1>3. /\ TypeOK'
      /\ client'.pc \in {"app", "send", "recv"}
      /\ client'.recv_next = client.recv_next
      /\ client'.buffer = client.buffer
      /\ UNCHANGED <<peer, read>>
      /\ Sends({}, {})
  BY <1>1, <1>2, FinEndStep
<1>4. Received' = Received /\ (Began(client') <=> Began(client)) /\ client'.pc # "fin"
  BY <1>1, <1>3 DEF Received, Began
<1>5. Confirmed(peer'.una, Len(Received))
  BY <1>1, <1>3 DEF InAt
<1> QED BY <1>1, <1>3, <1>4, <1>5, InKept

LEMMA PeerRecvIn == ASSUME InInv, NEW m \in net.peer, PeerRecv(m) PROVE InInv'
<1> DEFINE n == Len(Received)
<1>1. /\ TypeOK /\ InAt(n) /\ n \in 0 .. NIn /\ AcksRight(m, n) /\ Confirmed(peer.una, n)
      /\ m \in Packets /\ peer \in Peers
  BY DEF InInv, InAt, TypeOK
<1>2. TypeOK' /\ UNCHANGED <<client, read>> /\ Sends({}, {})
  BY <1>1, PeerRecvStep
<1>3. peer'.una = peer.una \/ (m.kind # "SYN" /\ peer'.una = AckedBy(m))
  BY <1>1, PeerRecvStep
<1> HIDE DEF n
<1>4. Confirmed(peer'.una, n)
  <2>1. CASE peer'.una = peer.una
    BY <1>1, <2>1
  <2>2. CASE m.kind # "SYN" /\ peer'.una = AckedBy(m)
    <3>1. PICK a \in 1 .. NIn + 2 : m.ack = Plus(PeerSeq, a) /\ Confirmed(a, n)
      BY <1>1, <2>2 DEF AcksRight
    <3>2. a \in 0 .. NIn + 2
      BY SizeAssumption
    <3>3. AckedBy(m) \in {a, peer.una}
      BY <1>1, <3>1, <3>2, AckedByValue
    <3> QED BY <1>1, <2>2, <3>1, <3>3
  <2> QED BY <1>3, <2>1, <2>2
<1>5. Received' = Received /\ UNCHANGED client
  BY <1>2 DEF Received
<1> QED BY <1>2, <1>4, <1>5, InKept DEF n

LEMMA PeerSendsIn ==
    ASSUME InInv, PeerSynAck \/ PeerAck \/ PeerFin \/ \E i \in 1 .. NIn : \E j \in i .. NIn : PeerSend(i, j)
    PROVE  InInv'
<1> DEFINE n == Len(Received)
<1>1. TypeOK /\ InAt(n) /\ n \in 0 .. NIn /\ Confirmed(peer.una, n) /\ peer \in Peers
  BY DEF InInv, InAt, TypeOK
<1>2. ASSUME TypeOK', UNCHANGED <<client, read>>, peer'.una = peer.una,
             NEW m, FromPeer(m, n), Sends({m}, {})
      PROVE  InInv'
  <2>1. Received' = Received
    BY <1>2 DEF Received
  <2>2. Confirmed(peer'.una, n)
    BY <1>1, <1>2
  <2> QED BY <1>2, <2>1, <2>2, InKept
<1> HIDE DEF n
<1>3. CASE PeerSynAck \/ PeerAck
  <2>1. TypeOK' /\ UNCHANGED <<client, peer, read>>
    BY <1>1, <1>3, PeerTellStep
  <2>2. PICK k \in {"SYNACK", "ACK"}, i \in 0 .. NIn + 2 :
           (k = "SYNACK" => i = 0) /\ Sends({PeerPacket(k, i, <<>>)}, {})
    BY <1>1, <1>3, PeerTellStep
  <2>3. FromPeer(PeerPacket(k, i, <<>>), n)
    BY <2>2 DEF FromPeer, PeerPacket, Packet
  <2> QED BY <1>2, <2>1, <2>2, <2>3
<1>4. CASE PeerFin
  <2>1. /\ TypeOK'
        /\ peer.una = NIn + 1
        /\ peer'.una = peer.una
        /\ UNCHANGED <<client, read>>
        /\ Sends({PeerPacket("FIN", NIn + 1, <<>>)}, {})
    BY <1>1, <1>4, PeerFinStep
  <2>2. n = NIn /\ NIn + 1 \in 0 .. NIn + 2
    BY <1>1, <2>1, SizeAssumption DEF Confirmed
  <2>3. FromPeer(PeerPacket("FIN", NIn + 1, <<>>), n)
    BY <2>2 DEF FromPeer, PeerPacket, Packet
  <2> QED BY <1>2, <2>1, <2>3
<1>5. ASSUME NEW i \in 1 .. NIn, NEW j \in i .. NIn, PeerSend(i, j)
      PROVE  InInv'
  <2>1. /\ TypeOK'
        /\ peer'.una = peer.una
        /\ UNCHANGED <<client, read>>
        /\ Sends({PeerPacket("ACK", i, Run(i, j))}, {})
    BY <1>1, <1>5, PeerSendStep
  <2>2. i \in 0 .. NIn + 2 /\ i >= 1
    BY SizeAssumption
  <2>3. FromPeer(PeerPacket("ACK", i, Run(i, j)), n)
    BY <2>2 DEF FromPeer, PeerPacket, Packet
  <2> QED BY <1>2, <2>1, <2>3
<1> QED BY <1>3, <1>4, <1>5

LEMMA InStep == InInv /\ [Next]_vars => InInv'
<1> SUFFICES ASSUME InInv, [Next]_vars
             PROVE  InInv'
  OBVIOUS
<1>1. TypeOK /\ client \in Clients
  BY DEF InInv, TypeOK
<1>2. CASE Connect
  <2>1. /\ TypeOK' /\ client.pc = "new" /\ client'.pc = "connect"
        /\ SameIn(client, client') /\ UNCHANGED <<peer, read>>
        /\ Sends({}, {Segment(client, "SYN", <<>>)})
    BY <1>1, <1>2, ConnectStep
  <2>2. AcksRight(Segment(client, "SYN", <<>>), Len(Received))
    BY DEF AcksRight, Segment, Packet
  <2> QED BY <2>1, <2>2, InKeptClient DEF Began
<1>3. CASE RecvCall \/ RecvTimeout \/ ConnectTimeout \/ CloseEnd
  <2>1. /\ TypeOK' /\ client'.pc # "fin" /\ (Began(client') <=> Began(client))
        /\ SameIn(client, client') /\ UNCHANGED <<peer, read>> /\ Sends({}, {})
    BY <1>1, <1>3, MoveStep
  <2> QED BY <2>1, InKeptClient
<1>4. CASE CloseCall
  <2>1. /\ TypeOK' /\ client.pc = "app" /\ client'.pc = "close"
        /\ SameIn(client, client') /\ UNCHANGED <<peer, read>>
        /\ Sends({}, {Segment(client, "FIN", <<>>)})
    BY <1>1, <1>4, CloseCallStep
  <2>2. AcksRight(Segment(client, "FIN", <<>>), Len(Received))
    BY <1>1, <2>1, SegmentAcks, EmptyBytes DEF Began, SameIn
  <2> QED BY <2>1, <2>2, InKeptClient DEF Began
<1>5. CASE CloseResend
  <2>1. /\ TypeOK' /\ client.pc \in {"fin", "close"} /\ UNCHANGED <<client, peer, read>>
        /\ Sends({}, {Segment(client, "FIN", <<>>)})
    BY <1>1, <1>5, CloseResendStep
  <2>2. AcksRight(Segment(client, "FIN", <<>>), Len(Received))
    BY <1>1, <2>1, SegmentAcks, EmptyBytes DEF Began, SameIn
  <2> QED BY <2>1, <2>2, InKeptClient DEF SameIn
<1>6. CASE Retry
  <2>1. /\ TypeOK' /\ client.pc = "send" /\ client'.pc = "send"
        /\ SameIn(client, client') /\ UNCHANGED <<peer, read>>
        /\ Sends({}, {Segment(client', "ACK", client'.segment)})
    BY <1>1, <1>6, RetryStep
  <2>2. client' \in Clients /\ client'.segment \in Seq(Nat)
    BY <2>1 DEF TypeOK, Clients
  <2>3. AcksRight(Segment(client', "ACK", client'.segment), Len(Received))
    BY <2>1, <2>2, SegmentAcks DEF Began
  <2> QED BY <2>1, <2>3, InKeptClient DEF Began
<1>7. CASE SegmentDone
  <2>1. /\ TypeOK' /\ client.pc = "send" /\ client'.pc \in {"send", "app"}
        /\ SameIn(client, client') /\ UNCHANGED <<peer, read>>
        /\ Sends({}, {Segment(client', "ACK", client'.segment)})
    BY <1>1, <1>7, SegmentDoneType
  <2>2. client' \in Clients /\ client'.segment \in Seq(Nat)
    BY <2>1 DEF TypeOK, Clients
  <2>3. AcksRight(Segment(client', "ACK", client'.segment), Len(Received))
    BY <2>1, <2>2, SegmentAcks DEF Began
  <2> QED BY <2>1, <2>3, InKeptClient DEF Began
<1>8. CASE SendFail
  <2>1. /\ TypeOK' /\ client.pc = "send" /\ client'.pc = "app"
        /\ SameIn(client, client') /\ UNCHANGED <<peer, read>> /\ Sends({}, {})
    BY <1>1, <1>8, SendFailStep
  <2> QED BY <2>1, InKeptClient DEF Began
<1>9. CASE SendDone
  <2>1. /\ TypeOK' /\ client.pc = "send" /\ client'.pc = "app"
        /\ SameIn(client, client') /\ UNCHANGED <<peer, read>> /\ Sends({}, {})
    BY <1>1, <1>9, SendDoneStep
  <2> QED BY <2>1, InKeptClient DEF Began
<1>10. ASSUME NEW n \in 1 .. NOut, SendCall(n)
       PROVE  InInv'
  <2>1. /\ TypeOK' /\ client.pc = "app" /\ client'.pc = "send"
        /\ SameIn(client, client') /\ UNCHANGED <<peer, read>>
        /\ Sends({}, {Segment(client', "ACK", client'.segment)})
    BY <1>1, <1>10, SendCallStep
  <2>2. client' \in Clients /\ client'.segment \in Seq(Nat)
    BY <2>1 DEF TypeOK, Clients
  <2>3. AcksRight(Segment(client', "ACK", client'.segment), Len(Received))
    BY <2>1, <2>2, SegmentAcks DEF Began
  <2> QED BY <2>1, <2>3, InKeptClient DEF Began
<1>11. ASSUME NEW n \in 1 .. NIn, RecvReturn(n)
       PROVE  InInv'
  <2>1. /\ TypeOK' /\ client.pc \in {"recv", "app"} /\ client'.pc = "app"
        /\ Received' = Received
        /\ client'.recv_next = client.recv_next
        /\ client'.eof = client.eof
        /\ UNCHANGED peer /\ Sends({}, {})
    BY <1>1, <1>11, RecvReturnStep
  <2>2. Confirmed(peer'.una, Len(Received))
    BY <2>1 DEF InInv, InAt
  <2> QED BY <2>1, <2>2, InKept DEF Began
<1>12. ASSUME NEW m \in net.client, CloseRecv(m)
       PROVE  InInv'
  <2>1. /\ TypeOK' /\ client'.pc = client.pc /\ client'.fin = client.fin
        /\ SameIn(client, client') /\ UNCHANGED <<peer, read>> /\ Sends({}, {})
    BY <1>1, <1>12, CloseRecvStep
  <2> QED BY <2>1, InKeptClient DEF Began
<1>13. CASE UNCHANGED vars
  BY <1>13 DEF InInv, InAt, TypeOK, Received, vars
<1>14. CASE ClientCalls
  BY <1>2, <1>3, <1>4, <1>5, <1>6, <1>7, <1>8, <1>9, <1>10, <1>11, <1>14, FinEndIn DEF ClientCalls
<1>15. CASE ClientReads
  BY <1>12, <1>15, ConnectRecvIn, UpdateIn DEF ClientReads
<1>16. CASE PeerSteps
  BY <1>16, PeerSendsIn, PeerRecvIn DEF PeerSteps
<1> QED BY <1>13, <1>14, <1>15, <1>16 DEF Next

\* Numbers stay in their width and counts within the streams (mlw.h:17-39): the
\* types, of which the proofs of the streams make use.
THEOREM TypeCorrect == Spec => []TypeOK
<1>1. Spec => []InInv
  BY InInit, InStep, PTL DEF Spec
<1>2. InInv => TypeOK
  BY DEF InInv
<1> QED BY <1>1, <1>2, PTL

\* The caller gets the bytes of the peer in order and once, the peer takes no byte for
\* arrived that the client does not have, and the end of the stream is reported only
\* when all of it is there (update.c:51-80), for streams of every length
\* below the word size.
THEOREM InStreamCorrect == Spec => []InStream
<1>1. Spec => []InInv
  BY InInit, InStep, PTL DEF Spec
<1>2. InInv => InStream
  <2> SUFFICES ASSUME InInv PROVE InStream
    OBVIOUS
  <2>1. InAt(Len(Received)) /\ peer.una \in 0 .. NIn + 2
    BY DEF InInv, TypeOK, Peers
  <2> QED BY <2>1, SizeAssumption DEF InAt, InStream, Confirmed
<1> QED BY <1>1, <1>2, PTL

-----------------------------------------------------------------------------
(* The stream to the peer                                                  *)

LEMMA OutInit == Init => OutInv
<1> SUFFICES ASSUME Init PROVE OutInv
  OBVIOUS
<1>1. Run(1, 0) = <<>> /\ 0 \in 0 .. NOut
  <2>1. Run(1, 0) \in Seq(Nat) /\ Len(Run(1, 0)) = 0
    BY RunSeq
  <2> QED BY <2>1, EmptySeq, SizeAssumption
<1>2. PeerAt(peer, 0) /\ peer.got = <<>>
  BY <1>1 DEF Init, PeerAt
<1>3. ClientAt(client, 0) /\ client.returned = 0
  BY DEF Init, ClientAt
<1>4. OutAt(0)
  BY <1>2, <1>3 DEF OutAt, Init
<1> QED BY <1>2, <1>3, <1>4, InitType DEF OutInv

\* A step of the client that leaves what was told.
LEMMA OutKeptClient ==
    ASSUME OutInv, TypeOK', UNCHANGED peer, client'.returned = client.returned,
           NEW B, Sends({}, B),
           Clean(client') =>
              /\ Clean(client)
              /\ client.pc = "close" => client'.pc = "close"
              /\ OutAt(Len(peer.got)) => ClientAt(client', Len(peer.got))
              /\ \A m \in B : FromClient(m, client')
    PROVE  OutInv'
<1> DEFINE n == Len(peer.got)
<1>1. /\ Len(peer'.got) >= client'.returned
      /\ \A i \in 1 .. client'.returned : peer'.got[i] = i
  BY DEF OutInv
<1>2. ASSUME Clean(client')
      PROVE  OutAt(n)'
  <2>1. OutAt(n) /\ Clean(client)
    BY <1>2 DEF OutInv
  <2>2. PeerAt(peer', n) /\ ClientAt(client', n)
    BY <1>2, <2>1 DEF OutAt
  <2>3. \A m \in net'.peer : FromClient(m, client')
    <3> SUFFICES ASSUME NEW m \in net'.peer PROVE FromClient(m, client')
      OBVIOUS
    <3>1. CASE m \in B
      BY <1>2, <3>1
    <3>2. CASE m \in net.peer
      BY <1>2, <2>1, <3>2 DEF OutAt, FromClient
    <3> QED BY <3>1, <3>2 DEF Sends
  <2>4. client'.pc # "close" => peer'.st # "closed" /\ \A m \in net'.client : AcksGot(m, n)
    BY <1>2, <2>1 DEF OutAt, Sends
  <2> HIDE DEF n
  <2>5. n' = n
    BY DEF n
  <2> QED BY <2>2, <2>3, <2>4, <2>5 DEF OutAt
<1> QED BY <1>1, <1>2 DEF OutInv

\* An acknowledgment without bytes has nothing at a place.
LEMMA AckFromClient ==
    ASSUME NEW m, NEW c, m.kind = "ACK", m.data = <<>>
    PROVE  FromClient(m, c)
BY DEF FromClient

\* The number after bytes b + 1 .. e.
LEMMA AfterSegment ==
    ASSUME NEW b \in Nat, NEW e \in Nat, b < e, e <= NOut
    PROVE  /\ Len(Run(b + 1, e)) = e - b
           /\ Plus(Plus(FirstSeq, b + 1), e - b) = Plus(FirstSeq, e + 1)
<1> DEFINE i == b + 1
           l == e - b
<1>1. i \in Nat /\ i >= 1 /\ i <= e + 1 /\ e - i + 1 = l /\ l \in Nat /\ i + l = e + 1 /\ i + l < Word
      /\ FirstSeq \in Seqs
  BY SizeAssumption DEF Seqs
<1> HIDE DEF i, l
<1>2. Len(Run(i, e)) = l
  BY <1>1, RunSeq
<1>3. Plus(Plus(FirstSeq, i), l) = Plus(FirstSeq, e + 1)
  <2>1. Plus(Plus(FirstSeq, i), l) = Plus(FirstSeq, i + l)
    BY <1>1, PlusPlus
  <2> QED BY <1>1, <2>1
<1> QED BY <1>2, <1>3 DEF i, l

\* A segment at its place.
LEMMA SegmentFromClient ==
    ASSUME NEW c, NEW b \in 0 .. NOut, NEW e \in b + 1 .. NOut, c.send_next = Plus(FirstSeq, b + 1),
           c.segment = Run(b + 1, e)
    PROVE  FromClient(Segment(c, "ACK", c.segment), c)
<1>1. b + 1 \in 1 .. NOut /\ e \in b + 1 .. NOut
  BY SizeAssumption
<1> QED BY <1>1 DEF FromClient, Segment, Packet

LEMMA ConnectOut == ASSUME OutInv, Connect PROVE OutInv'
<1>1. TypeOK
  BY DEF OutInv
<1>2. /\ TypeOK'
      /\ client.pc = "new" /\ client'.pc = "connect"
      /\ client'.send_next = Plus(client.send_next, 1)
      /\ client'.given = client.given
      /\ client'.returned = client.returned
      /\ client'.failed = client.failed
      /\ UNCHANGED peer
      /\ Sends({}, {Segment(client, "SYN", <<>>)})
  BY <1>1, ConnectStep
<1>3. Clean(client) /\ ClientAt(client, Len(peer.got))
  BY <1>2 DEF Clean, OutInv, OutAt
<1>4. client.send_next = FirstSeq /\ client.given = 0 /\ ~client.failed
  BY <1>2, <1>3 DEF ClientAt
<1>5. ClientAt(client', Len(peer.got))
  BY <1>2, <1>4 DEF ClientAt
<1>6. FromClient(Segment(client, "SYN", <<>>), client')
  BY <1>4 DEF FromClient, Segment, Packet
<1> QED BY <1>2, <1>3, <1>5, <1>6, OutKeptClient

LEMMA ConnectRecvOut == ASSUME OutInv, NEW m \in net.client, ConnectRecv(m) PROVE OutInv'
<1>1. TypeOK
  BY DEF OutInv
<1>2. TypeOK' /\ client.pc = "connect" /\ UNCHANGED peer
  BY <1>1, ConnectRecvStep
<1>3. Clean(client) /\ ClientAt(client, Len(peer.got))
  BY <1>2 DEF Clean, OutInv, OutAt
<1>4. CASE UNCHANGED client /\ Sends({}, {})
  BY <1>2, <1>3, <1>4, OutKeptClient
<1>5. CASE /\ client'.pc = "app"
           /\ client'.send_next = client.send_next
           /\ client'.given = client.given
           /\ client'.returned = client.returned
           /\ client'.failed = client.failed
           /\ Sends({}, {Segment(client', "ACK", <<>>)})
  <2>1. ClientAt(client', Len(peer.got))
    BY <1>2, <1>3, <1>5 DEF ClientAt
  <2>2. FromClient(Segment(client', "ACK", <<>>), client')
    BY AckFromClient DEF Segment, Packet
  <2> QED BY <1>2, <1>3, <1>5, <2>1, <2>2, OutKeptClient
<1> QED BY <1>1, <1>4, <1>5, ConnectRecvStep

LEMMA SendCallOut == ASSUME OutInv, NEW n \in 1 .. NOut, SendCall(n) PROVE OutInv'
<1>1. TypeOK
  BY DEF OutInv
<1>2. /\ TypeOK'
      /\ client.pc = "app" /\ client.is_open /\ ~client.failed
      /\ client'.pc = "send"
      /\ ~client'.failed
      /\ client'.send_next = client.send_next
      /\ client'.given = client.given + n
      /\ client'.returned = client.returned
      /\ client'.is_waiting_seq
      /\ UNCHANGED peer
      /\ Sends({}, {Segment(client', "ACK", client'.segment)})
  BY <1>1, SendCallStep
<1>3. PICK e \in client.given + 1 .. client'.given :
         /\ client'.segment = Run(client.given + 1, e)
         /\ client'.rest = Run(e + 1, client'.given)
         /\ client'.seq_to_wait = Plus(client.send_next, e - client.given)
  BY <1>1, SendCallStep
<1> DEFINE b == client.given
<1>4. b \in 0 .. NOut /\ client'.given \in 0 .. NOut /\ b \in Nat /\ e \in Nat /\ b < e /\ e <= NOut
      /\ e \in b + 1 .. client'.given /\ e \in b + 1 .. NOut
  <2>1. b \in 0 .. NOut /\ client'.given \in 0 .. NOut
    BY <1>1, <1>2 DEF TypeOK, Clients
  <2> QED BY <1>3, <2>1, SizeAssumption
<1>5. Clean(client) /\ ClientAt(client, Len(peer.got))
  BY <1>2 DEF Clean, OutInv, OutAt
<1>6. client.send_next = Plus(FirstSeq, b + 1)
  BY <1>2, <1>5 DEF ClientAt
<1> HIDE DEF b
<1>7. client'.seq_to_wait = Plus(FirstSeq, e + 1)
  <2>1. client'.seq_to_wait = Plus(Plus(FirstSeq, b + 1), e - b)
    BY <1>3, <1>6 DEF b
  <2> QED BY <1>4, <2>1, AfterSegment
<1>8. client'.send_next = Plus(FirstSeq, b + 1) /\ client'.segment = Run(b + 1, e)
  BY <1>2, <1>3, <1>6 DEF b
<1>9. Sending(client', Len(peer.got))
  BY <1>2, <1>3, <1>4, <1>7, <1>8 DEF Sending
<1>10. ClientAt(client', Len(peer.got))
  BY <1>2, <1>9 DEF ClientAt
<1>11. FromClient(Segment(client', "ACK", client'.segment), client')
  BY <1>4, <1>8, SegmentFromClient
<1> QED BY <1>2, <1>5, <1>10, <1>11, OutKeptClient

\* What is known of the segment of a send.
LEMMA SendingFacts ==
    ASSUME OutInv, client.pc = "send", client.is_open
    PROVE  /\ Clean(client)
           /\ ~client.failed
           /\ \E b \in 0 .. NOut, e \in 1 .. NOut :
                 /\ b \in Nat /\ e \in Nat /\ client.given \in Nat
                 /\ b < e /\ e <= client.given /\ client.given <= NOut
                 /\ client.send_next = Plus(FirstSeq, b + 1)
                 /\ client.segment = Run(b + 1, e)
                 /\ Len(client.segment) = e - b
                 /\ Plus(client.send_next, e - b) = Plus(FirstSeq, e + 1)
                 /\ client.rest = Run(e + 1, client.given)
                 /\ IF client.is_waiting_seq THEN client.seq_to_wait = Plus(FirstSeq, e + 1)
                    ELSE Len(peer.got) >= e
<1>1. Clean(client) /\ ClientAt(client, Len(peer.got)) /\ client.given \in 0 .. NOut
  BY DEF Clean, OutInv, OutAt, TypeOK, Clients
<1>2. ~client.failed /\ Sending(client, Len(peer.got))
  BY <1>1 DEF ClientAt
<1>3. PICK b \in 0 .. NOut : \E e \in b + 1 .. client.given :
         /\ client.send_next = Plus(FirstSeq, b + 1)
         /\ client.segment = Run(b + 1, e)
         /\ client.rest = Run(e + 1, client.given)
         /\ IF client.is_waiting_seq THEN client.seq_to_wait = Plus(FirstSeq, e + 1)
            ELSE Len(peer.got) >= e
  BY <1>2 DEF Sending
<1>4. PICK e \in b + 1 .. client.given :
         /\ client.send_next = Plus(FirstSeq, b + 1)
         /\ client.segment = Run(b + 1, e)
         /\ client.rest = Run(e + 1, client.given)
         /\ IF client.is_waiting_seq THEN client.seq_to_wait = Plus(FirstSeq, e + 1)
            ELSE Len(peer.got) >= e
  BY <1>3
<1>5. /\ b \in Nat /\ e \in Nat /\ client.given \in Nat
      /\ b < e /\ e <= client.given /\ client.given <= NOut /\ e <= NOut /\ e \in 1 .. NOut
  BY <1>1, <1>4, SizeAssumption
<1>6. Len(client.segment) = e - b /\ Plus(client.send_next, e - b) = Plus(FirstSeq, e + 1)
  BY <1>4, <1>5, AfterSegment
<1> QED BY <1>1, <1>2, <1>4, <1>5, <1>6

LEMMA RetryOut == ASSUME OutInv, Retry PROVE OutInv'
<1>1. TypeOK
  BY DEF OutInv
<1>2. /\ TypeOK'
      /\ client.pc = "send" /\ client'.pc = "send"
      /\ SameOut(client, client')
      /\ client'.is_waiting_seq
      /\ client'.segment = client.segment
      /\ client'.rest = client.rest
      /\ client'.seq_to_wait = Plus(client.send_next, Len(client.segment))
      /\ UNCHANGED peer
      /\ Sends({}, {Segment(client', "ACK", client'.segment)})
  BY <1>1, RetryStep
<1>3. ASSUME Clean(client')
      PROVE  /\ Clean(client)
             /\ ClientAt(client', Len(peer.got))
             /\ FromClient(Segment(client', "ACK", client'.segment), client')
  <2>1. client.is_open
    BY <1>2, <1>3 DEF Clean, SameOut
  <2>2. Clean(client) /\ ~client.failed
    BY <1>2, <2>1, SendingFacts
  <2>3. PICK b \in 0 .. NOut, e \in 1 .. NOut :
           /\ b \in Nat /\ e \in Nat /\ b < e /\ e <= client.given /\ client.given <= NOut
           /\ client.given \in Nat
           /\ client.send_next = Plus(FirstSeq, b + 1)
           /\ client.segment = Run(b + 1, e)
           /\ Len(client.segment) = e - b
           /\ Plus(client.send_next, e - b) = Plus(FirstSeq, e + 1)
           /\ client.rest = Run(e + 1, client.given)
    BY <1>2, <2>1, SendingFacts
  <2>4. Sending(client', Len(peer.got))
    <3>1. e \in b + 1 .. client.given
      BY <2>3
    <3> QED BY <1>2, <2>3, <3>1 DEF Sending, SameOut
  <2>5. ClientAt(client', Len(peer.got))
    BY <1>2, <2>2, <2>4 DEF ClientAt, SameOut
  <2>6. e \in b + 1 .. NOut /\ client'.send_next = Plus(FirstSeq, b + 1)
        /\ client'.segment = Run(b + 1, e)
    BY <1>2, <2>3, SizeAssumption DEF SameOut
  <2> QED BY <2>2, <2>3, <2>5, <2>6, SegmentFromClient
<1>4. client'.returned = client.returned
  BY <1>2 DEF SameOut
<1> QED BY <1>2, <1>3, <1>4, OutKeptClient

LEMMA SendFailOut == ASSUME OutInv, SendFail PROVE OutInv'
<1>1. TypeOK
  BY DEF OutInv
<1>2. /\ TypeOK'
      /\ client.pc = "send" /\ client'.pc = "app" /\ client'.failed
      /\ client'.is_open = client.is_open
      /\ client'.returned = client.returned
      /\ UNCHANGED peer
      /\ Sends({}, {})
  BY <1>1, SendFailStep
<1>3. Clean(client') => Clean(client) /\ ClientAt(client', Len(peer.got))
  BY <1>2 DEF Clean, ClientAt
<1> QED BY <1>2, <1>3, OutKeptClient

LEMMA SegmentDoneOut == ASSUME OutInv, SegmentDone PROVE OutInv'
<1>1. TypeOK /\ client.pc = "send" /\ client.rest # <<>>
  BY DEF OutInv, SegmentDone
<1>2. CASE ~client.is_open
  <2>1. /\ TypeOK'
        /\ client'.returned = client.returned
        /\ Clean(client') => client.is_open
        /\ UNCHANGED peer
        /\ Sends({}, {Segment(client', "ACK", client'.segment)})
    BY <1>1, SegmentDoneType
  <2> QED BY <1>2, <2>1, OutKeptClient
<1>3. CASE client.is_open
  <2>1. Clean(client) /\ ~client.failed
    BY <1>1, <1>3, SendingFacts
  <2>2. PICK b \in 0 .. NOut, e \in 1 .. NOut :
           /\ b \in Nat /\ e \in Nat /\ b < e /\ e <= client.given /\ client.given <= NOut
           /\ client.given \in Nat
           /\ Len(client.segment) = e - b
           /\ Plus(client.send_next, e - b) = Plus(FirstSeq, e + 1)
           /\ client.rest = Run(e + 1, client.given)
    BY <1>1, <1>3, SendingFacts
  <2>3. e < client.given
    <3>1. ASSUME e = client.given PROVE FALSE
      <4>1. Run(e + 1, e) \in Seq(Nat) /\ Len(Run(e + 1, e)) = e - (e + 1) + 1
        BY <2>2, RunSeq
      <4>2. client.rest = <<>>
        BY <2>2, <3>1, <4>1, EmptySeq
      <4> QED BY <1>1, <4>2
    <3> QED BY <2>2, <3>1
  <2> DEFINE j == client.given
  <2>4. j \in Nat /\ e < j /\ client.rest = Run(e + 1, j) /\ j <= NOut
    BY <2>2, <2>3
  <2>5. /\ TypeOK'
        /\ client'.is_open = client.is_open
        /\ client'.returned = client.returned
        /\ client'.given = client.given
        /\ UNCHANGED peer
    BY <1>1, <2>2, <2>4, SegmentDoneStep
  <2>6. /\ client'.pc = "send"
        /\ client'.failed = client.failed
        /\ client'.send_next = Plus(client.send_next, Len(client.segment))
        /\ client'.is_waiting_seq
        /\ \E k \in e + 1 .. j :
              /\ client'.segment = Run(e + 1, k)
              /\ client'.rest = Run(k + 1, j)
              /\ client'.seq_to_wait = Plus(client'.send_next, k - e)
        /\ Sends({}, {Segment(client', "ACK", client'.segment)})
    BY <1>1, <1>3, <2>2, <2>4, SegmentDoneStep
  <2>7. PICK k \in e + 1 .. j :
           /\ client'.segment = Run(e + 1, k)
           /\ client'.rest = Run(k + 1, j)
           /\ client'.seq_to_wait = Plus(client'.send_next, k - e)
    BY <2>6
  <2>8. client'.send_next = Plus(FirstSeq, e + 1)
    BY <2>2, <2>6
  <2>9. k \in Nat /\ e < k /\ k <= NOut /\ e \in 0 .. NOut /\ k \in e + 1 .. NOut
        /\ client'.given = j
    BY <2>2, <2>4, <2>5, <2>7, SizeAssumption
  <2>10. client'.seq_to_wait = Plus(FirstSeq, k + 1)
    BY <2>2, <2>7, <2>8, <2>9, AfterSegment
  <2> HIDE DEF j
  <2>11. Sending(client', Len(peer.got))
    BY <2>6, <2>7, <2>8, <2>9, <2>10 DEF Sending
  <2>12. ClientAt(client', Len(peer.got))
    BY <2>1, <2>6, <2>11 DEF ClientAt
  <2>13. FromClient(Segment(client', "ACK", client'.segment), client')
    BY <2>7, <2>8, <2>9, SegmentFromClient
  <2> QED BY <1>1, <2>1, <2>5, <2>6, <2>12, <2>13, OutKeptClient
<1> QED BY <1>2, <1>3

\* A send that is done has arrived, up to the last byte given.
LEMMA SendDoneOut == ASSUME OutInv, SendDone PROVE OutInv'
<1>1. TypeOK
  BY DEF OutInv
<1>2. /\ TypeOK'
      /\ client.pc = "send" /\ client'.pc = "app"
      /\ client.rest = <<>> /\ ~client.is_waiting_seq
      /\ client'.send_next = Plus(client.send_next, Len(client.segment))
      /\ client'.is_open = client.is_open
      /\ client'.given = client.given
      /\ client'.failed = client.failed
      /\ client'.returned = IF client.is_open THEN client.given ELSE client.returned
      /\ UNCHANGED peer
      /\ Sends({}, {})
  BY <1>1, SendDoneStep
<1>3. CASE ~client.is_open
  <2>1. ~Clean(client')
    BY <1>2, <1>3 DEF Clean
  <2> QED BY <1>2, <1>3, <2>1, OutKeptClient
<1>4. CASE client.is_open
  <2>1. Clean(client)
    BY <1>2, <1>4, SendingFacts
  <2>2. PICK b \in 0 .. NOut, e \in 1 .. NOut :
           /\ b \in Nat /\ e \in Nat /\ b < e /\ e <= client.given /\ client.given <= NOut
           /\ client.given \in Nat
           /\ Len(client.segment) = e - b
           /\ Plus(client.send_next, e - b) = Plus(FirstSeq, e + 1)
           /\ client.rest = Run(e + 1, client.given)
           /\ Len(peer.got) >= e
    BY <1>2, <1>4, SendingFacts
  <2>3. e = client.given
    <3>1. e + 1 \in Nat /\ e + 1 >= 1 /\ e + 1 <= client.given + 1
      BY <2>2
    <3>2. Len(Run(e + 1, client.given)) = client.given - (e + 1) + 1
      BY <2>2, <3>1, RunSeq
    <3>3. Len(client.rest) = 0
      BY <1>2
    <3> QED BY <2>2, <3>2, <3>3
  <2>4. OutAt(Len(peer.got)) /\ peer.got = Run(1, Len(peer.got)) /\ Len(peer.got) \in 0 .. NOut
    BY <2>1 DEF OutInv, OutAt, PeerAt
  <2>5. client'.returned = e
    BY <1>2, <1>4, <2>3
  <2>6. \A i \in 1 .. Len(peer.got) : peer.got[i] = i
    <3> DEFINE n == Len(peer.got)
    <3>1. n \in Nat
      BY <2>4
    <3>2. peer.got = Run(1, n)
      BY <2>4
    <3> HIDE DEF n
    <3>3. \A i \in 1 .. n : Run(1, n)[i] = i
      BY <3>1 DEF Run
    <3>4. \A i \in 1 .. n : peer.got[i] = i
      BY <3>2, <3>3
    <3> QED BY <3>4 DEF n
  <2>7. Len(peer'.got) >= client'.returned /\ \A i \in 1 .. client'.returned : peer'.got[i] = i
    BY <1>2, <2>2, <2>4, <2>5, <2>6
  <2>8. ClientAt(client', Len(peer.got))
    <3>1. client'.send_next = Plus(FirstSeq, client'.given + 1)
      BY <1>2, <2>2, <2>3
    <3> QED BY <1>2, <3>1 DEF ClientAt
  <2>9. OutAt(Len(peer.got))'
    <3>1. \A m \in net'.peer : FromClient(m, client')
      BY <1>2, <2>4 DEF OutAt, Sends, FromClient
    <3>2. peer.st # "closed" /\ \A m \in net'.client : AcksGot(m, Len(peer.got))
      BY <1>2, <2>4 DEF OutAt, Sends
    <3>3. PeerAt(peer', Len(peer.got))
      BY <1>2, <2>4 DEF OutAt
    <3> QED BY <1>2, <2>8, <3>1, <3>2, <3>3 DEF OutAt
  <2> QED BY <1>2, <2>7, <2>9 DEF OutInv
<1> QED BY <1>3, <1>4

\* The acknowledgment that a send waits for is one of bytes that arrived: the peer
\* says no number beyond what it has, and numbers do not meet.
LEMMA UpdateOut == ASSUME OutInv, NEW m \in net.client, Update(m) PROVE OutInv'
<1> DEFINE n == Len(peer.got)
<1>1. TypeOK
  BY DEF OutInv
<1>2. /\ TypeOK'
      /\ client.pc \in {"send", "recv"}
      /\ client'.returned = client.returned
      /\ UNCHANGED peer
  BY <1>1, UpdateStep
<1>3. PICK R \in SUBSET Packets :
         /\ Sends({}, R)
         /\ \A r \in R : r.kind = "ACK" /\ r.data = <<>>
         /\ \/ m.kind = "FIN" /\ client'.pc = "fin"
            \/ /\ client'.pc = client.pc
               /\ SameOut(client, client')
               /\ client'.segment = client.segment
               /\ client'.rest = client.rest
               /\ client'.seq_to_wait = client.seq_to_wait
               /\ client'.is_waiting_seq <=> client.is_waiting_seq /\ m.ack # client.seq_to_wait
  BY <1>1, UpdateStep
<1>4. CASE client'.pc = "fin"
  <2>1. ~Clean(client')
    BY <1>4 DEF Clean
  <2> QED BY <1>2, <1>3, <2>1, OutKeptClient
<1>5. CASE client'.pc # "fin"
  <2>1. /\ client'.pc = client.pc
        /\ SameOut(client, client')
        /\ client'.segment = client.segment
        /\ client'.rest = client.rest
        /\ client'.seq_to_wait = client.seq_to_wait
        /\ client'.is_waiting_seq <=> client.is_waiting_seq /\ m.ack # client.seq_to_wait
    BY <1>3, <1>5
  <2>2. ASSUME Clean(client')
        PROVE  Clean(client) /\ ClientAt(client', n)
    <3>1. Clean(client) /\ client.is_open
      BY <1>2, <2>1, <2>2 DEF Clean, SameOut
    <3>2. OutAt(n) /\ ClientAt(client, n) /\ n \in 0 .. NOut /\ AcksGot(m, n)
      BY <1>2, <3>1 DEF OutInv, OutAt, PeerAt
    <3>3. CASE client.pc = "recv"
      BY <2>1, <3>1, <3>2, <3>3 DEF ClientAt, SameOut
    <3>4. CASE client.pc = "send"
      <4>1. PICK b \in 0 .. NOut, e \in 1 .. NOut :
               /\ b \in Nat /\ e \in Nat /\ b < e /\ e <= client.given /\ client.given <= NOut
               /\ client.given \in Nat
               /\ client.send_next = Plus(FirstSeq, b + 1)
               /\ client.segment = Run(b + 1, e)
               /\ client.rest = Run(e + 1, client.given)
               /\ IF client.is_waiting_seq THEN client.seq_to_wait = Plus(FirstSeq, e + 1)
                  ELSE n >= e
        BY <3>1, <3>4, SendingFacts
      <4>2. ASSUME client.is_waiting_seq, m.ack = client.seq_to_wait
            PROVE  n >= e
        <5>1. PICK a \in 1 .. n + 1 : m.ack = Plus(FirstSeq, a)
          BY <3>2 DEF AcksGot
        <5>2. FirstSeq \in Seqs /\ a \in Seqs /\ e + 1 \in Seqs
          BY <3>2, SizeAssumption DEF Seqs
        <5>3. a = e + 1
          BY <4>1, <4>2, <5>1, <5>2, PlusInjective
        <5> QED BY <3>2, <4>1, <5>1, <5>3
      <4> HIDE DEF n
      <4>3. IF client'.is_waiting_seq THEN client'.seq_to_wait = Plus(FirstSeq, e + 1) ELSE n >= e
        BY <2>1, <4>1, <4>2
      <4>4. e \in b + 1 .. client.given
        BY <4>1
      <4>5. Sending(client', n)
        BY <2>1, <4>1, <4>3, <4>4 DEF Sending, SameOut
      <4>6. ~client.failed
        BY <3>2, <3>4 DEF ClientAt
      <4> QED BY <2>1, <3>1, <3>4, <4>5, <4>6 DEF ClientAt, SameOut
    <3> QED BY <1>2, <3>3, <3>4
  <2>3. \A r \in R : FromClient(r, client')
    BY <1>3, AckFromClient
  <2> QED BY <1>2, <1>3, <2>1, <2>2, <2>3, OutKeptClient
<1> QED BY <1>4, <1>5

LEMMA CloseOut ==
    ASSUME InInv, OutInv,
           CloseCall \/ CloseResend \/ FinEnd \/ \E m \in net.client : CloseRecv(m)
    PROVE  OutInv'
<1>1. TypeOK
  BY DEF OutInv
<1>2. CASE CloseCall
  <2>1. /\ TypeOK'
        /\ client.pc = "app" /\ client'.pc = "close"
        /\ SameOut(client, client')
        /\ client.is_open
        /\ UNCHANGED peer
        /\ Sends({}, {Segment(client, "FIN", <<>>)})
    BY <1>1, <1>2, CloseCallStep
  <2>2. FromClient(Segment(client, "FIN", <<>>), client')
    BY <2>1 DEF FromClient, Segment, Packet
  <2>3. Clean(client) /\ ClientAt(client', Len(peer.got)) /\ client'.returned = client.returned
    BY <2>1 DEF Clean, ClientAt, SameOut
  <2> QED BY <2>1, <2>2, <2>3, OutKeptClient
<1>3. CASE CloseResend
  <2>1. /\ TypeOK'
        /\ client.pc \in {"fin", "close"}
        /\ UNCHANGED <<client, peer>>
        /\ Sends({}, {Segment(client, "FIN", <<>>)})
    BY <1>1, <1>3, CloseResendStep
  <2>2. Clean(client) => FromClient(Segment(client, "FIN", <<>>), client)
    BY <2>1 DEF Clean, FromClient, Segment, Packet
  <2>3. OutAt(Len(peer.got)) => ClientAt(client, Len(peer.got))
    BY DEF OutAt
  <2>4. client' = client
    BY <2>1
  <2> QED BY <2>1, <2>2, <2>3, <2>4, OutKeptClient
<1>4. CASE FinEnd
  <2>1. Head(client.fin).data = <<>>
    BY <1>4 DEF InInv, InAt, FinEnd
  <2>2. /\ TypeOK'
        /\ client'.pc \in {"app", "send", "recv"}
        /\ ~client'.is_open
        /\ client'.returned = client.returned
        /\ UNCHANGED peer
        /\ Sends({}, {})
    BY <1>1, <1>4, <2>1, FinEndStep
  <2>3. ~Clean(client')
    BY <2>2 DEF Clean
  <2> QED BY <2>2, <2>3, OutKeptClient
<1>5. ASSUME NEW m \in net.client, CloseRecv(m)
      PROVE  OutInv'
  <2>1. /\ TypeOK'
        /\ client.pc \in {"fin", "close"}
        /\ client'.pc = client.pc
        /\ client'.returned = client.returned
        /\ client'.is_open = client.is_open
        /\ UNCHANGED peer
        /\ Sends({}, {})
    BY <1>1, <1>5, CloseRecvStep
  <2>2. Clean(client') => Clean(client) /\ ClientAt(client', Len(peer.got))
    BY <2>1 DEF Clean, ClientAt
  <2> QED BY <2>1, <2>2, OutKeptClient
<1> QED BY <1>2, <1>3, <1>4, <1>5

LEMMA MoveOut ==
    ASSUME OutInv,
           RecvCall \/ RecvTimeout \/ ConnectTimeout \/ CloseEnd \/ \E n \in 1 .. NIn : RecvReturn(n)
    PROVE  OutInv'
<1>1. TypeOK
  BY DEF OutInv
<1>2. CASE RecvCall \/ RecvTimeout \/ ConnectTimeout \/ CloseEnd
  <2>1. /\ TypeOK'
        /\ client'.send_next = client.send_next
        /\ client'.given = client.given
        /\ client'.returned = client.returned
        /\ client'.failed = client.failed
        /\ Clean(client') => Clean(client) /\ client.pc # "close" /\ client'.pc \in {"app", "recv"}
        /\ Clean(client') => client.pc \in {"app", "recv"}
        /\ UNCHANGED peer
        /\ Sends({}, {})
    BY <1>1, <1>2, MoveStep
  <2>2. ASSUME Clean(client'), OutAt(Len(peer.got))
        PROVE  ClientAt(client', Len(peer.got))
    BY <2>1, <2>2 DEF OutAt, ClientAt
  <2> QED BY <2>1, <2>2, OutKeptClient
<1>3. ASSUME NEW n \in 1 .. NIn, RecvReturn(n)
      PROVE  OutInv'
  <2>1. /\ TypeOK'
        /\ client.pc \in {"recv", "app"} /\ client'.pc = "app"
        /\ SameOut(client, client')
        /\ UNCHANGED peer
        /\ Sends({}, {})
    BY <1>1, <1>3, RecvReturnStep
  <2>2. Clean(client') => Clean(client)
    BY <2>1 DEF Clean, SameOut
  <2>3. OutAt(Len(peer.got)) => ClientAt(client', Len(peer.got))
    BY <2>1 DEF OutAt, ClientAt, SameOut
  <2>4. client'.returned = client.returned
    BY <2>1 DEF SameOut
  <2> QED BY <2>1, <2>2, <2>3, <2>4, OutKeptClient
<1> QED BY <1>2, <1>3

\* The client's part holds on when the peer gets more.
LEMMA ClientAtGrows ==
    ASSUME NEW c \in Clients, NEW n \in Nat, NEW j \in Nat, n <= j, ClientAt(c, n)
    PROVE  ClientAt(c, j)
<1>1. ASSUME Sending(c, n)
      PROVE  Sending(c, j)
  <2>1. PICK b \in 0 .. NOut : \E e \in b + 1 .. c.given :
           /\ c.send_next = Plus(FirstSeq, b + 1)
           /\ c.segment = Run(b + 1, e)
           /\ c.rest = Run(e + 1, c.given)
           /\ IF c.is_waiting_seq THEN c.seq_to_wait = Plus(FirstSeq, e + 1) ELSE n >= e
    BY <1>1 DEF Sending
  <2>2. PICK e \in b + 1 .. c.given :
           /\ c.send_next = Plus(FirstSeq, b + 1)
           /\ c.segment = Run(b + 1, e)
           /\ c.rest = Run(e + 1, c.given)
           /\ IF c.is_waiting_seq THEN c.seq_to_wait = Plus(FirstSeq, e + 1) ELSE n >= e
    BY <2>1
  <2>3. IF c.is_waiting_seq THEN c.seq_to_wait = Plus(FirstSeq, e + 1) ELSE j >= e
    BY <2>2
  <2> QED BY <2>2, <2>3 DEF Sending
<1> QED BY <1>1 DEF ClientAt

\* A step of the peer that takes no bytes.
LEMMA OutKeptPeer ==
    ASSUME OutInv, TypeOK', UNCHANGED client, peer'.got = peer.got, NEW A, Sends(A, {}),
           Clean(client) =>
              /\ PeerAt(peer, Len(peer.got)) => PeerAt(peer', Len(peer.got))
              /\ client.pc # "close" => /\ peer'.st # "closed"
                                        /\ \A m \in A : AcksGot(m, Len(peer.got))
    PROVE  OutInv'
<1> DEFINE n == Len(peer.got)
<1>1. ASSUME Clean(client)
      PROVE  OutAt(n)'
  <2>1. OutAt(n)
    BY <1>1 DEF OutInv
  <2>2. PeerAt(peer', n) /\ ClientAt(client', n)
    BY <1>1, <2>1 DEF OutAt
  <2>3. \A m \in net'.peer : FromClient(m, client')
    BY <2>1 DEF OutAt, Sends
  <2>4. client'.pc # "close" => peer'.st # "closed" /\ \A m \in net'.client : AcksGot(m, n)
    BY <1>1, <2>1 DEF OutAt, Sends
  <2>5. n' = n
    OBVIOUS
  <2> HIDE DEF n
  <2> QED BY <2>2, <2>3, <2>4, <2>5 DEF OutAt
<1> QED BY <1>1 DEF OutInv

LEMMA PeerSendsOut ==
    ASSUME OutInv, PeerSynAck \/ PeerAck \/ PeerFin \/ \E i \in 1 .. NIn : \E j \in i .. NIn : PeerSend(i, j)
    PROVE  OutInv'
<1> DEFINE n == Len(peer.got)
<1>1. TypeOK
  BY DEF OutInv
<1>2. ASSUME NEW m, m.ack = peer.rcv_next, peer.st \in {"syn_received", "established"},
             Clean(client)
      PROVE  AcksGot(m, n)
  <2>1. n \in 0 .. NOut /\ peer.rcv_next = Plus(FirstSeq, n + 1)
    BY <1>2 DEF OutInv, OutAt, PeerAt
  <2>2. n + 1 \in 1 .. n + 1
    BY <2>1
  <2> HIDE DEF n
  <2> QED BY <1>2, <2>1, <2>2 DEF AcksGot
<1>3. CASE PeerSynAck \/ PeerAck
  <2>1. TypeOK' /\ UNCHANGED <<client, peer>>
    BY <1>1, <1>3, PeerTellStep
  <2>2. PICK k \in {"SYNACK", "ACK"}, i \in 0 .. NIn + 2 :
           peer.st # "listen" /\ Sends({PeerPacket(k, i, <<>>)}, {})
    BY <1>1, <1>3, PeerTellStep
  <2>3. PeerPacket(k, i, <<>>).ack = peer.rcv_next
    BY DEF PeerPacket, Packet
  <2>4. ASSUME Clean(client), client.pc # "close"
        PROVE  peer.st # "closed" /\ AcksGot(PeerPacket(k, i, <<>>), n)
    <3>1. peer.st # "closed"
      BY <2>4 DEF OutInv, OutAt
    <3>2. peer.st \in {"syn_received", "established"}
      BY <1>1, <2>2, <3>1 DEF TypeOK, Peers
    <3> QED BY <1>2, <2>3, <2>4, <3>1, <3>2
  <2>5. peer' = peer
    BY <2>1
  <2> HIDE DEF n
  <2>6. n = Len(peer.got)
    BY DEF n
  <2> QED BY <2>1, <2>2, <2>4, <2>5, <2>6, OutKeptPeer
<1>4. ASSUME peer.st = "established", peer'.st = peer.st, peer'.rcv_next = peer.rcv_next,
             peer'.got = peer.got, TypeOK', UNCHANGED client, NEW m, m.ack = peer.rcv_next,
             Sends({m}, {})
      PROVE  OutInv'
  <2>1. Clean(client) => AcksGot(m, n)
    BY <1>2, <1>4
  <2>2. PeerAt(peer, n) => PeerAt(peer', n)
    BY <1>4 DEF PeerAt
  <2> QED BY <1>4, <2>1, <2>2, OutKeptPeer
<1>5. CASE PeerFin
  <2>1. PeerPacket("FIN", NIn + 1, <<>>).ack = peer.rcv_next
    BY DEF PeerPacket, Packet
  <2>2. /\ TypeOK'
        /\ peer.st = "established"
        /\ peer'.st = peer.st
        /\ peer'.rcv_next = peer.rcv_next
        /\ peer'.got = peer.got
        /\ UNCHANGED client
        /\ Sends({PeerPacket("FIN", NIn + 1, <<>>)}, {})
    BY <1>1, <1>5, PeerFinStep
  <2> QED BY <1>4, <2>1, <2>2
<1>6. ASSUME NEW i \in 1 .. NIn, NEW j \in i .. NIn, PeerSend(i, j)
      PROVE  OutInv'
  <2>1. PeerPacket("ACK", i, Run(i, j)).ack = peer.rcv_next
    BY DEF PeerPacket, Packet
  <2>2. /\ TypeOK'
        /\ peer.st = "established"
        /\ peer'.st = peer.st
        /\ peer'.rcv_next = peer.rcv_next
        /\ peer'.got = peer.got
        /\ UNCHANGED client
        /\ Sends({PeerPacket("ACK", i, Run(i, j))}, {})
    BY <1>1, <1>6, PeerSendStep
  <2> QED BY <1>4, <2>1, <2>2
<1> QED BY <1>3, <1>5, <1>6

\* A segment at the number that is next continues the stream.
LEMMA ContinuesOut ==
    ASSUME NEW n \in 0 .. NOut, NEW m, NEW c, FromClient(m, c), m.data # <<>>,
           m.seq = Plus(FirstSeq, n + 1)
    PROVE  \E j \in n + 1 .. NOut :
              m.data = Run(n + 1, j) /\ Plus(m.seq, Len(m.data)) = Plus(FirstSeq, j + 1)
<1>1. PICK i \in 1 .. NOut : \E j \in i .. NOut : m.seq = Plus(FirstSeq, i) /\ m.data = Run(i, j)
  BY DEF FromClient
<1>2. PICK j \in i .. NOut : m.seq = Plus(FirstSeq, i) /\ m.data = Run(i, j)
  BY <1>1
<1>3. FirstSeq \in Seqs /\ i \in Seqs /\ n + 1 \in Seqs
  BY SizeAssumption DEF Seqs
<1>4. i = n + 1
  BY <1>2, <1>3, PlusInjective
<1>5. n \in Nat /\ j \in Nat /\ n < j /\ j <= NOut
  BY <1>2, <1>4, SizeAssumption
<1>6. Len(Run(n + 1, j)) = j - n /\ Plus(Plus(FirstSeq, n + 1), j - n) = Plus(FirstSeq, j + 1)
  BY <1>5, AfterSegment
<1> QED BY <1>2, <1>4, <1>6

LEMMA PeerRecvOut == ASSUME OutInv, NEW m \in net.peer, PeerRecv(m) PROVE OutInv'
<1> DEFINE n == Len(peer.got)
<1>1. TypeOK /\ m \in Packets /\ peer \in Peers /\ client \in Clients
  BY DEF OutInv, TypeOK
<1>2. TypeOK' /\ UNCHANGED client /\ Sends({}, {})
  BY <1>1, PeerRecvStep
<1>3. ASSUME Clean(client)
      PROVE  /\ OutAt(n) /\ PeerAt(peer, n) /\ ClientAt(client, n) /\ FromClient(m, client)
             /\ n \in 0 .. NOut
  BY <1>3 DEF OutInv, OutAt, PeerAt
<1>4. CASE UNCHANGED peer
  <2>1. Clean(client) /\ client.pc # "close" => peer.st # "closed"
    BY <1>3 DEF OutAt
  <2>2. peer' = peer
    BY <1>4
  <2> QED BY <1>2, <2>1, <2>2, OutKeptPeer
<1>5. CASE /\ m.kind = "SYN" /\ peer.st = "listen"
           /\ peer'.st = "syn_received"
           /\ peer'.rcv_next = Plus(m.seq, 1)
           /\ peer'.got = peer.got
  <2>1. ASSUME Clean(client)
        PROVE  PeerAt(peer', n)
    <3>1. m.seq = FirstSeq /\ n = 0 /\ PeerAt(peer, n)
      BY <1>3, <1>5, <2>1 DEF FromClient, PeerAt
    <3> HIDE DEF n
    <3>2. peer'.rcv_next = Plus(FirstSeq, n + 1)
      BY <1>5, <3>1
    <3> QED BY <1>5, <3>1, <3>2 DEF PeerAt
  <2> QED BY <1>2, <1>5, <2>1, OutKeptPeer
<1>6. CASE /\ peer.st \in {"syn_received", "established"}
           /\ m.seq # peer.rcv_next
           /\ peer'.st = "established"
           /\ peer'.rcv_next = peer.rcv_next
           /\ peer'.got = peer.got
  <2>1. PeerAt(peer, n) => PeerAt(peer', n)
    BY <1>6 DEF PeerAt
  <2> QED BY <1>2, <1>6, <2>1, OutKeptPeer
<1>7. CASE m.kind = "FIN" /\ peer'.st = "closed" /\ peer'.got = peer.got
  <2>1. Clean(client) => client.pc = "close"
    BY <1>3, <1>7 DEF FromClient
  <2>2. PeerAt(peer, n) => PeerAt(peer', n)
    BY <1>7 DEF PeerAt
  <2> QED BY <1>2, <1>7, <2>1, <2>2, OutKeptPeer
<1>8. CASE /\ peer.st \in {"syn_received", "established"}
           /\ m.seq = peer.rcv_next
           /\ peer'.st = "established"
           /\ peer'.rcv_next = Plus(peer.rcv_next, Len(m.data))
           /\ peer'.got = peer.got \o m.data
  <2>1. peer.got \in Seq(Nat) /\ m.data \in Seq(Nat) /\ n \in Nat /\ peer.rcv_next \in Seqs
        /\ client.returned \in Nat
    BY <1>1 DEF Peers, Packets, Clients
  <2>2. /\ Len(peer'.got) >= client'.returned
        /\ \A i \in 1 .. client'.returned : peer'.got[i] = i
    <3>1. /\ Len(peer.got \o m.data) = Len(peer.got) + Len(m.data)
          /\ \A i \in 1 .. Len(peer.got) + Len(m.data) :
                (peer.got \o m.data)[i] = IF i <= Len(peer.got) THEN peer.got[i]
                                          ELSE m.data[i - Len(peer.got)]
      BY <2>1, ConcatProperties
    <3>2. Len(peer.got) >= client.returned /\ \A i \in 1 .. client.returned : peer.got[i] = i
      BY DEF OutInv
    <3>3. PICK g \in Nat : g = Len(peer.got)
      BY <2>1, LenProperties
    <3>4. PICK d \in Nat : d = Len(m.data)
      BY <2>1, LenProperties
    <3>5. PICK r \in Nat : r = client.returned
      BY <2>1
    <3>6. client'.returned = r
      BY <1>2, <3>5
    <3>7. Len(peer'.got) = g + d /\ g >= r
      BY <1>8, <3>1, <3>2, <3>3, <3>4, <3>5
    <3>8. Len(peer'.got) >= client'.returned
      <4>1. g + d >= r
        BY <3>7
      <4> QED BY <3>6, <3>7, <4>1
    <3>9. ASSUME NEW i \in 1 .. r
          PROVE  peer'.got[i] = i
      <4>1. i \in 1 .. g + d /\ i <= g
        BY <3>7
      <4>2. peer'.got[i] = peer.got[i]
        BY <1>8, <3>1, <3>3, <3>4, <4>1
      <4> QED BY <3>2, <3>5, <4>2
    <3> QED BY <3>6, <3>8, <3>9
  <2>3. ASSUME Clean(client')
        PROVE  OutAt(Len(peer.got))'
    <3>1. /\ OutAt(n) /\ PeerAt(peer, n) /\ ClientAt(client, n) /\ FromClient(m, client)
          /\ n \in 0 .. NOut
      BY <1>2, <1>3, <2>3
    <3>2. peer.rcv_next = Plus(FirstSeq, n + 1) /\ peer.got = Run(1, n)
      BY <1>8, <3>1 DEF PeerAt
    <3> HIDE DEF n
    <3>3. PICK j \in n .. NOut : /\ peer'.got = Run(1, j)
                                 /\ peer'.rcv_next = Plus(FirstSeq, j + 1)
      <4>1. CASE m.data = <<>>
        <5>1. peer.got \o m.data = peer.got
          BY <2>1, <4>1, ConcatEmptySeq
        <5>2. Plus(peer.rcv_next, Len(m.data)) = peer.rcv_next
          <6>1. Len(m.data) = 0 /\ FirstSeq \in Seqs /\ n + 1 \in Nat /\ (n + 1) + 0 < Word
                /\ (n + 1) + 0 = n + 1 /\ 0 \in Nat
            BY <2>1, <3>1, <4>1, SizeAssumption DEF Seqs
          <6>2. Plus(Plus(FirstSeq, n + 1), 0) = Plus(FirstSeq, (n + 1) + 0)
            BY <6>1, PlusPlus
          <6> QED BY <3>2, <6>1, <6>2
        <5>3. n \in n .. NOut
          BY <3>1, SizeAssumption
        <5> QED BY <1>8, <3>2, <5>1, <5>2, <5>3
      <4>2. CASE m.data # <<>>
        <5>1. PICK j \in n + 1 .. NOut :
                 m.data = Run(n + 1, j) /\ Plus(m.seq, Len(m.data)) = Plus(FirstSeq, j + 1)
          BY <1>8, <3>1, <3>2, <4>2, ContinuesOut
        <5>2. 1 \in Nat /\ 1 >= 1 /\ 1 <= n + 1 /\ n <= j /\ n \in Nat /\ j \in Nat /\ j \in n .. NOut
          BY <3>1, <5>1, SizeAssumption
        <5>3. Run(1, n) \o Run(n + 1, j) = Run(1, j)
          BY <5>2, RunConcat
        <5> QED BY <1>8, <3>2, <5>1, <5>2, <5>3
      <4> QED BY <4>1, <4>2
    <3>4. n \in Nat /\ j \in Nat /\ n <= j /\ j \in 0 .. NOut
      BY <3>1, <3>3, SizeAssumption
    <3>5. Len(peer'.got) = j
      BY <3>3, <3>4, RunSeq
    <3>6. PeerAt(peer', j)
      BY <1>8, <3>3, <3>4 DEF PeerAt
    <3>7. ClientAt(client', j)
      BY <1>1, <1>2, <3>1, <3>4, ClientAtGrows
    <3>8. \A p \in net'.peer : FromClient(p, client')
      BY <1>2, <3>1 DEF OutAt, Sends
    <3>9. client'.pc # "close" => \A p \in net'.client : AcksGot(p, j)
      <4>1. ASSUME NEW p, AcksGot(p, n)
            PROVE  AcksGot(p, j)
        BY <3>4, <4>1 DEF AcksGot
      <4> QED BY <1>2, <3>1, <4>1 DEF OutAt, Sends
    <3>10. peer'.st # "closed"
      BY <1>8
    <3> QED BY <3>5, <3>6, <3>7, <3>8, <3>9, <3>10 DEF OutAt
  <2> QED BY <1>2, <2>2, <2>3 DEF OutInv
<1> QED BY <1>1, <1>4, <1>5, <1>6, <1>7, <1>8, PeerRecvStep

LEMMA OutStep == InInv /\ OutInv /\ [Next]_vars => OutInv'
<1> SUFFICES ASSUME InInv, OutInv, [Next]_vars
             PROVE  OutInv'
  OBVIOUS
<1>1. CASE ClientCalls
  BY <1>1, ConnectOut, MoveOut, CloseOut, RetryOut, SendFailOut, SegmentDoneOut, SendDoneOut,
     SendCallOut DEF ClientCalls
<1>2. CASE ClientReads
  BY <1>2, ConnectRecvOut, UpdateOut, CloseOut DEF ClientReads
<1>3. CASE PeerSteps
  BY <1>3, PeerSendsOut, PeerRecvOut DEF PeerSteps
<1>4. CASE UNCHANGED vars
  BY <1>4 DEF OutInv, OutAt, TypeOK, vars
<1> QED BY <1>1, <1>2, <1>3, <1>4 DEF Next

\* A connection that never came up is not open (open.c:40-92).
Closed(c) == c.pc \in {"new", "connect", "gone"} => ~c.is_open

LEMMA ClosedStep == InInv /\ Closed(client) /\ [Next]_vars => Closed(client')
<1> SUFFICES ASSUME InInv, Closed(client), [Next]_vars
             PROVE  Closed(client')
  OBVIOUS
<1>1. TypeOK /\ client \in Clients
  BY DEF InInv, TypeOK
<1>2. CASE ClientCalls
  <2>1. CASE Connect
    BY <1>1, <2>1 DEF Connect, Closed, Clients
  <2>2. CASE RecvCall \/ RecvTimeout \/ ConnectTimeout \/ CloseEnd
    <3>1. client'.pc = "gone" => client.pc = "connect" /\ client'.is_open = client.is_open
      BY <1>1, <2>2 DEF RecvCall, RecvTimeout, ConnectTimeout, CloseEnd, Clients
    <3>2. client'.pc \in {"app", "recv", "gone"}
      BY <1>1, <2>2 DEF RecvCall, RecvTimeout, ConnectTimeout, CloseEnd, Clients
    <3> QED BY <3>1, <3>2 DEF Closed
  <2>3. CASE CloseCall
    BY <1>1, <2>3 DEF CloseCall, Closed, Clients
  <2>4. CASE Retry
    <3>1. client'.pc = "send"
      BY <1>1, <2>4, RetryStep
    <3> QED BY <3>1 DEF Closed
  <2>5. CASE SendFail \/ SendDone
    <3>1. client'.pc = "app"
      BY <1>1, <2>5, SendFailStep, SendDoneStep
    <3> QED BY <3>1 DEF Closed
  <2>6. CASE SegmentDone
    <3>1. client'.pc \in {"send", "app"}
      BY <1>1, <2>6, SegmentDoneType
    <3> QED BY <3>1 DEF Closed
  <2>7. CASE CloseResend
    BY <2>7 DEF CloseResend, Closed
  <2>8. CASE FinEnd
    <3>1. Head(client.fin).data = <<>>
      BY <2>8 DEF InInv, InAt, FinEnd
    <3>2. ~client'.is_open
      BY <1>1, <2>8, <3>1, FinEndStep
    <3> QED BY <3>2 DEF Closed
  <2>9. ASSUME NEW n \in 1 .. NOut, SendCall(n)
        PROVE  Closed(client')
    <3>1. client'.pc = "send"
      BY <1>1, <2>9, SendCallStep
    <3> QED BY <3>1 DEF Closed
  <2>10. ASSUME NEW n \in 1 .. NIn, RecvReturn(n)
         PROVE  Closed(client')
    <3>1. client'.pc = "app"
      BY <1>1, <2>10, RecvReturnStep
    <3> QED BY <3>1 DEF Closed
  <2> QED BY <1>2, <2>1, <2>2, <2>3, <2>4, <2>5, <2>6, <2>7, <2>8, <2>9, <2>10 DEF ClientCalls
<1>3. ASSUME NEW m \in net.client, ConnectRecv(m)
      PROVE  Closed(client')
  <2>1. UNCHANGED client \/ client'.pc = "app"
    BY <1>1, <1>3, ConnectRecvStep
  <2> QED BY <2>1 DEF Closed
<1>4. ASSUME NEW m \in net.client, CloseRecv(m)
      PROVE  Closed(client')
  BY <1>1, <1>4 DEF CloseRecv, Closed, Clients
<1>5. ASSUME NEW m \in net.client, Update(m)
      PROVE  Closed(client')
  <2>1. client.pc \in {"send", "recv"} /\ client'.pc \in {client.pc, "fin"}
    BY <1>1, <1>5, UpdateStep
  <2> QED BY <2>1 DEF Closed
<1>6. CASE PeerSteps
  <2>1. UNCHANGED client
    BY <1>6 DEF PeerSteps, PeerSynAck, PeerAck, PeerFin, PeerSend, PeerRecv
  <2> QED BY <2>1 DEF Closed
<1>7. CASE UNCHANGED vars
  BY <1>7 DEF Closed, vars
<1> QED BY <1>2, <1>3, <1>4, <1>5, <1>6, <1>7 DEF Next, ClientReads

\* A send that reports success while the connection is open has arrived, and as long as
\* it is open the peer has the bytes in order and once, whatever is lost, late, repeated
\* or reordered (send.c:103-116, update.c:51-54), for streams of every length
\* below the word size.
THEOREM OutStreamCorrect == Spec => []OutStream
<1> DEFINE Inv == InInv /\ OutInv /\ Closed(client)
<1>1. Init => Inv
  BY InInit, OutInit DEF Init, Closed
<1>2. Inv /\ [Next]_vars => Inv'
  BY InStep, OutStep, ClosedStep
<1>3. Inv => OutStream
  <2> SUFFICES ASSUME InInv, OutInv, Closed(client) PROVE OutStream
    OBVIOUS
  <2>1. ASSUME client.is_open, client.pc # "fin"
        PROVE  peer.got = Run(1, Len(peer.got))
    <3>1. Clean(client)
      BY <2>1 DEF Clean, Closed
    <3> QED BY <3>1 DEF OutInv, OutAt, PeerAt
  <2> QED BY <2>1 DEF OutInv, OutStream
<1> QED BY <1>1, <1>2, <1>3, PTL DEF Spec
=============================================================================
