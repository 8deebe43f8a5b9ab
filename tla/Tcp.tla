--------------------------------- MODULE Tcp ---------------------------------
(***************************************************************************)
(* The TCP client of profanOS (zlibs/libmlw/tcp), a library of one process *)
(* over raw Ethernet packets, and a peer that keeps to the protocol.       *)
(*                                                                         *)
(* mlw_tcp_send sends one segment and waits for exactly its acknowledgment,*)
(* a few times; mlw_tcp_recv takes what is in order.  Both work off the    *)
(* packets that came in meanwhile in I_mlw_tcp_update.  The end of the     *)
(* peer, or a close, runs a loop of five seconds that answers with FIN.    *)
(* The network loses, delays, reorders and repeats.                        *)
(*                                                                         *)
(* Sequence numbers are modulo Word, as uint32_t is modulo 2^32.  A clock  *)
(* that runs out is a choice.  Ports, checksums and windows are left out;  *)
(* packets of others are skipped by the code and left out.                 *)
(*                                                                         *)
(* The premises: a caller does not send after a send that failed (the next *)
(* one would use the same numbers for other bytes, and a call of several   *)
(* segments that fails returns 0 though some arrived); and the peer ends   *)
(* its stream only when all of it is acknowledged (the client takes a FIN  *)
(* at any number for the end, bytes missing before it or not).             *)
(***************************************************************************)
EXTENDS Integers, Sequences, FiniteSets

CONSTANTS
    Word,         \* 2^32
    FirstSeq,     \* rand(): the first number of the client
    PeerSeq,      \* the first number of the peer
    NOut,         \* bytes the client has to send
    NIn,          \* bytes the peer has to send
    MAX_SEGMENT,  \* bytes of a segment (500)
    Tries,        \* transmissions of a segment (5)
    ToClientMax,  \* bounds on the packets under way
    ToPeerMax

ASSUME SizeAssumption == /\ Word \in Nat
                         /\ NOut \in Nat
                         /\ NIn \in Nat
                         /\ FirstSeq \in 0 .. Word - 1
                         /\ PeerSeq \in 0 .. Word - 1
                         /\ Word > NOut + NIn + 4
                         /\ MAX_SEGMENT \in Nat \ {0}
                         /\ Tries \in Nat \ {0}

VARIABLES
    client,  \* mlw_tcp_t, and the call the process is in
    peer,    \* external
    net,     \* net.client, net.peer: packets on their way there
    read     \* observed: the bytes that mlw_tcp_recv returned

vars == <<client, peer, net, read>>

Plus(seq, n) == (seq + n) % Word

\* Bytes i .. j of a stream: a byte is its number.
Run(i, j) == [k \in 1 .. j - i + 1 |-> i + k - 1]

Packet(kind, seq, ack, data) == [kind |-> kind, seq |-> seq, ack |-> ack, data |-> data]

\* A packet is lost, or on its way; when too many are, another one is lost.
NetMax == [client |-> ToClientMax, peer |-> ToPeerMax]
Kept(S, max) == IF Cardinality(S) < max THEN {S} ELSE {S \ {m} : m \in S}
Sent(n, to, m) ==
    {n} \cup {[n EXCEPT ![to] = S \cup {m}] : S \in Kept(n[to] \ {m}, NetMax[to])}

\* A packet that arrives; another copy of it may still come.
Arrived(n, to, m) == {n, [n EXCEPT ![to] = @ \ {m}]}

\* The packet m is taken and the packets replies, one at most, are sent.
Answer(to, m, from, replies) ==
    \E n \in Arrived(net, to, m) :
        IF replies = {} THEN net' = n
        ELSE \E r \in replies : net' \in Sent(n, from, r)

\* A connection that is not there reads nothing more: what comes for it is lost.
Deaf(c) == c.pc = "gone" \/ (c.pc = "app" /\ ~c.is_open)
Leave == net' = IF Deaf(client') THEN [net EXCEPT !.client = {}] ELSE net

-----------------------------------------------------------------------------
(* The client. *)

Init ==
    /\ client = [pc |-> "new", op |-> "app", is_open |-> FALSE,
                 send_next |-> FirstSeq, recv_first |-> 0, recv_next |-> 0,
                 is_waiting_seq |-> FALSE, seq_to_wait |-> 0, tries |-> 0,
                 segment |-> <<>>, rest |-> <<>>, buffer |-> <<>>, fin |-> <<>>,
                 given |-> 0, returned |-> 0, failed |-> FALSE, eof |-> FALSE,
                 draining |-> FALSE]
    /\ peer = [st |-> "listen", rcv_next |-> 0, got |-> <<>>, una |-> 0, nxt |-> 0]
    /\ net = [client |-> {}, peer |-> {}]
    /\ read = <<>>

\* I_mlw_tcp_general_send with the state c.
Segment(c, kind, data) == Packet(kind, c.send_next, c.recv_next, data)

ToPeer(m) == net' \in Sent(net, "peer", m)

\* mlw_tcp_connect.
Connect ==
    /\ client.pc = "new"
    /\ ToPeer(Segment(client, "SYN", <<>>))
    /\ client' = [client EXCEPT !.pc = "connect", !.send_next = Plus(@, 1)]
    /\ UNCHANGED <<peer, read>>

ConnectRecv(m) ==
    /\ client.pc = "connect"
    /\ IF m.kind = "SYNACK" /\ m.ack = client.send_next
       THEN LET c == [client EXCEPT !.pc = "app", !.is_open = TRUE,
                                    !.recv_first = m.seq, !.recv_next = Plus(m.seq, 1)]
            IN  /\ client' = c
                /\ Answer("client", m, "peer", {Segment(c, "ACK", <<>>)})
       ELSE /\ Answer("client", m, "peer", {})
            /\ UNCHANGED client
    /\ UNCHANGED <<peer, read>>

ConnectTimeout ==
    /\ client.pc = "connect"
    /\ client' = [client EXCEPT !.pc = "gone"]
    /\ Leave
    /\ UNCHANGED <<peer, read>>

\* One transmission of the segment at hand.
Transmitted(c) ==
    [c EXCEPT !.pc = "send", !.tries = @ - 1, !.is_waiting_seq = TRUE, !.draining = FALSE,
              !.seq_to_wait = Plus(c.send_next, Len(c.segment))]

Shorter(n) == IF n < MAX_SEGMENT THEN n ELSE MAX_SEGMENT

\* The next segment of the bytes of a call.
Loaded(c, bytes) ==
    Transmitted([c EXCEPT !.segment = SubSeq(bytes, 1, Shorter(Len(bytes))),
                          !.rest = SubSeq(bytes, MAX_SEGMENT + 1, Len(bytes)),
                          !.tries = Tries])

Transmit(c) ==
    /\ client' = c
    /\ ToPeer(Segment(c, "ACK", c.segment))
    /\ UNCHANGED <<peer, read>>

\* mlw_tcp_send of the n bytes that follow those given already.
SendCall(n) ==
    /\ client.pc = "app"
    /\ client.is_open
    /\ ~client.failed
    /\ client.given + n <= NOut
    /\ Transmit(Loaded([client EXCEPT !.given = @ + n],
                       Run(client.given + 1, client.given + n)))

\* 200 ms have passed.
Retry ==
    /\ client.pc = "send"
    /\ client.is_waiting_seq
    /\ client.tries > 0
    /\ Transmit(Transmitted(client))

\* The call is over, and with it its variables.
Returned(c) == [c EXCEPT !.pc = "app", !.draining = FALSE,
                         !.segment = <<>>, !.rest = <<>>, !.tries = 0]

SendFail ==
    /\ client.pc = "send"
    /\ client.is_waiting_seq
    /\ client.tries = 0
    /\ client' = [Returned(client) EXCEPT !.failed = TRUE]
    /\ Leave
    /\ UNCHANGED <<peer, read>>

Acked(c) == [c EXCEPT !.send_next = Plus(@, Len(c.segment)), !.draining = FALSE]

SegmentDone ==
    /\ client.pc = "send"
    /\ ~client.is_waiting_seq
    /\ client.rest # <<>>
    /\ IF client.is_open
       THEN Transmit(Loaded(Acked(client), client.rest))
       ELSE /\ client' = [Returned(Acked(client)) EXCEPT !.failed = TRUE]
            /\ Leave
            /\ UNCHANGED <<peer, read>>

\* Observed: what was given when a send succeeded last with the connection open.
Success(c) == IF c.is_open THEN c.given ELSE c.returned

SendDone ==
    /\ client.pc = "send"
    /\ ~client.is_waiting_seq
    /\ client.rest = <<>>
    /\ client' = [Returned(Acked(client)) EXCEPT !.returned = Success(client)]
    /\ Leave
    /\ UNCHANGED <<peer, read>>

\* mlw_tcp_recv with an open connection.
RecvCall ==
    /\ client.pc = "app"
    /\ client.is_open
    /\ client' = [client EXCEPT !.pc = "recv"]
    /\ UNCHANGED <<peer, net, read>>

\* n bytes of the buffer are returned, by the loop of mlw_tcp_recv or, once the
\* connection is closed, at once.
RecvReturn(n) ==
    /\ client.pc = "recv" \/ (client.pc = "app" /\ ~client.is_open)
    /\ n <= Len(client.buffer)
    /\ read' = read \o SubSeq(client.buffer, 1, n)
    /\ client' = [client EXCEPT !.pc = "app", !.buffer = SubSeq(@, n + 1, Len(@)),
                                !.draining = FALSE]
    /\ Leave
    /\ UNCHANGED peer

RecvTimeout ==
    /\ client.pc = "recv"
    /\ client.buffer = <<>>
    /\ client' = [client EXCEPT !.pc = "app", !.draining = FALSE]
    /\ Leave
    /\ UNCHANGED <<peer, read>>

\* I_mlw_tcp_has_been_seen.
Relative(seq, first) == (seq - first) % Word

HasBeenSeen_Never(c, seq) == FALSE
HasBeenSeen(c, seq) == Relative(seq, c.recv_first) < Relative(c.recv_next, c.recv_first)

InOrder_Unseen(c, seq) == ~HasBeenSeen(c, seq)
InOrder(c, seq) == seq = c.recv_next

\* The end of I_mlw_tcp_update: the bytes of a packet.
Accepted(c, seq, data) ==
    IF data # <<>> /\ InOrder(c, seq)
    THEN [c EXCEPT !.recv_next = Plus(seq, Len(data)), !.buffer = @ \o data]
    ELSE c

Replies(c, seq, data) ==
    IF data # <<>> /\ (InOrder(c, seq) \/ HasBeenSeen(c, seq))
    THEN {Segment(Accepted(c, seq, data), "ACK", <<>>)} ELSE {}

IsAwaited_Any(c, m) == TRUE
IsAwaited(c, m) == m.ack = c.seq_to_wait

Heeded(c, m) == [c EXCEPT !.is_waiting_seq = @ /\ ~IsAwaited(c, m)]

\* I_mlw_tcp_update, with one packet: a FIN is answered and starts close_self,
\* after which the loop goes on until there is no packet.
Update(m) ==
    /\ client.pc \in {"send", "recv"}
    /\ ~client.is_open => client.draining
    /\ LET c == Heeded(client, m)
       IN  IF m.kind = "FIN"
           THEN /\ client' = [c EXCEPT !.pc = "fin", !.op = client.pc, !.fin = <<m>>]
                /\ Answer("client", m, "peer",
                          {Packet("ACK", c.send_next, Plus(c.recv_next, 1 + Len(m.data)), <<>>)})
           ELSE /\ client' = Accepted(c, m.seq, m.data)
                /\ Answer("client", m, "peer", Replies(c, m.seq, m.data))
    /\ UNCHANGED <<peer, read>>

\* The loops of close_self and mlw_tcp_close, with a packet ...
CloseRecv(m) ==
    /\ client.pc \in {"fin", "close"}
    /\ client' = IF m.ack = Plus(client.send_next, 1)
                 THEN [client EXCEPT !.send_next = Plus(@, 1)] ELSE client
    /\ Answer("client", m, "peer", {})
    /\ UNCHANGED <<peer, read>>

\* ... and without.
CloseResend ==
    /\ client.pc \in {"fin", "close"}
    /\ ToPeer(Segment(client, "FIN", <<>>))
    /\ UNCHANGED <<client, peer, read>>

\* The five seconds of close_self are over, and I_mlw_tcp_update goes on with
\* the bytes of the FIN.
FinEnd ==
    /\ client.pc = "fin"
    /\ LET m == Head(client.fin)
           c == [client EXCEPT !.pc = client.op, !.op = "app", !.is_open = FALSE, !.fin = <<>>,
                                !.eof = TRUE, !.draining = TRUE]
       IN  /\ client' = Accepted(c, m.seq, m.data)
           /\ IF Replies(c, m.seq, m.data) = {} THEN UNCHANGED net
              ELSE \E r \in Replies(c, m.seq, m.data) : ToPeer(r)
    /\ UNCHANGED <<peer, read>>

\* mlw_tcp_close.  Its second loop is never entered: the time of the first is
\* over.
CloseCall ==
    /\ client.pc = "app"
    /\ client.is_open
    /\ ToPeer(Segment(client, "FIN", <<>>))
    /\ client' = [client EXCEPT !.pc = "close"]
    /\ UNCHANGED <<peer, read>>

CloseEnd ==
    /\ client.pc = "close"
    /\ client' = [client EXCEPT !.pc = "app", !.is_open = FALSE]
    /\ Leave
    /\ UNCHANGED <<peer, read>>

-----------------------------------------------------------------------------
(* The peer.  una and nxt count what it sent, from the SYN, 0, over the     *)
(* bytes 1 .. NIn to the FIN, NIn + 1.                                     *)

ToClient(m) == IF Deaf(client) THEN UNCHANGED net ELSE net' \in Sent(net, "client", m)

PeerPacket(kind, n, data) == Packet(kind, Plus(PeerSeq, n), peer.rcv_next, data)

Established == peer.st = "established"

PeerSynAck ==
    /\ peer.st = "syn_received"
    /\ ToClient(PeerPacket("SYNACK", 0, <<>>))
    /\ UNCHANGED <<client, peer, read>>

PeerAck ==
    /\ peer.st \in {"established", "closed"}
    /\ ToClient(PeerPacket("ACK", peer.nxt, <<>>))
    /\ UNCHANGED <<client, peer, read>>

\* Bytes i .. j, new ones or again.
PeerSend(i, j) ==
    /\ Established
    /\ i >= peer.una
    /\ i <= peer.nxt
    /\ ToClient(PeerPacket("ACK", i, Run(i, j)))
    /\ peer' = [peer EXCEPT !.nxt = IF j + 1 > @ THEN j + 1 ELSE @]
    /\ UNCHANGED <<client, read>>

PeerFin ==
    /\ Established
    /\ peer.una = NIn + 1
    /\ ToClient(PeerPacket("FIN", NIn + 1, <<>>))
    /\ peer' = [peer EXCEPT !.nxt = NIn + 2]
    /\ UNCHANGED <<client, read>>

\* What an acknowledgment says, when it is of something sent.
AckedBy(m) == LET n == (m.ack - PeerSeq) % Word
              IN  IF n > peer.una /\ n <= peer.nxt THEN n ELSE peer.una

PeerRecv(m) ==
    /\ peer' =
          CASE m.kind = "SYN" /\ peer.st = "listen" ->
                   [peer EXCEPT !.st = "syn_received", !.rcv_next = Plus(m.seq, 1), !.nxt = 1]
            [] m.kind # "SYN" /\ (Established \/ (peer.st = "syn_received" /\ AckedBy(m) = 1)) ->
                   LET p == [peer EXCEPT !.st = "established", !.una = AckedBy(m)]
                   IN  IF m.seq # p.rcv_next THEN p
                       ELSE IF m.kind = "FIN"
                       THEN [p EXCEPT !.rcv_next = Plus(@, 1), !.st = "closed"]
                       ELSE [p EXCEPT !.rcv_next = Plus(@, Len(m.data)), !.got = @ \o m.data]
            [] OTHER -> peer
    /\ net' \in Arrived(net, "peer", m)
    /\ UNCHANGED <<client, read>>

-----------------------------------------------------------------------------
ClientCalls ==
    \/ Connect \/ ConnectTimeout \/ RecvCall \/ RecvTimeout \/ CloseCall
    \/ Retry \/ SendFail \/ SegmentDone \/ SendDone
    \/ CloseResend \/ FinEnd \/ CloseEnd
    \/ \E n \in 1 .. NOut : SendCall(n)
    \/ \E n \in 1 .. NIn : RecvReturn(n)

ClientReads ==
    \E m \in net.client : ConnectRecv(m) \/ Update(m) \/ CloseRecv(m)

PeerSteps ==
    \/ PeerSynAck \/ PeerAck \/ PeerFin
    \/ \E i \in 1 .. NIn : \E j \in i .. NIn : PeerSend(i, j)
    \/ \E m \in net.peer : PeerRecv(m)

Next ==
    \/ ClientCalls
    \/ ClientReads
    \/ PeerSteps

Spec == Init /\ [][Next]_vars

\* The peer transmits again what is not acknowledged, and now and then a
\* packet gets through: one of the bytes that the client waits for or has
\* acknowledged already, the acknowledgment it causes.  The caller goes on
\* receiving.  (A packet that comes between two calls waits for the next one in
\* eth.c; with the bound on net it might be lost again.)
Resent == /\ client.pc \in {"send", "recv"}
          /\ \E j \in 1 .. NIn : PeerSend(peer.una, j) /\ net'.client # net.client

Answered == \E m \in net.client :
    /\ m.seq = Plus(PeerSeq, peer.una)
    /\ Update(m)
    /\ Replies(client, m.seq, m.data) \cap net'.peer # {}

Heard == \E m \in net.peer : AckedBy(m) # peer.una /\ PeerRecv(m)

FairSpec == Spec /\ WF_vars(RecvCall) /\ SF_vars(Resent) /\ SF_vars(Answered) /\ SF_vars(Heard)

-----------------------------------------------------------------------------
Received == read \o client.buffer

\* What the caller was told is sent, the connection being open, has arrived, at
\* its place; and as long as it is open the peer has got what was given, in order
\* and once, whatever was lost, late or repeated (send.c:103-116).  (Once the
\* client has sent its FIN, the acknowledgment of the FIN is also that of a last
\* byte: update.c:52 cannot tell.)
OutStream ==
    /\ Len(peer.got) >= client.returned
    /\ \A i \in 1 .. client.returned : peer.got[i] = i
    /\ client.is_open /\ client.pc # "fin" => peer.got = Run(1, Len(peer.got))

\* The caller gets the bytes of the peer in order and once; the peer takes
\* none for arrived that the client does not have; and the end of the stream
\* is not reported before all of it is there (update.c:51-80).
InStream ==
    /\ Received = Run(1, Len(Received))
    /\ peer.una - 1 <= Len(Received) \/ peer.una = NIn + 2
    /\ client.eof => Len(Received) = NIn

\* The bytes that the peer has sent are acknowledged in the end, also when the
\* acknowledgment was lost and they come again, as long as neither side ends
\* (update.c:77-79).
InAcked ==
    (Established /\ peer.una < peer.nxt)
       ~> (peer.una = peer.nxt \/ peer.una > NIn \/ peer.st = "closed"
             \/ ~client.is_open \/ client.pc = "close")
=============================================================================
