--------------------------------- MODULE Udp ---------------------------------
(***************************************************************************)
(* The sockets of profanOS: the socket module (zlibs/modules/socket), UDP  *)
(* the only protocol, over the queue that eth.c keeps for its listener.    *)
(*                                                                         *)
(* Calls run in the kernel, which is not preempted and masks the network   *)
(* card meanwhile.  A sender that finds the queue of its socket full and a *)
(* reader that finds it empty sleep and look again, with a pointer to the  *)
(* data of the socket in hand.  One kernel process, socket_process, does   *)
(* the rest: it ticks every socket (one packet to send, or the end of a    *)
(* socket that is closed and has nothing to send), hands out one received  *)
(* packet, compacts the array and sleeps 5 ms, or for ever when there is   *)
(* no socket left.  It also sleeps in the middle of a tick, in eth_send,   *)
(* until the card has sent; meanwhile sockets come, go and fill.           *)
(*                                                                         *)
(* Addresses are left out: what the addresses of a packet and of a         *)
(* connected socket decide is a choice.  Checksums, headers and the        *)
(* answers to ARP are left out, they touch no state.                       *)
(*                                                                         *)
(* The premise: no socket takes a port that another has (PortIsNew).  The  *)
(* module does not see to it: bind looks a port up in the byte order it    *)
(* does not lock it in, and udp_get_free_port returns the second port of   *)
(* its range without a look at whether it is free.                         *)
(***************************************************************************)
EXTENDS Integers, Sequences, FiniteSets, SequencesExt

CONSTANTS
    Procs,          \* processes
    MaxSockets,     \* bound on the sockets ever opened
    QueueMax,       \* packets of a queue (64)
    MaxMsg,         \* bound on the packets accepted for sending
    MaxIn,          \* bound on the packets received
    Base,           \* values of a byte; a port has two
    CLT_PORT_START, \* first port of the range given to clients
    Asked           \* ports, in network byte order, that callers bind to

ASSUME SizeAssumption == /\ MaxSockets \in Nat
                         /\ QueueMax \in Nat \ {0}
                         /\ Base \in Nat \ {0}
                         /\ CLT_PORT_START \in 1 .. Base * Base - 2
                         /\ IsFiniteSet(Procs)  \* the process table has 200 entries

Ids == 0 .. MaxSockets - 1
Ports == 1 .. Base * Base - 1

\* Callers name a port of 16 bits; 0 asks for any, which is BindAny.
ASSUME AskedAssumption == Asked \subseteq Ports

\* A port is kept in network byte order, read as a number of this machine.
htons(port) == (port % Base) * Base + port \div Base

VARIABLES
    sockets,  \* the array: id, references, do_remove, local_port (0: unbound), queues
    last_id,  \* the next identifier
    bitmap,   \* the ports locked, in host byte order
    held,     \* held[p]: the sockets that p has a descriptor of
    call,     \* call[p]: the call that p sleeps in
    inbox,    \* packets that eth.c holds for the socket process
    sp,       \* the socket process: where it is, the index it ticks, its packet
    alive,    \* the processes that exist
    arrived,  \* observed: how many packets eth.c was given
    log       \* observed: what was accepted, sent, delivered and read, per socket

vars == <<sockets, last_id, bitmap, held, call, inbox, sp, alive, arrived, log>>

NoCall == [op |-> "none", id |-> 0]
NoPacket == -1  \* what sp.packet is without one; 0 is a packet that is not UDP

\* The destinations of packets that may find a socket.
PacketPorts == Asked \cup {htons(CLT_PORT_START)}

NewSocket(id) == [id |-> id, ref_count |-> 1, do_remove |-> FALSE,
                  local_port |-> 0, send |-> <<>>, recv |-> <<>>]

Upto(n) == [i \in 1 .. n |-> i]

-----------------------------------------------------------------------------
(* Calls.  While the socket process is not asleep nothing else runs.       *)

Free(p) == p \in alive /\ call[p] = NoCall /\ sp.pc # "running"

\* socket_find_id, for an identifier that a descriptor holds.
IndexOf(id) == CHOOSE i \in DOMAIN sockets : sockets[i].id = id
The(id) == sockets[IndexOf(id)]

\* process_wakeup of the socket process; in eth_send it looks at the card and
\* sleeps again.
Woken_Timed(s) == IF s.pc = "timed" THEN [s EXCEPT !.pc = "woken"] ELSE s
Woken(s) == IF s.pc \in {"timed", "forever"} THEN [s EXCEPT !.pc = "woken"] ELSE s

\* socket_socket.
Open(p) ==
    /\ Free(p)
    /\ last_id < MaxSockets
    /\ sockets' = Append(sockets, NewSocket(last_id))
    /\ last_id' = last_id + 1
    /\ held' = [held EXCEPT ![p] = @ \cup {last_id}]
    /\ sp' = Woken(sp)
    /\ UNCHANGED <<bitmap, call, inbox, alive, arrived, log>>

PortIsNew(port) == \A i \in DOMAIN sockets : sockets[i].local_port # port

\* What udp_get_free_port returns.
FreePort == htons(IF CLT_PORT_START \in bitmap THEN CLT_PORT_START + 1
                                               ELSE CLT_PORT_START)

\* socket_udp_bind to a port the caller names: it looks for the port in the
\* bitmap as it is, and locks it in host byte order.
BindTo(p, id, port) ==
    /\ Free(p)
    /\ id \in held[p]
    /\ The(id).local_port = 0
    /\ port \notin bitmap
    /\ PortIsNew(port)
    /\ bitmap' = bitmap \cup {htons(port)}
    /\ sockets' = [sockets EXCEPT ![IndexOf(id)].local_port = port]
    /\ UNCHANGED <<last_id, held, call, inbox, sp, alive, arrived, log>>

\* socket_udp_bind to port 0, or socket_udp_connect, of an unbound socket.
BindAny(p, id) ==
    /\ Free(p)
    /\ id \in held[p]
    /\ The(id).local_port = 0
    /\ PortIsNew(FreePort)
    /\ bitmap' = bitmap \cup {htons(FreePort)}
    /\ sockets' = [sockets EXCEPT ![IndexOf(id)].local_port = FreePort]
    /\ UNCHANGED <<last_id, held, call, inbox, sp, alive, arrived, log>>

\* The packet goes to the end of the queue; a socket without a port gets one.
Put(id) ==
    LET port == IF The(id).local_port = 0 THEN FreePort ELSE The(id).local_port
    IN  /\ The(id).local_port = 0 => PortIsNew(port)
        /\ bitmap' = bitmap \cup {htons(port)}
        /\ log' = [log EXCEPT ![id].accepted = @ + 1]
        /\ sockets' = [sockets EXCEPT ![IndexOf(id)].local_port = port,
                                      ![IndexOf(id)].send = Append(@, log'[id].accepted)]

\* The packets that sendto accepted or that wait for it.
Offered == MapThenSumSet(LAMBDA id : log[id].accepted, Ids)
              + Cardinality({p \in Procs : call[p].op = "send"})

\* socket_udp_sendto.
Send(p, id) ==
    /\ Free(p)
    /\ id \in held[p]
    /\ Offered < MaxMsg
    /\ IF Len(The(id).send) = QueueMax
       THEN /\ call' = [call EXCEPT ![p] = [op |-> "send", id |-> id]]
            /\ UNCHANGED <<sockets, bitmap, log>>
       ELSE /\ Put(id)
            /\ UNCHANGED call
    /\ UNCHANGED <<last_id, held, inbox, sp, alive, arrived>>

\* The sender looks again, every millisecond.
SendWake(p) ==
    /\ p \in alive
    /\ sp.pc # "running"
    /\ call[p].op = "send"
    /\ Len(The(call[p].id).send) < QueueMax
    /\ Put(call[p].id)
    /\ call' = [call EXCEPT ![p] = NoCall]
    /\ UNCHANGED <<last_id, held, inbox, sp, alive, arrived>>

\* The first packet of the queue is read, and goes unless the reader peeks.
Take(id, peek) ==
    IF peek
    THEN UNCHANGED <<sockets, log>>
    ELSE /\ log' = [log EXCEPT ![id].read = Append(@, Head(The(id).recv))]
         /\ sockets' = [sockets EXCEPT ![IndexOf(id)].recv = Tail(@)]

\* socket_udp_recvfrom.
Recv(p, id) ==
    /\ Free(p)
    /\ id \in held[p]
    /\ IF The(id).recv = <<>>
       THEN /\ call' = [call EXCEPT ![p] = [op |-> "recv", id |-> id]]
            /\ UNCHANGED <<sockets, log>>
       ELSE /\ Take(id, FALSE)
            /\ UNCHANGED call
    /\ UNCHANGED <<last_id, bitmap, held, inbox, sp, alive, arrived>>

\* The reader looks again, every 5 milliseconds.
RecvWake(p) ==
    /\ p \in alive
    /\ sp.pc # "running"
    /\ call[p].op = "recv"
    /\ The(call[p].id).recv # <<>>
    /\ \E peek \in BOOLEAN : Take(call[p].id, peek)
    /\ call' = [call EXCEPT ![p] = NoCall]
    /\ UNCHANGED <<last_id, bitmap, held, inbox, sp, alive, arrived>>

\* The sockets with n more references from each descriptor in ids.
Referenced(ids, n) ==
    [i \in DOMAIN sockets |-> IF sockets[i].id \in ids
                              THEN [sockets[i] EXCEPT !.ref_count = @ + n] ELSE sockets[i]]

\* fm_close of a descriptor: socket_close_id.
Close(p, id) ==
    /\ Free(p)
    /\ id \in held[p]
    /\ held' = [held EXCEPT ![p] = @ \ {id}]
    /\ sockets' = Referenced({id}, -1)
    /\ UNCHANGED <<last_id, bitmap, call, inbox, sp, alive, arrived, log>>

\* fork, with fm_declare_child: socket_inc_ref for each descriptor.
Fork(p, q) ==
    /\ Free(p)
    /\ q \notin alive
    /\ alive' = alive \cup {q}
    /\ held' = [held EXCEPT ![q] = held[p]]
    /\ sockets' = Referenced(held[p], 1)
    /\ UNCHANGED <<last_id, bitmap, call, inbox, sp, arrived, log>>

\* exit, or a kill that may come while the process sleeps in a call: __atdeath
\* of fmopen closes the descriptors.
Die(p) ==
    /\ p \in alive
    /\ sp.pc # "running"
    /\ alive' = alive \ {p}
    /\ held' = [held EXCEPT ![p] = {}]
    /\ sockets' = Referenced(held[p], -1)
    /\ call' = [call EXCEPT ![p] = NoCall]
    /\ UNCHANGED <<last_id, bitmap, inbox, sp, arrived, log>>

-----------------------------------------------------------------------------
(* The socket process. *)

\* eth_recv_packet, in the interrupt of the card.
Arrive(port) ==
    /\ sp.pc # "running"
    /\ arrived < MaxIn
    /\ arrived' = arrived + 1
    /\ inbox' = Append(inbox, port)
    /\ UNCHANGED <<sockets, last_id, bitmap, held, call, sp, alive, log>>

\* socket_udp_tick: a socket nobody refers to goes once its queue is empty.
Ends(s) == ~s.do_remove /\ s.send = <<>> /\ s.ref_count = 0

Ended(s) == [s EXCEPT !.local_port = 0, !.do_remove = TRUE, !.send = <<>>, !.recv = <<>>]

\* The next socket, from index i, that has a packet to send.
NextSender(ss, i) == SelectInSubSeq(ss, i, Len(ss), LAMBDA s : ~Ends(s) /\ s.send # <<>>)

\* socket_on_recv_udp: the first socket bound to the port takes the packet, if
\* its addresses fit and there is room; 0 if none does.
Delivered(ss, port, fits) ==
    LET i == SelectInSeq(ss, LAMBDA s : s.local_port = port /\ port # 0)
    IN  IF i # 0 /\ fits /\ Len(ss[i].recv) < QueueMax THEN i ELSE 0

\* The end of socket_tick brings the sockets that stay to the front, in order.
Compact_First(ss) == SubSeq(ss, 1, SelectInSeq(ss \o <<Ended(NewSocket(0))>>,
                                               LAMBDA s : s.do_remove) - 1)
Compact(ss) ==
    LET front[i \in 0 .. Len(ss)] ==
            IF i = 0 THEN <<>>
            ELSE IF ss[i].do_remove THEN front[i - 1] ELSE Append(front[i - 1], ss[i])
    IN  front[Len(ss)]

\* eth_send gives a packet that is a broadcast, or for this machine, to its
\* listeners too.
Echoes == {<<>>} \cup {<<port>> : port \in PacketPorts}

\* socket_tick from index i on, with the sockets ss: it ends, or sleeps with
\* the first packet of a socket given to the card.
Tick(ss, i, packet, rest) ==
    LET j == NextSender(ss, i)
        ended == {k \in i .. (IF j = 0 THEN Len(ss) ELSE j - 1) : Ends(ss[k])}
        swept == [k \in DOMAIN ss |-> IF k \in ended THEN Ended(ss[k]) ELSE ss[k]]
    IN  /\ bitmap' = bitmap \ {htons(ss[k].local_port) : k \in ended}
        /\ IF j # 0
           THEN /\ sockets' = swept
                /\ sp' = [pc |-> "sending", at |-> j, packet |-> packet]
                /\ log' = [log EXCEPT ![ss[j].id].wire = Append(@, Head(ss[j].send))]
                /\ \E echo \in Echoes :
                      /\ arrived' = arrived + Len(echo)
                      /\ arrived' <= MaxIn
                      /\ inbox' = rest \o echo
           ELSE \E fits \in BOOLEAN :
                LET to == Delivered(swept, packet, fits)
                    id == swept[to].id
                IN  /\ IF to = 0
                       THEN /\ sockets' = Compact(swept)
                            /\ UNCHANGED log
                       ELSE /\ sockets' = Compact([swept EXCEPT ![to].recv =
                                                     Append(@, log[id].delivered + 1)])
                            /\ log' = [log EXCEPT ![id].delivered = @ + 1]
                    /\ sp' = [pc |-> IF packet = NoPacket THEN "timed" ELSE "running",
                              at |-> 0, packet |-> NoPacket]
                    /\ inbox' = rest
                    /\ UNCHANGED arrived
        /\ UNCHANGED <<last_id, held, call, alive>>

\* The top of the loop of socket_process, after its sleep or right after a
\* packet.
TickStart ==
    /\ sp.pc \in {"timed", "woken", "running"}
    /\ IF sockets = <<>>
       THEN /\ sp' = [sp EXCEPT !.pc = "forever"]
            /\ UNCHANGED <<sockets, last_id, bitmap, held, call, inbox, alive, arrived, log>>
       ELSE IF inbox = <<>>
            THEN Tick(sockets, 1, NoPacket, <<>>)
            ELSE Tick(sockets, 1, Head(inbox), Tail(inbox))

\* socket_udp_tick after socket_on_send_udp.
Shifted_All(queue) == <<>>
Shifted(queue) == Tail(queue)

\* The card has sent.
TickResume ==
    /\ sp.pc = "sending"
    /\ Tick([sockets EXCEPT ![sp.at].send = Shifted(@)], sp.at + 1, sp.packet, inbox)

-----------------------------------------------------------------------------
Init ==
    /\ sockets = <<>>
    /\ last_id = 0
    /\ bitmap = {}
    /\ alive = {CHOOSE p \in Procs : TRUE}
    /\ held = [p \in Procs |-> {}]
    /\ call = [p \in Procs |-> NoCall]
    /\ inbox = <<>>
    /\ sp = [pc |-> "woken", at |-> 0, packet |-> NoPacket]
    /\ arrived = 0
    /\ log = [id \in Ids |-> [accepted |-> 0, wire |-> <<>>, delivered |-> 0, read |-> <<>>]]

Next ==
    \/ \E p \in Procs :
          \/ Open(p) \/ SendWake(p) \/ RecvWake(p) \/ Die(p)
          \/ \E q \in Procs : Fork(p, q)
          \/ \E id \in Ids :
                \/ BindAny(p, id) \/ Send(p, id) \/ Recv(p, id)
                \/ Close(p, id)
                \/ \E port \in Asked : BindTo(p, id, port)
    \/ \E port \in PacketPorts \cup {0} : Arrive(port)
    \/ TickStart
    \/ TickResume

Spec == Init /\ [][Next]_vars

\* The timer wakes the socket process and the card sends what it is given.
FairSpec == Spec /\ WF_vars(TickStart) /\ WF_vars(TickResume)

-----------------------------------------------------------------------------
Holders(id) == Cardinality({p \in Procs : id \in held[p]})

InArray(id) == {i \in DOMAIN sockets : sockets[i].id = id /\ ~sockets[i].do_remove}

\* A socket that a process refers to, or whose data it will look at when it
\* wakes up in sendto or recvfrom, is in the array exactly once and was not
\* freed, whatever was closed, opened and compacted since; its count is the
\* number of the descriptors; and a port is locked exactly as long as its
\* socket is there (tick.c, close.c, fd.c, recvfrom.c:24).
SocketLives ==
    /\ \A id \in Ids :
          /\ (Holders(id) > 0 \/ \E p \in Procs : call[p].op # "none" /\ call[p].id = id)
                => /\ Cardinality(InArray(id)) = 1
                   /\ Holders(id) > 0
          /\ \A i \in InArray(id) : sockets[i].ref_count = Holders(id)
    /\ bitmap = {htons(sockets[i].local_port) :
                    i \in {k \in DOMAIN sockets : sockets[k].local_port # 0}}

\* What is in a queue of the socket, without the packet the card is sending.
InQueue(id, dir) ==
    IF InArray(id) = {} THEN <<>>
    ELSE LET i == CHOOSE i \in InArray(id) : TRUE
         IN  IF dir = "recv" THEN sockets[i].recv
             ELSE IF sp.pc = "sending" /\ sp.at = i THEN Tail(sockets[i].send)
             ELSE sockets[i].send

\* Every packet that sendto accepted is given to the card once, in order, also
\* when it is accepted while the card is busy with another and when the socket
\* is closed at once; and until the socket is closed recvfrom reads once, in
\* order, what the socket was given (udp.c:42-56, recvfrom.c:36-39).
QueuesFifo ==
    \A id \in Ids :
       /\ log[id].wire \o InQueue(id, "send") = Upto(log[id].accepted)
       /\ Holders(id) > 0 => log[id].read \o InQueue(id, "recv") = Upto(log[id].delivered)

\* A socket that nobody refers to any more sends what it has and goes, and
\* with it the lock of its port, even if it was opened when the socket
\* process slept for ever (init.c:28-29, fd.c:48-49).
ClosedGone ==
    \A id \in Ids :
       (last_id > id /\ Holders(id) = 0)
          ~> (\A i \in DOMAIN sockets : sockets[i].id # id)
=============================================================================
