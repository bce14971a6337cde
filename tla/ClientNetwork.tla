---------------------------- MODULE ClientNetwork ----------------------------
(***************************************************************************)
(* How packets leave the threaded client library of mosquitto 1.4.2        *)
(* (lib/net_mosq.c, lib/mosquitto.c, lib/thread_mosq.c) and how the other  *)
(* end puts them together again (_mosquitto_packet_read, which broker and  *)
(* library share).                                                         *)
(*                                                                         *)
(* The application's threads append packets to out_packet and wake the     *)
(* network thread through a socket pair; the network thread writes them in *)
(* pieces, as the socket takes them, and connects again when the           *)
(* connection is lost.  A packet is its command byte and its body; Radix   *)
(* stands for the 128 of the remaining length, and a byte is a number      *)
(* below 2 * Radix.                                                        *)
(***************************************************************************)
EXTENDS Integers, Sequences, SequencesExt

CONSTANTS
    Threads,        \* threads of the application
    Bodies,         \* bodies of the packets it publishes
    Hello,          \* body of CONNECT
    Radix,          \* 128 in the code
    Room,           \* bytes the connection holds
    MaxLosses,      \* bound on connections that break
    NULL

ASSUME NetworkAssumption ==
    /\ Radix \in Nat \ {0, 1} /\ Room \in Nat /\ MaxLosses \in Nat
    /\ Bodies \subseteq Seq(Nat) /\ Hello \in Seq(Nat)
    /\ NULL \notin [at : {"append", "wake"}, packet : [command : Nat, body : Seq(Nat)]]
    /\ NULL \notin [bytes : Seq(Nat), command : Nat]

CONNECT == 1
PUBLISH == 2
DISCONNECT == 3

Packet(command, body) == [command |-> command, body |-> body]

VARIABLES
    todo,           \* bodies still to be published
    leave,          \* mosquitto_disconnect is still to be called
    call,           \* per thread: NULL or the call it is in
    state,          \* mosq->state: "new" or "disconnecting"
    sock,           \* mosq->sock is valid
    out,            \* out_packet, the queue
    current,        \* current_out_packet: the bytes to process, and whose
    sockpair,       \* bytes in the socket pair
    pc, fds,        \* network thread: where it is, what select reported
    wire,           \* bytes under way
    up,             \* the connection is not broken
    in_packet,      \* the other end's packet
    handled,        \* packets the other end has handled on this connection
    queued,         \* packets queued for this connection (history)
    losses

app == <<todo, leave, call>>
net == <<pc, fds>>
peer == <<in_packet, handled>>
vars == <<app, state, sock, out, current, sockpair, net, wire, up, peer,
          queued, losses>>
-----------------------------------------------------------------------------
\* _mosquitto_packet_alloc divides the remaining length until nothing is left:
\* what is left before each byte,
Left(n) ==
    LET a == n \div Radix
        b == a \div Radix
        c == b \div Radix
    IN  <<n, a, b, c, c \div Radix>>

\* the number of bytes, five at most,
Digits(n) ==
    CHOOSE d \in 1..5 : /\ d = 5 \/ Left(n)[d + 1] = 0
                        /\ \A i \in 2..d : Left(n)[i] > 0

\* and the bytes, the low digit first, with the top bit set in all but the last.
RemainingLength(n) ==
    [i \in 1..Digits(n) |->
        (Left(n)[i] % Radix) + (IF i < Digits(n) THEN Radix ELSE 0)]

\* Mutant: a fifth byte is let through.
FitsFive(body) == Digits(Len(body)) <= 5

\* Four bytes at most; a fifth is MOSQ_ERR_PAYLOAD_SIZE.
Fits(body) == Digits(Len(body)) < 5

\* The strings in a CONNECT have 16-bit lengths.
ASSUME HelloFits == Fits(Hello)

Bytes(p) == <<p.command>> \o RemainingLength(Len(p.body)) \o p.body

\* _mosquitto_packet_cleanup of in_packet.
EmptyPacket == [command |-> 0, count |-> 0, mult |-> 1, length |-> 0,
                to_process |-> 0, body |-> <<>>]

Init ==
    /\ todo = Bodies /\ leave = TRUE
    /\ call = [t \in Threads |-> NULL]
    /\ state = "new" /\ sock = FALSE
    /\ out = <<>> /\ current = NULL /\ sockpair = 0
    /\ pc = "reconnect" /\ fds = {}
    /\ wire = <<>> /\ up = FALSE
    /\ in_packet = EmptyPacket /\ handled = <<>> /\ queued = <<>>
    /\ losses = 0
-----------------------------------------------------------------------------
\* mosquitto_publish with QoS 0, and mosquitto_disconnect, up to the test of
\* mosq->sock; without a socket the call returns.
Call(t, p) ==
    call' = [call EXCEPT ![t] = IF sock /\ Fits(p.body)
                                  THEN [at |-> "append", packet |-> p] ELSE NULL]

mosquitto_publish(t) ==
    /\ call[t] = NULL
    /\ \E b \in todo : /\ todo' = todo \ {b}
                       /\ Call(t, Packet(PUBLISH, b))
    /\ UNCHANGED <<leave, state, sock, out, current, sockpair, net, wire, up,
                   peer, queued, losses>>

mosquitto_disconnect(t) ==
    /\ call[t] = NULL /\ leave
    /\ leave' = FALSE
    /\ state' = "disconnecting"
    /\ Call(t, Packet(DISCONNECT, <<>>))
    /\ UNCHANGED <<todo, sock, out, current, sockpair, net, wire, up,
                   peer, queued, losses>>

\* _mosquitto_packet_queue: the packet is appended under out_packet_mutex ...
Queue(p) ==
    /\ out' = Append(out, p)
    /\ queued' = Append(queued, p)

packet_queue(t) ==
    /\ call[t] # NULL /\ call[t].at = "append"
    /\ Queue(call[t].packet)
    /\ call' = [call EXCEPT ![t].at = "wake"]
    /\ UNCHANGED <<todo, leave, state, sock, current, sockpair, net, wire, up,
                   peer, losses>>

\* Mutant: select is left to its timeout.
WakeNever == UNCHANGED sockpair

\* ... and a byte in the socket pair breaks the network thread out of select.
Wake == sockpair' = IF sockpair < 2 THEN sockpair + 1 ELSE sockpair

packet_queue_wake(t) ==
    /\ call[t] # NULL /\ call[t].at = "wake"
    /\ Wake
    /\ call' = [call EXCEPT ![t] = NULL]
    /\ UNCHANGED <<todo, leave, state, sock, out, current, net, wire, up,
                   peer, queued, losses>>
-----------------------------------------------------------------------------
\* mosquitto_loop up to select: it waits to write only when there is
\* something to write.
mosquitto_loop ==
    /\ pc = "loop"
    /\ IF sock
       THEN /\ pc' = "select"
            /\ fds' = IF out # <<>> \/ current # NULL THEN {"write"} ELSE {}
       ELSE pc' = "ended" /\ fds' = {}
    /\ UNCHANGED <<app, state, sock, out, current, sockpair, wire, up, peer,
                   queued, losses>>

\* What select finds: end of stream is readable, and a broken connection
\* writable.
Ready == (IF up THEN {} ELSE {"read"})
         \cup (IF sockpair > 0 THEN {"pair"} ELSE {})
         \cup (IF Len(wire) < Room \/ ~up THEN fds \cap {"write"} ELSE {})

select ==
    /\ pc = "select" /\ Ready # {}
    /\ pc' = "serve" /\ fds' = Ready
    /\ UNCHANGED <<app, state, sock, out, current, sockpair, wire, up, peer,
                   queued, losses>>

\* After the keepalive, or a day without one.
select_timeout ==
    /\ pc = "select" /\ Ready = {}
    /\ pc' = "loop" /\ fds' = {}
    /\ UNCHANGED <<app, state, sock, out, current, sockpair, wire, up, peer,
                   queued, losses>>

\* _mosquitto_loop_rc_handle after an error.
socket_close == sock' = FALSE /\ pc' = "ended" /\ fds' = {}

\* mosquitto_loop_read: nothing is sent to the client here, so a readable
\* socket is a broken one.
mosquitto_loop_read ==
    /\ pc = "serve" /\ "read" \in fds
    /\ socket_close
    /\ UNCHANGED <<app, state, out, current, sockpair, wire, up, peer,
                   queued, losses>>

\* The byte of the socket pair counts as writable.
mosquitto_loop_pair ==
    /\ pc = "serve" /\ "read" \notin fds
    /\ sockpair' = IF "pair" \in fds THEN sockpair - 1 ELSE sockpair
    /\ pc' = "write" /\ fds' = {}
    /\ UNCHANGED <<app, state, sock, out, current, wire, up, peer, queued, losses>>

\* _mosquitto_packet_write takes the next packet when it has none.
Take ==
    IF out = <<>> THEN current' = NULL /\ UNCHANGED out
    ELSE /\ current' = [bytes |-> Bytes(Head(out)), command |-> Head(out).command]
         /\ out' = Tail(out)

packet_write_next ==
    /\ pc = "write" /\ current = NULL
    /\ Take
    /\ pc' = IF out = <<>> THEN "loop" ELSE "write"
    /\ UNCHANGED <<app, state, sock, sockpair, fds, wire, up, peer, queued, losses>>

\* _mosquitto_net_write takes some of the bytes; after the last of a
\* DISCONNECT the socket is closed, after that of another packet the next
\* one follows.
packet_write ==
    /\ pc = "write" /\ current # NULL /\ up
    /\ \E n \in 1..Len(current.bytes) :
          /\ Len(wire) + n <= Room
          /\ wire' = wire \o SubSeq(current.bytes, 1, n)
          /\ IF n < Len(current.bytes)
             THEN /\ current' = [current EXCEPT !.bytes = SubSeq(@, n + 1, Len(@))]
                  /\ UNCHANGED <<out, sock, pc>>
             ELSE /\ Take
                  /\ sock' = (current.command # DISCONNECT)
                  /\ pc' = IF current.command # DISCONNECT /\ out # <<>>
                             THEN "write" ELSE "loop"
    /\ UNCHANGED <<app, state, sockpair, fds, up, peer, queued, losses>>

\* EAGAIN, which is no error.
packet_write_full ==
    /\ pc = "write" /\ current # NULL /\ up
    /\ Len(wire) = Room
    /\ pc' = "loop"
    /\ UNCHANGED <<app, state, sock, out, current, sockpair, fds, wire, up,
                   peer, queued, losses>>

packet_write_lost ==
    /\ pc = "write" /\ current # NULL /\ ~up
    /\ socket_close
    /\ UNCHANGED <<app, state, out, current, sockpair, wire, up, peer, queued, losses>>

\* mosquitto_loop_forever without a connection: it ends when
\* mosquitto_disconnect has been called, now or after the delay.
loop_forever ==
    /\ pc \in {"ended", "delay"}
    /\ pc' = IF state = "disconnecting" THEN "stopped"
             ELSE IF pc = "ended" THEN "delay" ELSE "reconnect"
    /\ UNCHANGED <<app, state, sock, out, current, sockpair, fds, wire, up,
                   peer, queued, losses>>

reconnect_state ==
    /\ pc = "reconnect"
    /\ state' = "new" /\ pc' = "clear"
    /\ UNCHANGED <<app, sock, out, current, sockpair, fds, wire, up, peer,
                   queued, losses>>

\* Mutant: the packet that was being written goes on where it stopped.
ClearQueueOnly ==
    /\ out' = <<>>
    /\ UNCHANGED current

\* _mosquitto_reconnect frees all packets, the one half written too.
Clear ==
    /\ out' = <<>>
    /\ current' = NULL

reconnect_clear ==
    /\ pc = "clear"
    /\ Clear
    /\ pc' = "socket"
    /\ UNCHANGED <<app, state, sock, sockpair, fds, wire, up, peer, queued, losses>>

\* _mosquitto_socket_connect: the other end starts with a new context.
socket_connect ==
    /\ pc = "socket"
    /\ \/ /\ sock' = TRUE /\ up' = TRUE /\ wire' = <<>>
          /\ in_packet' = EmptyPacket /\ handled' = <<>>
          /\ queued' = out
          /\ pc' = "hello"
       \/ /\ pc' = "ended"
          /\ UNCHANGED <<sock, up, wire, peer, queued>>
    /\ UNCHANGED <<app, state, out, current, sockpair, fds, losses>>

send_connect ==
    /\ pc = "hello"
    /\ Queue(Packet(CONNECT, Hello)) /\ Wake
    /\ pc' = "loop"
    /\ UNCHANGED <<app, state, sock, current, fds, wire, up, peer, losses>>
-----------------------------------------------------------------------------
\* _mosquitto_packet_handle and the cleanup after it.
Complete(p) ==
    IF p.count > 0 /\ p.to_process = 0
    THEN /\ handled' = Append(handled, Packet(p.command, p.body))
         /\ in_packet' = EmptyPacket
         /\ up' = (p.command # DISCONNECT)
    ELSE in_packet' = p /\ UNCHANGED <<handled, up>>

\* MOSQ_ERR_PROTOCOL: the connection is closed.
Refuse == up' = FALSE /\ UNCHANGED peer

\* _mosquitto_packet_read.  The first packet has to be a CONNECT,
read_command ==
    /\ up /\ wire # <<>> /\ in_packet.command = 0
    /\ wire' = Tail(wire)
    /\ IF handled = <<>> /\ Head(wire) # CONNECT THEN Refuse
       ELSE Complete([in_packet EXCEPT !.command = Head(wire)])
    /\ UNCHANGED <<app, state, sock, out, current, sockpair, net, queued, losses>>

\* the length is read byte by byte, with count negative until it is complete,
read_length ==
    /\ up /\ wire # <<>> /\ in_packet.command # 0 /\ in_packet.count <= 0
    /\ wire' = Tail(wire)
    /\ LET byte == Head(wire)
           p == [in_packet EXCEPT
                    !.count = @ - 1,
                    !.length = @ + (byte % Radix) * in_packet.mult,
                    !.mult = @ * Radix]
       IN  IF p.count < -4 THEN Refuse
           ELSE Complete(IF byte >= Radix THEN p
                         ELSE [p EXCEPT !.count = -@, !.to_process = p.length])
    /\ UNCHANGED <<app, state, sock, out, current, sockpair, net, queued, losses>>

\* and the rest in the pieces it arrives in.
read_payload ==
    /\ up /\ wire # <<>> /\ in_packet.count > 0
    /\ \E n \in 1..Len(wire) :
          /\ n <= in_packet.to_process
          /\ n = Len(wire) \/ n = in_packet.to_process
          /\ wire' = SubSeq(wire, n + 1, Len(wire))
          /\ Complete([in_packet EXCEPT !.to_process = @ - n,
                                        !.body = @ \o SubSeq(wire, 1, n)])
    /\ UNCHANGED <<app, state, sock, out, current, sockpair, net, queued, losses>>

link_lost ==
    /\ up /\ losses < MaxLosses
    /\ up' = FALSE /\ losses' = losses + 1
    /\ wire' = <<>>
    /\ UNCHANGED <<app, state, sock, out, current, sockpair, net, peer, queued>>

NetworkThread ==
    \/ mosquitto_loop \/ select \/ mosquitto_loop_read \/ mosquitto_loop_pair
    \/ packet_write_next \/ packet_write \/ packet_write_full \/ packet_write_lost
    \/ loop_forever \/ reconnect_state \/ reconnect_clear \/ socket_connect
    \/ send_connect

Reader == read_command \/ read_length \/ read_payload

Return(t) == packet_queue(t) \/ packet_queue_wake(t)

Next ==
    \/ \E t \in Threads :
          mosquitto_publish(t) \/ mosquitto_disconnect(t) \/ Return(t)
    \/ NetworkThread \/ select_timeout \/ Reader \/ link_lost

Spec == Init /\ [][Next]_vars

\* The kernel runs every thread and both ends read; nobody has to publish, no
\* timeout has to pass, but a connection attempt succeeds in the end.
FairSpec ==
    /\ Spec
    /\ WF_vars(NetworkThread) /\ WF_vars(Reader)
    /\ SF_vars(socket_connect /\ sock')
    /\ \A t \in Threads : WF_vars(Return(t))
-----------------------------------------------------------------------------
\* However the bytes are cut by the sender, the socket and the receiver, and
\* whatever a lost connection left half written, the packets handled on a
\* connection are the first ones that were queued for it, whole and in order.
HandledInOrder == IsPrefix(handled, queued)

\* The two ends agree on how long a packet may be: what the sender lets
\* through never has a fourth length byte that announces a fifth, for which
\* the receiver would close the connection.
LengthAgreed == in_packet.count > -4

\* A queued packet leaves without any timeout, or its connection is lost:
\* select never sleeps on work that was queued behind its back.
QueuedLeaves == (out # <<>> /\ sock) ~> (out = <<>> \/ ~sock)

\* The first packet on a connection is the CONNECT.
ConnectFirst == pc \in {"loop", "select", "serve", "write"} /\ queued # <<>>
                    => Head(queued).command = CONNECT

\* Once mosquitto_disconnect has been called, the network thread ends.
DisconnectEnds == ~leave ~> pc = "stopped"
=============================================================================
