--------------------------- MODULE ClientMessages ---------------------------
(***************************************************************************)
(* The messages of a client of libmosquitto 1.4.2 (lib/messages_mosq.c,    *)
(* lib/mosquitto.c, lib/read_handle*.c): the two lists of messages whose   *)
(* handshake is not over, the in-flight window, retries, and what a        *)
(* reconnection does to them.                                              *)
(*                                                                         *)
(* struct mosquitto is the record mosq; the C functions that change it are *)
(* operators from record to record, and packets they send are appended to  *)
(* mosq.wire.  The lists are linked through memory (heap, next, first,     *)
(* last) because the code keeps and repairs these pointers by hand.  The   *)
(* library is used from one thread.  The broker is external: it follows    *)
(* the MQTT handshakes, keeps the session over a reconnection and then     *)
(* sends again what was not answered.  TCP keeps the order of packets and  *)
(* loses the last ones when it breaks.                                     *)
(***************************************************************************)
EXTENDS Integers, Sequences, FiniteSets, SequencesExt

CONSTANTS
    Scenarios,      \* the instances to look at, see ScenarioAssumption
    LastMid,        \* the largest message id (65535)
    NULL

(***************************************************************************)
(* A scenario: max_inflight_messages, the messages the client publishes    *)
(* (out) and is sent (in) with their QoS, and bounds: connection losses,   *)
(* retry timeouts of the client, messages the broker sends again without   *)
(* being asked.                                                            *)
(***************************************************************************)
ASSUME ScenarioAssumption ==
    /\ LastMid \in Nat \ {0}
    /\ \A s \in Scenarios :
          /\ s.max_inflight \in Nat /\ s.losses \in Nat
          /\ s.timeouts \in Nat /\ s.repeats \in Nat
          /\ s.out \in Seq(0..2) /\ s.in \in Seq(0..2)

VARIABLES
    scenario,
    mosq,           \* struct mosquitto
    toClient,       \* packets on their way from the broker
    broker,         \* external: the broker's half of the session
    told,           \* the application's calls and callbacks, and history
    budget          \* losses, timeouts and repeats so far

vars == <<scenario, mosq, toClient, broker, told, budget>>

OutMsgs == DOMAIN scenario.out
InMsgs == DOMAIN scenario.in

Without(f, x) == [y \in DOMAIN f \ {x} |-> f[y]]
With(f, x, v) == [y \in DOMAIN f \cup {x} |-> IF y = x THEN v ELSE f[y]]

Send(m, packet) ==
    IF m.sock THEN [m EXCEPT !.wire = Append(@, packet)] ELSE m

Command(cmd, mid) == [cmd |-> cmd, mid |-> mid]
PublishPacket(node) ==
    [cmd |-> "PUBLISH", mid |-> node.mid, qos |-> node.qos, msg |-> node.msg]

(***************************************************************************)
(* The lists.  Chain follows the next pointers from the first message.     *)
(***************************************************************************)
RECURSIVE Chain(_, _)
Chain(heap, p) == IF p = NULL THEN <<>> ELSE <<p>> \o Chain(heap, heap[p].next)

Fresh(m) == CHOOSE p \in 1..(Cardinality(DOMAIN m.heap) + 1) : p \notin DOMAIN m.heap

WindowOpen(m) ==
    scenario.max_inflight = 0 \/ m.inflight < scenario.max_inflight

\* Mutant: the last pointer stays where it is.
message_queueKeepsLast(m, node, dir) ==
    LET p == Fresh(m)
        last == m[dir].last
        heap == With(m.heap, p, [node EXCEPT !.next = NULL])
        linked == IF last = NULL THEN heap ELSE [heap EXCEPT ![last].next = p]
    IN  [m EXCEPT !.heap = linked,
                  ![dir] = [first |-> IF last = NULL THEN p ELSE @.first,
                            last |-> IF last = NULL THEN p ELSE last,
                            len |-> @.len + 1]]

(***************************************************************************)
(* _mosquitto_message_queue; dir is "out" or "in".  After a reconnection   *)
(* that left the last pointer of one list in the other, the message it     *)
(* points to may have been freed: the next pointer is then written to      *)
(* memory no list leads to (or that malloc has given to this message).     *)
(***************************************************************************)
message_queue(m, node, dir) ==
    LET p == Fresh(m)
        last == m[dir].last
        heap == With(m.heap, p, [node EXCEPT !.next = NULL])
        linked == IF last \in DOMAIN heap THEN [heap EXCEPT ![last].next = p] ELSE heap
    IN  [m EXCEPT !.heap = linked,
                  ![dir] = [first |-> IF last = NULL THEN p ELSE @.first,
                            last |-> p, len |-> @.len + 1],
                  !.inflight = IF dir = "out" /\ node.qos > 0 /\ WindowOpen(m)
                               THEN @ + 1 ELSE @]

\* The state a message enters when its first PUBLISH is sent.
Waiting(qos) == IF qos = 1 THEN "wait_for_puback" ELSE "wait_for_pubrec"

(***************************************************************************)
(* The end of _mosquitto_message_remove: as long as the window is open,    *)
(* messages that wait for it are sent, in the order of the list.           *)
(***************************************************************************)
Promote(m) ==
    LET waiting == SelectSeq(Chain(m.heap, m.out.first), LAMBDA p :
                       m.heap[p].qos > 0 /\ m.heap[p].state = "invalid")
        room == IF scenario.max_inflight = 0 THEN Len(waiting)
                ELSE Max({0, Min({scenario.max_inflight - m.inflight, Len(waiting)})})
        sent == SubSeq(waiting, 1, room)
    IN  [m EXCEPT
            !.heap = [p \in DOMAIN @ |->
                         IF p \in ToSet(sent)
                         THEN [@[p] EXCEPT !.state = Waiting(m.heap[p].qos)] ELSE @[p]],
            !.inflight = @ + room,
            !.wire = IF m.sock
                     THEN @ \o [i \in 1..room |-> PublishPacket(m.heap[sent[i]])]
                     ELSE @]

Place(chain, p) == CHOOSE i \in DOMAIN chain : chain[i] = p

\* The first message of a list with this id.
Find(m, mid, dir) ==
    SelectSeq(Chain(m.heap, m[dir].first), LAMBDA p : m.heap[p].mid = mid)

message_remove(m, mid, dir) ==
    LET chain == Chain(m.heap, m[dir].first)
        cur == Head(Find(m, mid, dir))
        i == Place(chain, cur)
        prev == IF i = 1 THEN NULL ELSE chain[i - 1]
        next == m.heap[cur].next
        heap == IF prev = NULL THEN m.heap ELSE [m.heap EXCEPT ![prev].next = next]
        cut == [m EXCEPT !.heap = Without(heap, cur),
                         ![dir].first = IF prev = NULL THEN next ELSE @,
                         ![dir].last = IF next = NULL THEN prev ELSE @,
                         ![dir].len = @ - 1]
    IN  IF dir = "in" THEN cut
        ELSE Promote([cut EXCEPT !.inflight = IF m.heap[cur].qos > 0 THEN @ - 1 ELSE @])

(***************************************************************************)
(* _mosquitto_messages_reconnect_reset.  Every message is due for a retry. *)
(* prev, which becomes the last pointer of a list, is not set back between *)
(* the lists: it is still the last incoming message when there is no       *)
(* outgoing one, and the next message to be published is linked behind it. *)
(* A QoS 2 message keeps its state, whatever it is.  Messages of QoS 1 get *)
(* into the incoming list in that way only, and are taken out again; when  *)
(* that is the first one, the second is passed over, and if there is none  *)
(* the next pointer of NULL is read, which ends the process.               *)
(***************************************************************************)
\* The i-th outgoing message, with the messages up to it counted anew.
Relinked(node, i) ==
    [node EXCEPT !.due = TRUE,
                 !.state = IF scenario.max_inflight # 0 /\ i >= scenario.max_inflight
                           THEN "invalid"
                           ELSE IF node.qos = 1 THEN "wait_for_puback" ELSE @]

messages_reconnect_reset(m) ==
    LET chain == Chain(m.heap, m.in.first)
        headGone == chain # <<>> /\ m.heap[Head(chain)].qos # 2
        seen == {chain[i] : i \in {j \in DOMAIN chain : ~(headGone /\ j = 2)}}
        in == SelectSeq(chain, LAMBDA p : p \in seen => m.heap[p].qos = 2)
        out == Chain(m.heap, m.out.first)
        prev == IF in = <<>> THEN NULL ELSE Last(in)
        reset(p) ==
            CASE Contains(in, p) ->
                   LET i == Place(in, p)
                   IN  [m.heap[p] EXCEPT
                           !.next = IF i = Len(in) THEN NULL ELSE in[i + 1],
                           !.due = @ \/ p \in seen]
              [] Contains(out, p) -> Relinked(m.heap[p], Place(out, p))
              [] OTHER -> m.heap[p]
    IN  IF headGone /\ Len(chain) = 1 THEN [m EXCEPT !.ended = TRUE]
        ELSE [m EXCEPT
                 !.heap = [p \in DOMAIN @ \ (ToSet(chain) \ ToSet(in)) |-> reset(p)],
                 !.in = [first |-> IF in = <<>> THEN NULL ELSE Head(in),
                         last |-> prev, len |-> Cardinality(seen)],
                 !.out = [first |-> @.first,
                          last |-> IF out = <<>> THEN prev ELSE Last(out),
                          len |-> Len(out)],
                 !.inflight = Len(out)]

\* Mutant: a message that waits for PUBCOMP is not looked at.
LateNoPubrel(node) == node.due /\ node.state \notin {"invalid", "wait_for_pubcomp"}

\* message_retry seconds have passed since the message was sent.
Late(node) == node.due /\ node.state # "invalid"

\* _mosquitto_message_retry_check_actual, one message.
Retry(node) ==
    CASE node.state \in {"wait_for_puback", "wait_for_pubrec"} -> PublishPacket(node)
      [] node.state = "wait_for_pubrel"  -> Command("PUBREC", node.mid)
      [] node.state = "wait_for_pubcomp" -> Command("PUBREL", node.mid)

\* Both lists, the outgoing one first.
message_retry_check(m) ==
    LET late == SelectSeq(Chain(m.heap, m.out.first) \o Chain(m.heap, m.in.first),
                          LAMBDA p : Late(m.heap[p]))
    IN  [m EXCEPT !.heap = [p \in DOMAIN @ |->
                      [@[p] EXCEPT !.due = @ /\ ~Contains(late, p)]],
                  !.wire = @ \o [i \in DOMAIN late |-> Retry(m.heap[late[i]])]]

\* Mutant: the id is not advanced.
mid_generateSame(m) == m.last_mid

mid_generate(m) == IF m.last_mid = LastMid THEN 1 ELSE m.last_mid + 1

----------------------------------------------------------------------------
Init ==
    /\ scenario \in Scenarios
    /\ mosq = [heap |-> <<>>, inflight |-> 0, last_mid |-> LastMid - 1,
               out |-> [first |-> NULL, last |-> NULL, len |-> 0],
               in |-> [first |-> NULL, last |-> NULL, len |-> 0],
               sock |-> TRUE, ended |-> FALSE, wire |-> <<>>]
    /\ toClient = <<>>
    /\ broker = [held |-> <<>>,                         \* QoS 2, not released
                 forwarded |-> [x \in OutMsgs |-> 0],
                 next |-> 1,                            \* message to send next
                 state |-> [x \in InMsgs |-> "none"]]
    /\ told = [calls |-> 0,                             \* to mosquitto_publish
               published |-> [x \in OutMsgs |-> 0],     \* on_publish
               received |-> [x \in InMsgs |-> 0],       \* on_message
               echoed |-> 0,                            \* the same, of its own
               arrived |-> [x \in InMsgs |-> 0],        \* PUBLISH packets
               crossed |-> FALSE]                       \* see mosquitto_reconnect
    /\ budget = [losses |-> 0, timeouts |-> 0, repeats |-> 0]

(***************************************************************************)
(* mosquitto_publish.  The window is looked at a second time after         *)
(* _mosquitto_message_queue has counted the message.  A QoS 0 message is   *)
(* reported as published when it was written.                              *)
(***************************************************************************)
mosquitto_publish ==
    LET x == told.calls + 1
        qos == scenario.out[x]
        mid == mid_generate(mosq)
        counted == [mosq EXCEPT !.last_mid = mid]
        node == [mid |-> mid, qos |-> qos, msg |-> x, due |-> FALSE, next |-> NULL,
                 state |-> "invalid"]
        queued == message_queue(counted, node, "out")
        p == Fresh(counted)
    IN  /\ told.calls < Len(scenario.out) /\ ~mosq.ended
        /\ told' = [told EXCEPT !.calls = x,
                        !.published[x] = IF qos = 0 /\ mosq.sock THEN @ + 1 ELSE @]
        /\ mosq' = IF qos = 0 THEN Send(counted, PublishPacket(node))
                   ELSE IF WindowOpen(queued)
                   THEN Send([queued EXCEPT !.heap[p].state = Waiting(qos)],
                             PublishPacket(node))
                   ELSE queued
        /\ UNCHANGED <<scenario, toClient, broker, budget>>

\* The next packet from the broker.
Receive(cmd) ==
    /\ mosq.sock /\ toClient # <<>> /\ Head(toClient).cmd = cmd
    /\ toClient' = Tail(toClient)
    /\ UNCHANGED <<scenario, broker, budget>>

\* PUBACK and PUBCOMP: on_publish is called for a message that was found.
handle_pubackcomp(cmd) ==
    LET mid == Head(toClient).mid
        found == Find(mosq, mid, "out")
    IN  /\ Receive(cmd)
        /\ mosq' = IF found = <<>> THEN mosq ELSE message_remove(mosq, mid, "out")
        /\ told' = IF found = <<>> THEN told
                   ELSE [told EXCEPT !.published[mosq.heap[Head(found)].msg] = @ + 1]

\* Mutant: the message is forgotten when the broker has it.
handle_pubrecForgets ==
    LET mid == Head(toClient).mid
        found == Find(mosq, mid, "out")
    IN  /\ Receive("PUBREC")
        /\ mosq' = IF found = <<>>
                   THEN [mosq EXCEPT !.sock = FALSE, !.ended = TRUE, !.wire = <<>>]
                   ELSE Send(message_remove(mosq, mid, "out"), Command("PUBREL", mid))
        /\ UNCHANGED told

\* An id that is not known closes the connection and ends the loop.
handle_pubrec ==
    LET mid == Head(toClient).mid
        found == Find(mosq, mid, "out")
    IN  /\ Receive("PUBREC")
        /\ mosq' = IF found = <<>>
                   THEN [mosq EXCEPT !.sock = FALSE, !.ended = TRUE, !.wire = <<>>]
                   ELSE Send([mosq EXCEPT !.heap[Head(found)].state = "wait_for_pubcomp",
                                          !.heap[Head(found)].due = FALSE],
                             Command("PUBREL", mid))
        /\ UNCHANGED told

\* Mutant: the message is passed on whether or not it was in the list.
handle_pubrelAgain ==
    LET mid == Head(toClient).mid
        found == Find(mosq, mid, "in")
    IN  /\ Receive("PUBREL")
        /\ mosq' = Send(IF found = <<>> THEN mosq ELSE message_remove(mosq, mid, "in"),
                        Command("PUBCOMP", mid))
        /\ told' = [told EXCEPT !.received[mid] = @ + 1]

\* A message of its own that got into the list is passed on like any other.
handle_pubrel ==
    LET mid == Head(toClient).mid
        found == Find(mosq, mid, "in")
        node == mosq.heap[Head(found)]
    IN  /\ Receive("PUBREL")
        /\ mosq' = Send(IF found = <<>> THEN mosq ELSE message_remove(mosq, mid, "in"),
                        Command("PUBCOMP", mid))
        /\ told' = IF found = <<>> THEN told
                   ELSE IF node.state = "wait_for_pubrel"
                   THEN [told EXCEPT !.received[node.msg] = @ + 1]
                   ELSE [told EXCEPT !.echoed = @ + 1]

(***************************************************************************)
(* _mosquitto_handle_publish: QoS 0 and 1 go to on_message, QoS 2 waits    *)
(* for PUBREL in the list, which is not searched for the id first.         *)
(***************************************************************************)
handle_publish ==
    LET packet == Head(toClient)
        node == [mid |-> packet.mid, qos |-> packet.qos, msg |-> packet.msg,
                 due |-> FALSE, next |-> NULL, state |-> "wait_for_pubrel"]
    IN  /\ Receive("PUBLISH")
        /\ mosq' = CASE packet.qos = 0 -> mosq
                     [] packet.qos = 1 -> Send(mosq, Command("PUBACK", packet.mid))
                     [] packet.qos = 2 ->
                          message_queue(Send(mosq, Command("PUBREC", packet.mid)),
                                        node, "in")
        /\ told' = [told EXCEPT !.arrived[packet.msg] = @ + 1,
                                !.received[packet.msg] =
                                    IF packet.qos = 2 THEN @ ELSE @ + 1]

Due(m) == \E p \in DOMAIN m.heap : Late(m.heap[p])

\* mosquitto_loop_misc: once a second what is due is sent again.
RetryCheck ==
    /\ mosq.sock /\ Due(mosq)
    /\ mosq' = message_retry_check(mosq)
    /\ UNCHANGED <<scenario, toClient, broker, told, budget>>

\* message_retry seconds pass without an answer.
RetryTimeout ==
    /\ budget.timeouts < scenario.timeouts
    /\ mosq.sock /\ DOMAIN mosq.heap # {}
    /\ budget' = [budget EXCEPT !.timeouts = @ + 1]
    /\ mosq' = [mosq EXCEPT !.heap = [p \in DOMAIN @ |-> [@[p] EXCEPT !.due = TRUE]]]
    /\ UNCHANGED <<scenario, toClient, broker, told>>

\* The connection breaks; the loop closes the socket.
ConnectionLost ==
    /\ mosq.sock /\ budget.losses < scenario.losses
    /\ budget' = [budget EXCEPT !.losses = @ + 1]
    /\ mosq' = [mosq EXCEPT !.sock = FALSE, !.wire = <<>>]
    /\ toClient' = <<>>
    /\ UNCHANGED <<scenario, broker, told>>

(***************************************************************************)
(* Called by mosquitto_loop_forever: packets are dropped, lists reset.     *)
(* crossed records that there was an incoming message and no outgoing one. *)
(***************************************************************************)
mosquitto_reconnect ==
    /\ ~mosq.sock /\ ~mosq.ended
    /\ LET reset == messages_reconnect_reset(mosq)
       IN  mosq' = Send([reset EXCEPT !.sock = ~reset.ended], Command("CONNECT", 0))
    /\ told' = [told EXCEPT !.crossed =
                    @ \/ (mosq.in.first # NULL /\ mosq.out.first = NULL)]
    /\ UNCHANGED <<scenario, toClient, broker, budget>>

----------------------------------------------------------------------------
(***************************************************************************)
(* The broker (external).  The id of a message it sends is the message.    *)
(***************************************************************************)
Sent(x) == [cmd |-> "PUBLISH", mid |-> x, qos |-> scenario.in[x], msg |-> x]

\* What is sent again for a message whose handshake is under way.
Again(x) ==
    CASE broker.state[x] = "sent"     -> <<Sent(x)>>
      [] broker.state[x] = "released" -> <<Command("PUBREL", x)>>
      [] OTHER -> <<>>

Answer(packets) == toClient' = toClient \o packets

BrokerConnect ==
    /\ Answer(FlattenSeq([x \in InMsgs |-> Again(x)]))
    /\ UNCHANGED broker

BrokerPublish(packet) ==
    LET forward == [broker EXCEPT !.forwarded[packet.msg] = @ + 1]
    IN  CASE packet.qos = 0 -> broker' = forward /\ Answer(<<>>)
          [] packet.qos = 1 -> broker' = forward /\ Answer(<<Command("PUBACK", packet.mid)>>)
          [] packet.qos = 2 ->
                /\ broker' = IF packet.mid \in DOMAIN broker.held THEN broker
                             ELSE [broker EXCEPT !.held = With(@, packet.mid, packet.msg)]
                /\ Answer(<<Command("PUBREC", packet.mid)>>)

BrokerPubrel(packet) ==
    /\ broker' = IF packet.mid \notin DOMAIN broker.held THEN broker
                 ELSE [broker EXCEPT !.forwarded[broker.held[packet.mid]] = @ + 1,
                                     !.held = Without(@, packet.mid)]
    /\ Answer(<<Command("PUBCOMP", packet.mid)>>)

BrokerRead ==
    LET packet == Head(mosq.wire)
    IN  /\ mosq.wire # <<>>
        /\ mosq' = [mosq EXCEPT !.wire = Tail(@)]
        /\ CASE packet.cmd = "CONNECT" -> BrokerConnect
             [] packet.cmd = "PUBLISH" -> BrokerPublish(packet)
             [] packet.cmd = "PUBREL"  -> BrokerPubrel(packet)
             [] packet.cmd = "PUBREC"  ->
                  /\ broker' = IF broker.state[packet.mid] = "sent"
                               THEN [broker EXCEPT !.state[packet.mid] = "released"]
                               ELSE broker
                  /\ Answer(IF broker.state[packet.mid] \in {"sent", "released"}
                            THEN <<Command("PUBREL", packet.mid)>> ELSE <<>>)
             [] packet.cmd \in {"PUBACK", "PUBCOMP"} ->
                  /\ broker' = [broker EXCEPT !.state[packet.mid] = "done"]
                  /\ Answer(<<>>)
        /\ UNCHANGED <<scenario, told, budget>>

\* The broker has read the CONNECT of the connection.
Connected == mosq.sock /\ \A i \in DOMAIN mosq.wire : mosq.wire[i].cmd # "CONNECT"

BrokerSend ==
    LET x == broker.next
    IN  /\ x <= Len(scenario.in) /\ Connected
        /\ broker' = [broker EXCEPT !.next = x + 1,
                          !.state[x] = IF scenario.in[x] = 0 THEN "done" ELSE "sent"]
        /\ Answer(<<Sent(x)>>)
        /\ UNCHANGED <<scenario, mosq, told, budget>>

\* The broker's own retry timer.
BrokerRepeat(x) ==
    /\ budget.repeats < scenario.repeats
    /\ Connected /\ Again(x) # <<>>
    /\ budget' = [budget EXCEPT !.repeats = @ + 1]
    /\ Answer(Again(x))
    /\ UNCHANGED <<scenario, mosq, broker, told>>

----------------------------------------------------------------------------
Handle ==
    \/ handle_pubackcomp("PUBACK") \/ handle_pubackcomp("PUBCOMP")
    \/ handle_pubrec \/ handle_pubrel \/ handle_publish

Over ==
    /\ \/ mosq.ended
       \/ /\ told.calls = Len(scenario.out) /\ broker.next > Len(scenario.in)
          /\ mosq.wire = <<>> /\ toClient = <<>> /\ mosq.sock
    /\ UNCHANGED vars

Next ==
    \/ mosquitto_publish \/ Handle \/ RetryCheck \/ RetryTimeout
    \/ ConnectionLost \/ mosquitto_reconnect
    \/ BrokerRead \/ BrokerSend \/ (\E x \in InMsgs : BrokerRepeat(x))
    \/ Over

(***************************************************************************)
(* mosquitto_loop_forever handles what arrives, retries and reconnects as  *)
(* long as it runs; the broker reads and answers.  The application need    *)
(* not publish, connections need not break, timers need not run out.       *)
(***************************************************************************)
Spec ==
    /\ Init /\ [][Next]_vars
    /\ WF_vars(Handle) /\ WF_vars(RetryCheck) /\ WF_vars(mosquitto_reconnect)
    /\ WF_vars(BrokerRead)

----------------------------------------------------------------------------
ListSound(l) ==
    LET chain == Chain(mosq.heap, l.first)
    IN  /\ l.len = Len(chain)
        /\ l.last = (IF chain = <<>> THEN NULL ELSE Last(chain))

(***************************************************************************)
(* The hand-made lists stay lists: the last pointer is the end of the      *)
(* chain, the length is right, and no message is in both or in neither.    *)
(* _mosquitto_message_queue appends behind the last pointer.  This holds   *)
(* through losses with messages under way in both directions, until a      *)
(* reconnection finds an incoming message and no outgoing one.             *)
(***************************************************************************)
ListsSound ==
    ~told.crossed =>
        /\ ListSound(mosq.out) /\ ListSound(mosq.in)
        /\ mosq.out.len + mosq.in.len = Cardinality(DOMAIN mosq.heap)

(***************************************************************************)
(* on_publish means the broker has the message, and is called once; a      *)
(* QoS 2 message reaches the broker's subscribers once.                    *)
(***************************************************************************)
PublishedOnce ==
    \A x \in OutMsgs :
        /\ told.published[x] <= 1
        /\ scenario.out[x] > 0 => told.published[x] <= broker.forwarded[x]
        /\ scenario.out[x] = 2 => broker.forwarded[x] <= 1

(***************************************************************************)
(* on_message is called for a QoS 2 message at most as often as its        *)
(* PUBLISH arrived, however often PUBREL does, over whatever connections   *)
(* and in whatever state the lists are.                                    *)
(***************************************************************************)
ReceivedOnce ==
    \A x \in InMsgs : scenario.in[x] = 2 => told.received[x] <= told.arrived[x]

(***************************************************************************)
(* "this prevents multiple callbacks for the same message"                 *)
(* (lib/read_handle_shared.c:145-146): on_message is called at most once   *)
(* for a QoS 2 message.                                                    *)
(***************************************************************************)
NoMultipleCallbacks ==
    \A x \in InMsgs : scenario.in[x] = 2 => told.received[x] <= 1

\* The outgoing messages part way through their delivery.
InFlight == {p \in DOMAIN mosq.heap : mosq.heap[p].state \in
                {"wait_for_puback", "wait_for_pubrec", "wait_for_pubcomp"}}

(***************************************************************************)
(* A broker that follows the protocol, and connections that break, do not  *)
(* end the client's loop: a PUBREC finds its message.  The lists have to   *)
(* be sound for it (see ListsSound).                                       *)
(***************************************************************************)
LoopGoesOn == ~told.crossed => ~mosq.ended

(***************************************************************************)
(* mosquitto_loop_forever "handles reconnecting in case server connection  *)
(* is lost" (lib/mosquitto.h:730): it goes on unless someone disconnects.  *)
(***************************************************************************)
LoopsForever == ~mosq.ended

(***************************************************************************)
(* A message waits for the window only while the window is in use:         *)
(* otherwise no acknowledgement will ever come and move it on.             *)
(***************************************************************************)
WindowMoves ==
    (\E p \in DOMAIN mosq.heap : mosq.heap[p].state = "invalid") => InFlight # {}

(***************************************************************************)
(* Without a limit on messages in flight, each message that was published  *)
(* is confirmed in the end, and each one the broker sent is received,      *)
(* although connections break with messages under way in both directions;  *)
(* the exception is that of ListsSound, after which messages are lost.     *)
(***************************************************************************)
EverythingArrives ==
    scenario.max_inflight = 0 =>
        /\ \A x \in 1..3 : (x \in OutMsgs /\ scenario.out[x] > 0 /\ told.calls >= x)
              ~> (told.crossed \/ (x \in OutMsgs /\ told.published[x] = 1))
        /\ \A x \in 1..3 : (x \in InMsgs /\ scenario.in[x] > 0 /\ broker.next > x)
              ~> (told.crossed \/ (x \in InMsgs /\ told.received[x] > 0))
=============================================================================
