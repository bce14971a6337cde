---------------------------- MODULE BrokerSession ----------------------------
(***************************************************************************)
(* One client's session in the mosquitto 1.4.2 broker: the list of         *)
(* messages a context keeps (src/database.c), the packet handlers that     *)
(* work on it, the pass of the main loop that writes it out, the retry     *)
(* timer, and the takeover of the list when the client reconnects with     *)
(* clean_session = false.                                                  *)
(*                                                                         *)
(* The list is the set msgs; ord is the position at which a message was    *)
(* appended, so list order is the order of ord.  Messages of both          *)
(* directions share one list and one in-flight window.  The TCP connection *)
(* delivers in order until it breaks; the client follows the MQTT          *)
(* handshakes.  Clients of the same broker interact through                *)
(* mqtt3_db_messages_queue: here it is the source of outgoing messages     *)
(* (subs_process) and the sink of incoming ones (forwarded).               *)
(***************************************************************************)
EXTENDS Integers, Sequences, FiniteSets

CONSTANTS
    max_inflight, max_queued,   \* mqtt3_db_limits_set; 0 means no limit
    OutMsgs,        \* messages other clients publish to this one, in order
    InMsgs,         \* messages this client publishes
    OutQos, InQos,  \* QoS a message may have on its way to / from the client
    Denied,         \* incoming messages refused by ACL or for their size
    Revocable,      \* outgoing messages an ACL change may forbid
    LastMid,        \* the largest message id (65535)
    MaxPkts,        \* bound: packets under way when a retry starts
    MaxLosses       \* bound: times the network breaks the connection

ASSUME SessionAssumption ==
    /\ max_inflight \in Nat /\ max_queued \in Nat
    /\ OutMsgs \subseteq Nat /\ InMsgs \subseteq Nat
    /\ OutMsgs \cap InMsgs = {}
    /\ IsFiniteSet(OutMsgs) /\ IsFiniteSet(InMsgs)
    /\ OutQos \subseteq 0..2 /\ InQos \subseteq 1..2
    /\ Denied \subseteq InMsgs /\ Revocable \subseteq OutMsgs
    /\ LastMid \in Nat \ {0}
    /\ MaxPkts \in Nat /\ MaxLosses \in Nat

States == {"publish_qos0", "publish_qos1", "wait_for_puback", "publish_qos2",
           "wait_for_pubrec", "resend_pubrel", "wait_for_pubcomp",
           "send_pubrec", "wait_for_pubrel", "queued"}

VARIABLES
    msgs,           \* context->msgs
    msg_count12,    \* context->msg_count12
    last_mid,       \* context->last_mid
    sock,           \* the broker holds a socket for this client
    ord,            \* next list position
    dangling,       \* context->last_msg points to a freed message
    link,           \* the TCP connection carries packets
    toBroker, toClient,     \* packets under way
    pending,        \* outgoing messages not published yet
    forwarded,      \* incoming message -> times handed to its subscribers
    pub,            \* client: incoming message -> its handshake
    rec2,           \* client: ids of QoS 2 messages not released yet
    got,            \* client: outgoing messages received, first receipts
    dups,           \* client: QoS 2 messages received more than once
    losses          \* times the network broke the connection

list == <<msgs, msg_count12, ord, dangling>>
client == <<pub, rec2, got, dups>>
wire == <<toBroker, toClient>>
vars == <<list, last_mid, sock, link, wire, pending, forwarded, client,
          losses>>

\* The client numbers its messages from 1, in the order it publishes them.
InMid(m) == Cardinality({k \in InMsgs : k <= m})
Mids == 0..LastMid \cup {InMid(m) : m \in InMsgs}

Message == [msg : OutMsgs \cup InMsgs, mid : Mids,
            dir : {"out", "in"}, qos : 0..2, state : States, ord : Nat]

Packet == [type : {"PUBLISH"}, mid : Mids, qos : 0..2,
           msg : OutMsgs \cup InMsgs]
          \cup [type : {"PUBACK", "PUBREC", "PUBREL", "PUBCOMP"},
                mid : Mids]

Handshake == [st : {"new", "sent", "released", "done"}, qos : InQos \cup {0}]

TypeOK ==
    /\ msgs \subseteq Message
    /\ msg_count12 \in Int
    /\ last_mid \in 0..LastMid
    /\ sock \in BOOLEAN /\ link \in BOOLEAN
    /\ ord \in Nat /\ dangling \in BOOLEAN
    /\ toBroker \in Seq(Packet) /\ toClient \in Seq(Packet)
    /\ pending \subseteq OutMsgs
    /\ forwarded \in [InMsgs -> 0..2]
    /\ pub \in [InMsgs -> Handshake]
    /\ rec2 \subseteq Mids
    /\ got \in Seq(OutMsgs \cup InMsgs)
    /\ dups \subseteq OutMsgs \cup InMsgs
    /\ losses \in 0..MaxLosses

Init ==
    /\ msgs = {} /\ msg_count12 = 0 /\ last_mid = 0
    /\ ord = 0 /\ dangling = FALSE
    /\ sock = TRUE /\ link = TRUE
    /\ toBroker = <<>> /\ toClient = <<>>
    /\ pending = OutMsgs
    /\ forwarded = [m \in InMsgs |-> 0]
    /\ pub = [m \in InMsgs |-> [st |-> "new", qos |-> 0]]
    /\ rec2 = {} /\ got = <<>> /\ dups = {}
    /\ losses = 0
-----------------------------------------------------------------------------
(* The list. *)

InOrder(S) ==
    [i \in 1..Cardinality(S) |->
        CHOOSE m \in S : Cardinality({k \in S : k.ord <= m.ord}) = i]

Before(S, m) == {k \in S : k.ord < m.ord}

\* Place of m in the list, counted from 1.
Position(m) == Cardinality(Before(msgs, m)) + 1

\* Mutant: an id is looked up without regard to the direction.
MatchingAnyDir(mid, dir) == {m \in msgs : m.mid = mid}

Matching(mid, dir) == {m \in msgs : m.mid = mid /\ m.dir = dir}

IsFirst(S, m) == Before(S, m) = {}

IsTail(m) == \A k \in msgs : k.ord <= m.ord

CountsQos12(S) == Cardinality({m \in S : m.qos > 0})

\* The state in which an outgoing message of this QoS waits to be written.
PublishState(qos) == <<"publish_qos0", "publish_qos1", "publish_qos2">>[qos + 1]

\* A queued message enters the in-flight window.
Promoted(m) ==
    [m EXCEPT !.state = IF m.dir = "out" THEN PublishState(m.qos)
                                         ELSE "wait_for_pubrel"]

\* _message_remove of every message in S; rest is what the pass makes of the
\* others.  last_msg is set again when the tail goes.
Remove(S, rest) ==
    /\ msgs' = rest
    /\ msg_count12' = msg_count12 - CountsQos12(S)
    /\ dangling' = (dangling /\ ~(\E m \in S : IsTail(m)))
    /\ UNCHANGED ord

\* Mutant: nothing is promoted.
mqtt3_db_message_deleteNoPromotion(mid, dir) ==
    Remove(Matching(mid, dir), msgs \ Matching(mid, dir))

\* One pass that removes the matching messages, promotes what moves into the
\* window, and stops at its end once something was removed.
mqtt3_db_message_delete(mid, dir) ==
    LET match == Matching(mid, dir)
        removed == {m \in match :
                       \/ IsFirst(match, m)
                       \/ Cardinality(Before(msgs \ match, m)) <= max_inflight}
        index(m) == Cardinality(Before(msgs \ removed, m)) + 1
        kept(m) == IF m.state = "queued" /\ index(m) <= max_inflight
                     THEN Promoted(m) ELSE m
    IN  Remove(removed, {kept(m) : m \in msgs \ removed})

\* Mutant: the in-flight window is one too wide.
InsertStateOffByOne(dir, qos) ==
    IF ~sock THEN (IF msg_count12 >= max_queued THEN "dropped" ELSE "queued")
    ELSE IF msg_count12 <= max_inflight
           THEN IF dir = "out" THEN PublishState(qos) ELSE "wait_for_pubrel"
           ELSE IF msg_count12 - max_inflight < max_queued
                  THEN "queued" ELSE "dropped"

\* mqtt3_db_message_insert: the state a new message starts in, or "dropped".
InsertState(dir, qos) ==
    IF sock
      THEN IF qos = 0 \/ max_inflight = 0 \/ msg_count12 < max_inflight
             THEN IF dir = "out" THEN PublishState(qos) ELSE "wait_for_pubrel"
             ELSE IF max_queued = 0 \/ msg_count12 - max_inflight < max_queued
                    THEN "queued" ELSE "dropped"
      ELSE IF qos = 0 \/ (max_queued > 0 /\ msg_count12 >= max_queued)
             THEN "dropped" ELSE "queued"

\* Appended after a dangling last_msg the message is counted but not reachable
\* from the list.
mqtt3_db_message_insert(msg, mid, dir, qos) ==
    LET st == InsertState(dir, qos)
    IN  IF st = "dropped"
          THEN UNCHANGED list
          ELSE /\ msgs' = IF dangling THEN msgs ELSE msgs \cup
                            {[msg |-> msg, mid |-> mid, dir |-> dir,
                              qos |-> qos, state |-> st, ord |-> ord]}
               /\ msg_count12' = msg_count12 + (IF qos > 0 THEN 1 ELSE 0)
               /\ ord' = ord + 1
               /\ UNCHANGED dangling

\* mqtt3_db_message_update: only the first match changes.
mqtt3_db_message_update(mid, dir, st) ==
    /\ msgs' = {IF m.mid = mid /\ m.dir = dir /\ IsFirst(Matching(mid, dir), m)
                  THEN [m EXCEPT !.state = st] ELSE m : m \in msgs}
    /\ UNCHANGED <<msg_count12, ord, dangling>>

\* mqtt3_db_message_reconnect_reset, first loop: back to the start of the
\* handshake, except that a received PUBREC is not forgotten.
Restarted(m) ==
    IF m.dir = "in" \/ m.state = "queued" THEN m
    ELSE IF m.state = "wait_for_pubcomp" /\ m.qos = 2
           THEN [m EXCEPT !.state = "resend_pubrel"]
           ELSE [m EXCEPT !.state = PublishState(m.qos)]

\* Mutant: the messages beyond the window are published, not those within it.
mqtt3_db_message_reconnect_resetBeyond(m) ==
    IF m.state = "queued" /\ Position(m) > max_inflight
      THEN [m EXCEPT !.state = PublishState(m.qos)]
      ELSE Restarted(m)

\* Second loop: what is queued in the window is published, whatever its
\* direction.
mqtt3_db_message_reconnect_reset(m) ==
    IF m.state = "queued" /\ (max_inflight = 0 \/ Position(m) <= max_inflight)
      THEN [m EXCEPT !.state = PublishState(m.qos)]
      ELSE Restarted(m)

\* The counter is counted again over the list the new context has taken.
Recounted == CountsQos12(msgs)

\* Mutant: a received PUBREC is forgotten by the retry.
RetryFromPublish ==
    [wait_for_puback |-> "publish_qos1", wait_for_pubrec |-> "publish_qos2",
     wait_for_pubrel |-> "send_pubrec", wait_for_pubcomp |-> "publish_qos2"]

\* Mutant: incoming messages are not retried.
RetryOutgoingOnly ==
    [wait_for_puback |-> "publish_qos1", wait_for_pubrec |-> "publish_qos2",
     wait_for_pubcomp |-> "resend_pubrel"]

\* mqtt3_db_message_timeout_check: what a state falls back to.
Retry == [wait_for_puback |-> "publish_qos1", wait_for_pubrec |-> "publish_qos2",
          wait_for_pubrel |-> "send_pubrec", wait_for_pubcomp |-> "resend_pubrel"]
-----------------------------------------------------------------------------
(* Sending and receiving. *)

Publish(m) == [type |-> "PUBLISH", mid |-> m.mid, qos |-> m.qos, msg |-> m.msg]
ClientPublish(m, q) ==
    [type |-> "PUBLISH", mid |-> InMid(m), qos |-> q, msg |-> m]
Ack(t, mid) == [type |-> t, mid |-> mid]

\* A packet the broker writes to a broken connection is lost.
Send(pkts) == toClient' = IF link THEN toClient \o pkts ELSE toClient

\* A packet the client writes to a socket the broker has closed is lost.
ClientSend(pkts) == toBroker' = IF sock THEN toBroker \o pkts ELSE toBroker

Reading(type) == sock /\ toBroker # <<>> /\ Head(toBroker).type = type
Packet1 == Head(toBroker)
Consume == toBroker' = Tail(toBroker)

ClientReading(type) ==
    /\ link /\ toClient # <<>> /\ Head(toClient).type = type
    /\ toClient' = Tail(toClient)

\* mqtt3_db_messages_queue to the subscribers; 2 stands for "more than once".
Forward(S) ==
    forwarded' = [m \in InMsgs |->
                     IF m \in S \ Denied /\ forwarded[m] < 2
                       THEN forwarded[m] + 1 ELSE forwarded[m]]

\* do_disconnect of a context with clean_session = false and no will.
CloseSocket == sock' = FALSE /\ toBroker' = <<>>
-----------------------------------------------------------------------------
(* The broker. *)

\* _mosquitto_mid_generate: 16 bits, never 0, no look at the ids in use.
mid_generate == IF last_mid = LastMid THEN 1 ELSE last_mid + 1

\* _subs_process: another client's publish matches this one's subscription.
subs_process ==
    /\ pending # {}
    /\ \E q \in OutQos, m \in pending :
          /\ \A k \in pending : m <= k
          /\ pending' = pending \ {m}
          /\ last_mid' = IF q > 0 THEN mid_generate ELSE last_mid
          /\ mqtt3_db_message_insert(m, IF q > 0 THEN mid_generate ELSE 0,
                                     "out", q)
    /\ UNCHANGED <<sock, link, wire, forwarded, client, losses>>

\* Mutant: a QoS 2 message gets its PUBREC even when it was dropped.
mqtt3_handle_publishAlwaysAcks ==
    /\ Reading("PUBLISH")
    /\ LET p == Packet1
       IN  /\ IF p.qos = 1
                THEN Forward({p.msg}) /\ UNCHANGED list
                ELSE /\ IF Matching(p.mid, "in") # {}
                          THEN UNCHANGED list
                          ELSE mqtt3_db_message_insert(p.msg, p.mid, "in", 2)
                     /\ UNCHANGED forwarded
           /\ Send(<<Ack(IF p.qos = 1 THEN "PUBACK" ELSE "PUBREC", p.mid)>>)
    /\ Consume
    /\ UNCHANGED <<last_mid, sock, link, pending, client, losses>>

\* A message queued or dropped gets no PUBREC; a denied one (process_bad_message)
\* even closes the connection.
mqtt3_handle_publish ==
    /\ Reading("PUBLISH")
    /\ LET p == Packet1
           known == Matching(p.mid, "in") # {}
           st == InsertState("in", 2)
       IN  \/ /\ p.qos = 1
              /\ Forward({p.msg})
              /\ Send(<<Ack("PUBACK", p.mid)>>)
              /\ Consume
              /\ UNCHANGED <<list, sock>>
           \/ /\ p.qos = 2 /\ known
              /\ Send(<<Ack("PUBREC", p.mid)>>)
              /\ Consume
              /\ UNCHANGED <<list, sock, forwarded>>
           \/ /\ p.qos = 2 /\ ~known
              /\ mqtt3_db_message_insert(p.msg, p.mid, "in", 2)
              /\ \/ /\ st = "wait_for_pubrel"
                    /\ Send(<<Ack("PUBREC", p.mid)>>)
                    /\ Consume
                    /\ UNCHANGED sock
                 \/ /\ st # "wait_for_pubrel" /\ p.msg \notin Denied
                    /\ Consume
                    /\ UNCHANGED <<toClient, sock>>
                 \/ /\ st # "wait_for_pubrel" /\ p.msg \in Denied
                    /\ CloseSocket
                    /\ UNCHANGED toClient
              /\ UNCHANGED forwarded
    /\ UNCHANGED <<last_mid, link, pending, client, losses>>

\* PUBACK and PUBCOMP: the message is finished whatever state it is in.
handle_pubackcomp ==
    /\ Reading("PUBACK") \/ Reading("PUBCOMP")
    /\ mqtt3_db_message_delete(Packet1.mid, "out")
    /\ Consume
    /\ UNCHANGED <<last_mid, sock, link, toClient, pending, forwarded, client,
                   losses>>

\* Mutant: PUBREC finishes a message as PUBACK does.
handle_pubrecFinishes ==
    /\ Reading("PUBREC")
    /\ mqtt3_db_message_delete(Packet1.mid, "out")
    /\ Send(<<Ack("PUBREL", Packet1.mid)>>)
    /\ Consume
    /\ UNCHANGED <<last_mid, sock, link, pending, forwarded, client, losses>>

\* An unknown id is an error, and closes the connection.
handle_pubrec ==
    /\ Reading("PUBREC")
    /\ mqtt3_db_message_update(Packet1.mid, "out", "wait_for_pubcomp")
    /\ \/ /\ Matching(Packet1.mid, "out") # {}
          /\ Send(<<Ack("PUBREL", Packet1.mid)>>)
          /\ Consume
          /\ UNCHANGED sock
       \/ /\ Matching(Packet1.mid, "out") = {}
          /\ CloseSocket
          /\ UNCHANGED toClient
    /\ UNCHANGED <<last_mid, link, pending, forwarded, client, losses>>

\* The index is not decreased for the released message.  A queued incoming
\* message that enters the window is answered at once; `after' follows.
mqtt3_db_message_release(mid, after) ==
    LET match == Matching(mid, "in")
        removed == {m \in match : \/ IsFirst(match, m)
                                  \/ Position(m) - 1 <= max_inflight}
        enters(m) == m.state = "queued" /\ Position(m) <= max_inflight
        kept(m) == IF enters(m) THEN Promoted(m) ELSE m
        pubrecs == InOrder({m \in msgs : m.dir = "in" /\ enters(m)})
    IN  /\ Remove(removed, {kept(m) : m \in msgs \ removed})
        /\ Forward({m.msg : m \in removed})
        /\ Send([i \in 1..Len(pubrecs) |-> Ack("PUBREC", pubrecs[i].mid)] \o after)

\* PUBCOMP is sent whether or not the id was known.
handle_pubrel ==
    /\ Reading("PUBREL")
    /\ mqtt3_db_message_release(Packet1.mid, <<Ack("PUBCOMP", Packet1.mid)>>)
    /\ Consume
    /\ UNCHANGED <<last_mid, sock, link, pending, client, losses>>

\* mqtt3_db_message_write: an incoming queued message whose turn has come is
\* visited, and counted, twice.
Resumes(m) ==
    LET in == {k \in Before(msgs, m) : k.dir = "in"}
        queued == {k \in in : k.state = "queued"}
    IN  /\ m.dir = "in" /\ m.state = "queued"
        /\ \/ max_inflight = 0
           \/ Cardinality(in) + Cardinality(queued) + 1 < max_inflight

ToWrite == {m \in msgs : \/ Resumes(m)
                         \/ m.state \in {"publish_qos0", "publish_qos1",
                               "publish_qos2", "send_pubrec", "resend_pubrel"}}

Written(m) ==
    [m EXCEPT !.state =
        CASE m.state = "publish_qos1" -> "wait_for_puback"
          [] m.state = "publish_qos2" -> "wait_for_pubrec"
          [] m.state = "resend_pubrel" -> "wait_for_pubcomp"
          [] OTHER -> "wait_for_pubrel"]

PacketOf(m) ==
    CASE m.state \in {"publish_qos0", "publish_qos1", "publish_qos2"} -> Publish(m)
      [] m.state = "resend_pubrel" -> Ack("PUBREL", m.mid)
      [] OTHER -> Ack("PUBREC", m.mid)

\* Writes the messages in S, the front of the list; the write of those in F
\* fails, and leaves a resumed message in send_pubrec.
WriteOut(S, F) ==
    LET out == InOrder(S)
        sent == {m \in S : m.state = "publish_qos0"}
        kept(m) == IF m \in S THEN Written(m)
                   ELSE IF m \in F /\ m.state = "queued"
                          THEN [m EXCEPT !.state = "send_pubrec"]
                          ELSE m
    IN  /\ Remove(sent, {kept(m) : m \in msgs \ sent})
        /\ Send([i \in 1..Len(out) |-> PacketOf(out[i])])

mqtt3_db_message_write ==
    /\ sock /\ ToWrite # {}
    /\ WriteOut(ToWrite, {})
    /\ UNCHANGED <<last_mid, sock, link, toBroker, pending, forwarded, client,
                   losses>>

\* The socket fails at one of the messages; the main loop disconnects.
message_write_fails ==
    /\ sock /\ ~link
    /\ \E f \in ToWrite : WriteOut(Before(ToWrite, f), {f})
    /\ CloseSocket
    /\ UNCHANGED <<last_mid, link, pending, forwarded, client, losses>>

\* retry_interval has passed for the messages in S.
mqtt3_db_message_timeout_check ==
    /\ sock /\ Len(toClient) + Len(toBroker) < MaxPkts
    /\ \E S \in SUBSET {m \in msgs : m.state \in DOMAIN Retry} :
          /\ S # {}
          /\ msgs' = {IF m \in S THEN [m EXCEPT !.state = Retry[m.state]] ELSE m :
                         m \in msgs}
    /\ UNCHANGED <<msg_count12, ord, dangling, last_mid, sock, link, wire,
                   pending, forwarded, client, losses>>

\* A read error, or no packet for one and a half keepalives.
do_disconnect ==
    /\ sock /\ ~link
    /\ CloseSocket
    /\ UNCHANGED <<list, last_mid, link, toClient, pending, forwarded, client,
                   losses>>

\* mqtt3_handle_connect with clean_session = false: the new context takes the
\* list of the old one, whose socket is closed if it is still open.  last_mid
\* starts again from 0.  Messages the ACL no longer allows are unlinked, without
\* touching msg_count12 or last_msg.  The client then resends what it has not
\* finished.
ClientResend ==
    LET unfinished == {m \in InMsgs : pub[m].st \in {"sent", "released"}}
        nth == [i \in 1..Cardinality(unfinished) |->
                   CHOOSE m \in unfinished :
                       Cardinality({k \in unfinished : k <= m}) = i]
    IN  [i \in 1..Cardinality(unfinished) |->
           LET p == pub[nth[i]]
           IN  IF p.st = "sent"
                 THEN ClientPublish(nth[i], p.qos)
                 ELSE Ack("PUBREL", InMid(nth[i]))]

mqtt3_handle_connect ==
    /\ ~link
    /\ \E denied \in SUBSET Revocable :
          LET purged == {m \in msgs : m.dir = "out" /\ m.msg \in denied}
          IN  /\ msgs' = {mqtt3_db_message_reconnect_reset(m) : m \in msgs \ purged}
              /\ dangling' = \E m \in purged : IsTail(m)
    /\ msg_count12' = Recounted
    /\ last_mid' = 0
    /\ sock' = TRUE /\ link' = TRUE
    /\ toBroker' = ClientResend /\ toClient' = <<>>
    /\ UNCHANGED <<ord, pending, forwarded, client, losses>>
-----------------------------------------------------------------------------
(* The client and the connection. *)

link_lost ==
    /\ link /\ losses < MaxLosses
    /\ losses' = losses + 1
    /\ link' = FALSE /\ toClient' = <<>>
    /\ UNCHANGED <<list, last_mid, sock, toBroker, pending, forwarded, client>>

\* The client reads the end of a connection the broker closed.
client_closed ==
    /\ link /\ ~sock /\ toClient = <<>>
    /\ link' = FALSE
    /\ UNCHANGED <<list, last_mid, sock, wire, pending, forwarded, client,
                   losses>>

client_publish ==
    /\ link
    /\ \E m \in InMsgs, q \in InQos :
          /\ pub[m].st = "new"
          /\ \A k \in InMsgs : k < m => pub[k].st # "new"
          /\ pub' = [pub EXCEPT ![m] = [st |-> "sent", qos |-> q]]
          /\ ClientSend(<<ClientPublish(m, q)>>)
    /\ UNCHANGED <<list, last_mid, sock, link, toClient, pending, forwarded,
                   rec2, got, dups, losses>>

Seen(m) == \E i \in 1..Len(got) : got[i] = m

client_on_publish ==
    /\ ClientReading("PUBLISH")
    /\ LET p == Head(toClient)
           new == p.qos < 2 \/ p.mid \notin rec2
       IN  /\ got' = IF new /\ ~Seen(p.msg) THEN Append(got, p.msg) ELSE got
           /\ dups' = IF p.qos = 2 /\ new /\ Seen(p.msg)
                        THEN dups \cup {p.msg} ELSE dups
           /\ rec2' = IF p.qos = 2 THEN rec2 \cup {p.mid} ELSE rec2
           /\ ClientSend(CASE p.qos = 0 -> <<>>
                           [] p.qos = 1 -> <<Ack("PUBACK", p.mid)>>
                           [] p.qos = 2 -> <<Ack("PUBREC", p.mid)>>)
    /\ UNCHANGED <<list, last_mid, sock, link, pending, forwarded, pub, losses>>

client_on_pubrel ==
    /\ ClientReading("PUBREL")
    /\ rec2' = rec2 \ {Head(toClient).mid}
    /\ ClientSend(<<Ack("PUBCOMP", Head(toClient).mid)>>)
    /\ UNCHANGED <<list, last_mid, sock, link, pending, forwarded, pub, got, dups,
                   losses>>

\* The unfinished handshake under this id, if any.
Unfinished(mid) ==
    {m \in InMsgs : InMid(m) = mid /\ pub[m].st \in {"sent", "released"}}

SetHandshake(S, st) ==
    pub' = [m \in InMsgs |-> IF m \in S THEN [pub[m] EXCEPT !.st = st] ELSE pub[m]]

client_on_pubrec ==
    /\ ClientReading("PUBREC")
    /\ LET S == Unfinished(Head(toClient).mid)
       IN  /\ SetHandshake(S, "released")
           /\ ClientSend(IF S = {} THEN <<>>
                         ELSE <<Ack("PUBREL", Head(toClient).mid)>>)
    /\ UNCHANGED <<list, last_mid, sock, link, pending, forwarded, rec2, got, dups,
                   losses>>

client_on_pubackcomp ==
    /\ ClientReading("PUBACK") \/ ClientReading("PUBCOMP")
    /\ SetHandshake(Unfinished(Head(toClient).mid), "done")
    /\ UNCHANGED <<list, last_mid, sock, link, toBroker, pending, forwarded, rec2,
                   got, dups, losses>>
-----------------------------------------------------------------------------
Loop ==
    \/ mqtt3_handle_publish \/ handle_pubackcomp \/ handle_pubrec
    \/ handle_pubrel \/ mqtt3_db_message_write

Receive ==
    \/ client_on_publish \/ client_on_pubrel \/ client_on_pubrec
    \/ client_on_pubackcomp

\* What happens over a connection that lasts.
Exchange ==
    \/ subs_process \/ Loop \/ mqtt3_db_message_timeout_check
    \/ client_publish \/ Receive

\* A connection ends, or the next one begins.
Break ==
    \/ message_write_fails \/ do_disconnect \/ mqtt3_handle_connect
    \/ link_lost \/ client_closed

Next == Exchange \/ Break

Spec == Init /\ [][Next]_vars

\* The session while its connection lasts.  The main loop serves every socket
\* and checks the retry interval in every pass; the client reads its socket.
\* Nothing makes anybody publish.
ConnectedSpec ==
    /\ Init /\ [][Exchange]_vars
    /\ WF_vars(Loop)
    /\ WF_vars(mqtt3_db_message_timeout_check)
    /\ WF_vars(Receive)
-----------------------------------------------------------------------------
InList(m) == \E k \in msgs : k.msg = m

\* msg_count12, on which the in-flight window and the queue limit rest, is the
\* number of QoS 1 and 2 messages in the list.
CountMatches == msg_count12 = CountsQos12(msgs)

\* max_inflight_messages and max_queued_messages bound what a session holds.
WithinLimits ==
    max_inflight > 0 /\ max_queued > 0 =>
        /\ CountsQos12(msgs) <= max_inflight + max_queued
        /\ CountsQos12({m \in msgs : m.dir = "out" /\ m.state # "queued"})
              <= max_inflight

\* QoS 1 and 2: the broker forgets an outgoing message only after the client
\* has received it.
DeliveredBeforeForgotten ==
    [][\A m \in msgs : m.dir = "out" /\ m.qos > 0
            /\ ~(\E n \in msgs' : n.ord = m.ord) => Seen(m.msg)]_vars

\* QoS 2: no message reaches the client's application twice.
NoDuplicateQos2 == dups = {}

\* A QoS 2 message the client publishes is handed to its subscribers at most
\* once, and exactly once when its handshake is over, through lost connections,
\* takeovers of the list and a full queue; a denied one never is.
ForwardedExactlyOnce ==
    \A m \in DOMAIN forwarded :
        /\ m \in Denied => forwarded[m] = 0
        /\ pub[m].qos = 2 => forwarded[m] <= 1
        /\ pub[m].st = "done" /\ m \notin Denied => forwarded[m] >= 1

\* A client's own messages are not sent back to it.
NoEcho ==
    \A i \in 1..Len(toClient) :
        toClient[i].type = "PUBLISH" => toClient[i].msg \in OutMsgs

\* The broker knows every PUBREC of a client that follows the protocol, and so
\* does not close its connection.
PubrecKnown == Reading("PUBREC") => Matching(Packet1.mid, "out") # {}

\* With max_inflight_messages 1, QoS 1 and 2 messages arrive in the order in
\* which they were published.
DeliveryInOrder ==
    max_inflight = 1 /\ 0 \notin OutQos =>
        \A i, j \in 1..Len(got) : i < j => got[i] < got[j]

\* An outgoing message in the list is received, once connections stop failing.
QueuedIsDelivered == \A m \in OutMsgs : InList(m) ~> Seen(m)

\* A handshake the client has started comes to its end, if the list has room
\* for its message: one that is dropped gets no answer.
HandshakeEnds == \A m \in InMsgs : pub[m].st = "sent" ~> pub[m].st = "done"
=============================================================================
