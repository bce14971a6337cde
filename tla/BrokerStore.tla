---------------------------- MODULE BrokerStore ----------------------------
(***************************************************************************)
(* The in-memory database of the mosquitto 1.4.2 broker, shared by all its *)
(* clients: the reference-counted message store (src/database.c), the      *)
(* contexts of connected and of durable clients (src/context.c), the       *)
(* takeover of a session at CONNECT (src/read_handle_server.c), wills,     *)
(* retained messages and routing (src/subs.c), contexts that wait to be    *)
(* freed and expired clients (src/loop.c).  Persistence composes it with   *)
(* the file it is saved to.                                                *)
(*                                                                         *)
(* A context is named by the memory it lives in (a member of Contexts), a  *)
(* stored message by its db_id.  The database is one record, and each C    *)
(* function that changes it is an operator from database to database.      *)
(* Topics are compared as a whole: wildcards are SubscriptionTree's        *)
(* subject.  The handshake of a message on its way is BrokerSession's: a   *)
(* message here is in a context's list until its handshake is over, and    *)
(* the limits on that list are taken to be large enough.                   *)
(***************************************************************************)
EXTENDS Integers, Sequences, FiniteSets, SequencesExt

CONSTANTS
    Clients,        \* client ids
    Contexts,       \* memory for contexts, a set of numbers
    Topics,
    PubQos, SubQos, \* QoS of published messages and of subscriptions
    Kinds,          \* published messages: to be retained? with a payload?
    Wills,          \* wills clients leave: to be retained?
    Denied,         \* TRUE when clients publish what the ACL denies
    autosave_interval, autosave_on_changes,
    MaxMsgs,        \* bound: messages stored over the broker's life
    MaxList,        \* bound: messages a client that subscribes may have
    NULL

ASSUME StoreAssumption ==
    /\ Contexts \subseteq Nat /\ IsFiniteSet(Contexts) /\ IsFiniteSet(Topics)
    /\ NULL \notin Clients \cup Topics \cup Nat
    /\ NULL \notin [topic : Topics, qos : {1}, retain : Wills]
    /\ PubQos \subseteq 0..2 /\ SubQos \subseteq 0..2
    /\ Kinds \subseteq [retain : BOOLEAN, payload : BOOLEAN]
    /\ Wills \subseteq BOOLEAN /\ Denied \in BOOLEAN
    /\ autosave_interval \in Nat \ {0} /\ autosave_on_changes \in BOOLEAN
    /\ MaxMsgs \in Nat /\ MaxList \in Nat

VARIABLES
    db,         \* struct mosquitto_db
    wanted,     \* client -> the subscriptions of its durable session
    owed        \* client -> messages its durable session has to receive

session == <<wanted, owed>>

mqtt3_context_init(sock) ==
    [id |-> NULL, state |-> "new", clean |-> TRUE, sock |-> sock,
     will |-> NULL, subs |-> {}, msgs |-> <<>>]

mqtt3_db_open ==
    [last |-> 0,                                \* last_db_id
     store |-> <<>>,                            \* msg_store
     ctxs |-> <<>>,                             \* every context
     leaves |-> [t \in Topics |-> <<>>],        \* subhier->subs
     retained |-> [t \in Topics |-> NULL],      \* subhier->retained
     free |-> <<>>,                             \* ll_for_free
     changes |-> 0]                             \* persistence_changes

\* contexts_by_id: the context a client id is found under.
ById(d, c) == {h \in DOMAIN d.ctxs : d.ctxs[h].id = c}
Unused(d) == Contexts \ DOMAIN d.ctxs
NextUnused(d) == CHOOSE h \in Unused(d) : \A g \in Unused(d) : h <= g

Without(f, x) == [y \in DOMAIN f \ {x} |-> f[y]]
With(f, x, v) == [y \in DOMAIN f \cup {x} |-> IF y = x THEN v ELSE f[y]]

\* persistence_changes, as far as it is looked at: when autosave is by
\* changes, and up to the interval.
Saturated(n) == IF n > autosave_interval THEN n ELSE n + 1
Changed(d) ==
    IF autosave_on_changes THEN [d EXCEPT !.changes = Saturated(@)] ELSE d

(***************************************************************************)
(* The message store.                                                      *)
(***************************************************************************)
mqtt3_db_message_store(d, topic, qos, retain, payload) ==
    [d EXCEPT !.last = @ + 1,
              !.store = With(@, d.last + 1,
                  [topic |-> topic, qos |-> qos, retain |-> retain,
                   payload |-> payload, ref |-> 0])]

Ref(d, s) == [d EXCEPT !.store[s].ref = @ + 1]

mosquitto__db_msg_store_deref(d, s) ==
    IF d.store[s].ref = 1 THEN [d EXCEPT !.store = Without(@, s)]
    ELSE [d EXCEPT !.store[s].ref = @ - 1]

(***************************************************************************)
(* mqtt3_db_message_insert: nothing for a context that has lost its id,    *)
(* and no QoS 0 message for a client that is away.  A message that has to  *)
(* wait counts as a change to be saved.                                    *)
(***************************************************************************)
\* Mutant: no message at all for a client that is away.
mqtt3_db_message_insertLive(d, h, dir, qos, retain, s) ==
    LET msg == [store |-> s, dir |-> dir, qos |-> qos, retain |-> retain]
    IN  IF d.ctxs[h].id = NULL \/ ~d.ctxs[h].sock THEN d
        ELSE [Ref(d, s) EXCEPT !.ctxs[h].msgs = Append(@, msg)]

mqtt3_db_message_insert(d, h, dir, qos, retain, s) ==
    LET ctx == d.ctxs[h]
        msg == [store |-> s, dir |-> dir, qos |-> qos, retain |-> retain]
        in  == [Ref(d, s) EXCEPT !.ctxs[h].msgs = Append(@, msg)]
    IN  IF ctx.id = NULL \/ (~ctx.sock /\ qos = 0) THEN d
        ELSE IF ctx.sock THEN in ELSE Changed(in)

MinQos(a, b) == IF a < b THEN a ELSE b

(***************************************************************************)
(* _subs_process.  A retained message replaces the one before it, an empty *)
(* one clears the topic; the leaves follow, unless the message comes from  *)
(* the file (source_id is NULL).                                           *)
(***************************************************************************)
\* Mutant: the message that is replaced keeps its reference.
SetRetainedNoDeref(d, s) ==
    LET m == d.store[s]
    IN  IF m.payload THEN [Changed(Ref(d, s)) EXCEPT !.retained[m.topic] = s]
        ELSE [Changed(d) EXCEPT !.retained[m.topic] = NULL]

SetRetained(d, s) ==
    LET m == d.store[s]
        old == d.retained[m.topic]
        cleared == IF old = NULL THEN d ELSE mosquitto__db_msg_store_deref(d, old)
    IN  IF m.payload
        THEN [Changed(Ref(cleared, s)) EXCEPT !.retained[m.topic] = s]
        ELSE [Changed(cleared) EXCEPT !.retained[m.topic] = NULL]

\* The message s, published with a QoS, to the context of a leaf.
ToLeaf(d, leaf, qos, s) ==
    mqtt3_db_message_insert(d, leaf.ctx, "out", MinQos(qos, leaf.qos), FALSE, s)

ToLeaves(d, leaves, qos, s) ==
    LET after[k \in 0..Len(leaves)] ==
            IF k = 0 THEN d ELSE ToLeaf(after[k - 1], leaves[k], qos, s)
    IN  after[Len(leaves)]

subs_process(d, s, fromClient) ==
    LET m == d.store[s]
        held == IF m.retain THEN SetRetained(d, s) ELSE d
    IN  IF fromClient THEN ToLeaves(held, d.leaves[m.topic], m.qos, s) ELSE held

mqtt3_db_messages_queue(d, s, fromClient) ==
    mosquitto__db_msg_store_deref(subs_process(Ref(d, s), s, fromClient), s)

mqtt3_db_messages_easy_queue(d, will) ==
    mqtt3_db_messages_queue(
        mqtt3_db_message_store(d, will.topic, will.qos, will.retain, TRUE),
        d.last + 1, TRUE)

(***************************************************************************)
(* Subscriptions: the leaf in the tree and the client's own list.  A       *)
(* second subscription to a topic only changes the QoS of the leaf.  The   *)
(* retained message is sent each time (MQTT 3.1.1), marked as retained.    *)
(***************************************************************************)
mqtt3_sub_add(d, h, t, qos) ==
    LET mine(leaf) == d.ctxs[leaf.ctx].id = d.ctxs[h].id
        leaves == d.leaves[t]
    IN  IF \E i \in DOMAIN leaves : mine(leaves[i])
        THEN [d EXCEPT !.leaves[t] =
                 [i \in DOMAIN @ |->
                     IF mine(@[i]) THEN [@[i] EXCEPT !.qos = qos] ELSE @[i]]]
        ELSE [d EXCEPT !.leaves[t] = Append(@, [ctx |-> h, qos |-> qos]),
                       !.ctxs[h].subs = @ \cup {t}]

mqtt3_retain_queue(d, h, t, qos) ==
    LET s == d.retained[t]
    IN  IF s = NULL THEN d
        ELSE mqtt3_db_message_insert(d, h, "out",
                 MinQos(d.store[s].qos, qos), TRUE, s)

\* Where a context has its leaf among those of a topic.
LeafAt(leaves, h) == {i \in DOMAIN leaves : leaves[i].ctx = h}

DropLeaf(leaves, h) ==
    IF LeafAt(leaves, h) = {} THEN leaves
    ELSE RemoveAt(leaves, CHOOSE i \in LeafAt(leaves, h) :
                              \A j \in LeafAt(leaves, h) : i <= j)

DropLeaves(d, h, ts) ==
    [d EXCEPT !.leaves = [t \in Topics |->
                  IF t \in ts THEN DropLeaf(d.leaves[t], h) ELSE d.leaves[t]],
              !.ctxs[h].subs = @ \ ts]

mqtt3_subs_clean_session(d, h) == DropLeaves(d, h, d.ctxs[h].subs)

(***************************************************************************)
(* mqtt3_context_cleanup with do_free: leaves, messages and the context.   *)
(***************************************************************************)
\* The message at position i of the list of context h is done with.
Finished(d, h, i) ==
    mosquitto__db_msg_store_deref(
        [d EXCEPT !.ctxs[h].msgs = RemoveAt(@, i)], d.ctxs[h].msgs[i].store)

mqtt3_db_messages_delete(d, h) ==
    LET after[k \in 0..Len(d.ctxs[h].msgs)] ==
            IF k = 0 THEN d ELSE Finished(after[k - 1], h, 1)
    IN  after[Len(d.ctxs[h].msgs)]

mqtt3_context_cleanup(d, h) ==
    LET empty == mqtt3_db_messages_delete(mqtt3_subs_clean_session(d, h), h)
    IN  [empty EXCEPT !.ctxs = Without(@, h)]

\* The first of the contexts that wait to be freed.
FreeFirst(d) == [mqtt3_context_cleanup(d, Head(d.free)) EXCEPT !.free = Tail(@)]

mosquitto__free_disused_contexts(d) ==
    LET after[k \in 0..Len(d.free)] ==
            IF k = 0 THEN d ELSE FreeFirst(after[k - 1])
    IN  after[Len(d.free)]

(***************************************************************************)
(* do_disconnect: the will unless the client took its leave, the socket,   *)
(* and a clean session loses its id and waits to be freed at the start of  *)
(* the next pass of the main loop.  Only then do its leaves and messages   *)
(* go.                                                                     *)
(***************************************************************************)
do_disconnect(d, h) ==
    LET ctx == d.ctxs[h]
        told == IF ctx.state # "disconnecting" /\ ctx.will # NULL
                THEN mqtt3_db_messages_easy_queue(d, ctx.will) ELSE d
        closed == [told EXCEPT !.ctxs[h].will = NULL, !.ctxs[h].sock = FALSE,
                               !.ctxs[h].state = "disconnected"]
    IN  IF ctx.state = "disconnected" THEN d
        ELSE IF ctx.clean
        THEN [closed EXCEPT !.free = <<h>> \o @, !.ctxs[h].id = NULL]
        ELSE closed

\* The session of a client whose context is set to end it for good.
End(d, h, state) ==
    do_disconnect([d EXCEPT !.ctxs[h].clean = TRUE, !.ctxs[h].state = state], h)

(***************************************************************************)
(* The takeover in mqtt3_handle_connect: two durable contexts hand over    *)
(* messages and subscriptions, then the old one ends in any case.          *)
(***************************************************************************)
\* Mutant: the leaves keep pointing at the old context.
HandOverMessages(d, old, h) ==
    [d EXCEPT !.ctxs[h].msgs = d.ctxs[old].msgs, !.ctxs[old].msgs = <<>>,
              !.ctxs[h].subs = d.ctxs[old].subs, !.ctxs[old].subs = {}]

HandOver(d, old, h) ==
    [d EXCEPT !.ctxs[h].msgs = d.ctxs[old].msgs, !.ctxs[old].msgs = <<>>,
              !.ctxs[h].subs = d.ctxs[old].subs, !.ctxs[old].subs = {},
              !.leaves = [t \in Topics |->
                  [i \in DOMAIN d.leaves[t] |->
                      IF d.leaves[t][i].ctx = old
                      THEN [d.leaves[t][i] EXCEPT !.ctx = h]
                      ELSE d.leaves[t][i]]]]

Takeover(d, h, c, clean) ==
    IF ById(d, c) = {} THEN d
    ELSE LET old == CHOOSE g \in ById(d, c) : TRUE
             moved == IF ~clean /\ ~d.ctxs[old].clean THEN HandOver(d, old, h)
                      ELSE d
         IN  End(moved, old, "disconnecting")

Connected(d, h, c, clean, will) ==
    LET t == Takeover(d, h, c, clean)
        n == [t EXCEPT !.ctxs[h].id = c, !.ctxs[h].clean = clean,
                       !.ctxs[h].will = will, !.ctxs[h].state = "connected"]
    IN  IF clean THEN n ELSE Changed(n)

Init ==
    /\ db = mqtt3_db_open
    /\ wanted = [c \in Clients |-> [t \in Topics |-> NULL]]
    /\ owed = [c \in Clients |-> {}]

----------------------------------------------------------------------------
WillMessages ==
    [topic : Topics, qos : {1}, retain : Wills]

\* A connection is accepted and its CONNECT handled; until then its context
\* has nothing the database knows of.  A durable session starts, goes on, or
\* ends because the client wants a clean one.
mqtt3_handle_connect(c, clean, will) ==
    /\ Unused(db) # {}
    /\ LET h == NextUnused(db)
       IN  db' = Connected([db EXCEPT !.ctxs = With(@, h, mqtt3_context_init(TRUE))],
                           h, c, clean, will)
    /\ IF clean
       THEN /\ wanted' = [wanted EXCEPT ![c] = [t \in Topics |-> NULL]]
            /\ owed' = [owed EXCEPT ![c] = {}]
       ELSE UNCHANGED session

Live(h) == db.ctxs[h].state = "connected" /\ db.ctxs[h].sock

\* What a message that is being routed adds to the sessions.
Owing(s, t, qos) ==
    owed' = [c \in Clients |->
        IF wanted[c][t] # NULL /\ qos > 0 /\ wanted[c][t] > 0
        THEN owed[c] \cup {s} ELSE owed[c]]

mqtt3_handle_disconnect(h) ==
    /\ Live(h)
    /\ db' = do_disconnect([db EXCEPT !.ctxs[h].state = "disconnecting"], h)
    /\ UNCHANGED session

\* The socket fails, the peer closes it or keeps silent too long, or sends
\* what the broker does not accept.
socket_error(h) ==
    LET will == db.ctxs[h].will
    IN  /\ db.ctxs[h].sock
        /\ will # NULL => db.last < MaxMsgs
        /\ db' = do_disconnect(db, h)
        /\ IF will # NULL THEN Owing(db.last + 1, will.topic, will.qos)
           ELSE UNCHANGED owed
        /\ UNCHANGED wanted

(***************************************************************************)
(* mqtt3_handle_publish.  QoS 2 messages are kept in the sender's own list *)
(* until PUBREL.  A denied one is kept too, without a topic, so that the   *)
(* handshake can go on; denied messages of lower QoS leave no trace.       *)
(***************************************************************************)
Accepted(d, h, t, qos, retain, payload) ==
    LET stored == mqtt3_db_message_store(d, t, qos, retain, payload)
    IN  IF qos = 2
        THEN mqtt3_db_message_insert(stored, h, "in", qos, retain, d.last + 1)
        ELSE mqtt3_db_messages_queue(stored, d.last + 1, TRUE)

mqtt3_handle_publish(h, t, qos, retain, payload) ==
    /\ Live(h) /\ db.last < MaxMsgs
    /\ db' = Accepted(db, h, t, qos, retain, payload)
    /\ IF qos = 1 THEN Owing(db.last + 1, t, qos) ELSE UNCHANGED owed
    /\ UNCHANGED wanted

PublishDenied(h) ==
    /\ Denied
    /\ Live(h) /\ db.last < MaxMsgs
    /\ db' = Accepted(db, h, NULL, 2, FALSE, FALSE)
    /\ UNCHANGED session

\* mqtt3_db_message_release: routed, then removed; a message without a
\* topic (a denied one) is only removed.
handle_pubrel(h, i) ==
    LET msg == db.ctxs[h].msgs[i]
        m == db.store[msg.store]
    IN  /\ Live(h) /\ msg.dir = "in"
        /\ IF m.topic = NULL
           THEN db' = Finished(db, h, i) /\ UNCHANGED owed
           ELSE /\ db' = Finished(mqtt3_db_messages_queue(db, msg.store, TRUE), h, i)
                /\ Owing(msg.store, m.topic, m.qos)
        /\ UNCHANGED wanted

\* A message was written (QoS 0) or its handshake with the client is over.
Delivered(h, i) ==
    LET msg == db.ctxs[h].msgs[i]
    IN  /\ Live(h) /\ msg.dir = "out"
        /\ db' = Finished(db, h, i)
        /\ owed' = [owed EXCEPT ![db.ctxs[h].id] = @ \ {msg.store}]
        /\ UNCHANGED wanted

mqtt3_handle_subscribe(h, t, qos) ==
    /\ Live(h) /\ Len(db.ctxs[h].msgs) < MaxList
    /\ db' = Changed(mqtt3_retain_queue(mqtt3_sub_add(db, h, t, qos), h, t, qos))
    /\ wanted' = IF db.ctxs[h].clean THEN wanted
                 ELSE [wanted EXCEPT ![db.ctxs[h].id][t] = qos]
    /\ UNCHANGED owed

mqtt3_handle_unsubscribe(h, t) ==
    /\ Live(h)
    /\ db' = Changed(DropLeaves(db, h, {t}))
    /\ wanted' = [wanted EXCEPT ![db.ctxs[h].id][t] = NULL]
    /\ UNCHANGED owed

\* persistent_client_expiration has passed.
ExpireClient(h) ==
    LET ctx == db.ctxs[h]
    IN  /\ ~ctx.sock /\ ~ctx.clean /\ ctx.id # NULL
        /\ db' = End(db, h, "expiring")
        /\ wanted' = [wanted EXCEPT ![ctx.id] = [t \in Topics |-> NULL]]
        /\ owed' = [owed EXCEPT ![ctx.id] = {}]

Handler ==
    \/ \E c \in Clients, clean \in BOOLEAN, will \in WillMessages \cup {NULL} :
          mqtt3_handle_connect(c, clean, will)
    \/ \E h \in DOMAIN db.ctxs :
          \/ mqtt3_handle_disconnect(h)
          \/ socket_error(h)
          \/ \E t \in Topics, qos \in PubQos, k \in Kinds :
                mqtt3_handle_publish(h, t, qos, k.retain, k.payload)
          \/ PublishDenied(h)
          \/ \E i \in DOMAIN db.ctxs[h].msgs : handle_pubrel(h, i)
          \/ \E i \in DOMAIN db.ctxs[h].msgs : Delivered(h, i)
          \/ \E t \in Topics, qos \in SubQos : mqtt3_handle_subscribe(h, t, qos)
          \/ \E t \in Topics : mqtt3_handle_unsubscribe(h, t)
          \/ ExpireClient(h)

\* The next pass of the main loop begins.
FreeDisused ==
    /\ db.free # <<>>
    /\ db' = mosquitto__free_disused_contexts(db)
    /\ UNCHANGED session

----------------------------------------------------------------------------
Refs(d, s) ==
    LET held(h) == {i \in DOMAIN d.ctxs[h].msgs : d.ctxs[h].msgs[i].store = s}
    IN  Cardinality(UNION {{h} \X held(h) : h \in DOMAIN d.ctxs})
        + Cardinality({t \in Topics : d.retained[t] = s})

(***************************************************************************)
(* ref_count counts: it is the number of entries in the lists of contexts, *)
(* those that wait to be freed included, and of retained messages that     *)
(* point to the stored message.  One too few frees a message in use, one   *)
(* too many keeps it for ever.                                             *)
(***************************************************************************)
RefCountExact == \A s \in DOMAIN db.store : db.store[s].ref = Refs(db, s)

(***************************************************************************)
(* No pointer outlives what it points to: not from a list or a topic to a  *)
(* message, not from a leaf to a context; a client's own list of           *)
(* subscriptions names its leaves; a context that waits to be freed waits  *)
(* once and is no client's any more; an id leads to one context.           *)
(***************************************************************************)
PointersValid ==
    /\ \A h \in DOMAIN db.ctxs : \A i \in DOMAIN db.ctxs[h].msgs :
          db.ctxs[h].msgs[i].store \in DOMAIN db.store
    /\ \A t \in Topics : db.retained[t] \in DOMAIN db.store \cup {NULL}
    /\ \A t \in Topics : \A i \in DOMAIN db.leaves[t] :
          db.leaves[t][i].ctx \in DOMAIN db.ctxs
    /\ \A h \in DOMAIN db.ctxs :
          db.ctxs[h].subs = {t \in Topics :
              \E i \in DOMAIN db.leaves[t] : db.leaves[t][i].ctx = h}
    /\ IsInjective(db.free)
    /\ \A h \in ToSet(db.free) : h \in DOMAIN db.ctxs /\ db.ctxs[h].id = NULL
    /\ \A c \in Clients : Cardinality(ById(db, c)) <= 1

(***************************************************************************)
(* Durable sessions lose nothing: a message of QoS 1 or 2 that was routed  *)
(* while a client's durable session was subscribed to its topic stays in   *)
(* the client's list until it is delivered, through lost connections,      *)
(* takeovers and the end of other sessions.                                *)
(***************************************************************************)
OwedIsQueued ==
    \A c \in Clients : \A s \in owed[c] :
        \E h \in ById(db, c) : \E i \in DOMAIN db.ctxs[h].msgs :
            db.ctxs[h].msgs[i].store = s /\ db.ctxs[h].msgs[i].dir = "out"
=============================================================================
