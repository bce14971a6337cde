-------------------------- MODULE SubscriptionTree --------------------------
(***************************************************************************)
(* The subscription tree of the mosquitto 1.4.2 broker (src/subs.c): who   *)
(* receives a message and which retained messages a new subscription       *)
(* gets, and how subscriptions and retained messages get through the       *)
(* persistence file (src/persist.c).                                       *)
(*                                                                         *)
(* A node is named by its path from the root.  Below the root hang the     *)
(* nodes <<"">> and <<"$SYS">>, and each of them repeats its own level:    *)
(* a subscription to foo sits at <<"", "", "foo">> (mqtt3_sub_add passes   *)
(* all tokens on).  children keeps the order of the linked list, which     *)
(* _retain_search depends on; a leaf is named by its client.  QoS, ACLs    *)
(* and the messages themselves are the subject of BrokerStore.             *)
(***************************************************************************)
EXTENDS Topics, TLC

CONSTANTS
    Clients,        \* durable clients
    Filters,        \* subscriptions clients may make
    TopicNames,     \* topics messages are published on
    MaxSubs,        \* bound: subscriptions held at a time
    MaxRetained,    \* bound: retained messages held at a time
    MaxNodes,       \* bound: nodes of the tree, useless ones included
    NULL

ASSUME TreeAssumption ==
    /\ \A f \in Filters : mosquitto_sub_topic_check(f)
    /\ \A t \in TopicNames : mosquitto_pub_topic_check(t)
    /\ MaxSubs \in Nat /\ MaxRetained \in Nat /\ MaxNodes \in Nat

VARIABLES
    hier,           \* path -> the node: children, leaves, retained message
    subs,           \* client -> context->subs, the nodes it has a leaf at
    kept,           \* the topics that have a retained message
    wanted          \* client -> the subscriptions it made and not undid

vars == <<hier, subs, kept, wanted>>

SYS == <<"$", "S", "Y", "S">>

Node(children) == [children |-> children, leaves |-> <<>>, retained |-> NULL]

mqtt3_db_open == (<<>> :> Node(<< <<>>, SYS >>))
                 @@ (<< <<>> >> :> Node(<<>>)) @@ (<<SYS>> :> Node(<<>>))

Init ==
    /\ hier = mqtt3_db_open
    /\ subs = [c \in Clients |-> {}]
    /\ kept = {}
    /\ wanted = [c \in Clients |-> {}]

(***************************************************************************)
(* The tokens of a topic or filter in the subscription tree: its levels,   *)
(* below an empty one unless it starts with "$".  TokensFrom is the loop   *)
(* that cuts at every "/" and at the end of the string.                    *)
(***************************************************************************)
RECURSIVE TokensFrom(_, _)
TokensFrom(str, start) ==
    LET stop == CHOOSE i \in start..(Len(str) + 1) :
                    /\ i = Len(str) + 1 \/ str[i] = "/"
                    /\ \A j \in start..(i - 1) : str[j] # "/"
    IN  <<SubSeq(str, start, stop - 1)>>
        \o (IF stop > Len(str) THEN <<>> ELSE TokensFrom(str, stop + 1))

sub_topic_tokenise(str) ==
    (IF IsDollar(str) THEN <<>> ELSE << <<>> >>) \o TokensFrom(str, 1)

Parent(path) == SubSeq(path, 1, Len(path) - 1)
\* The node of the tokens: the child of the root they start with, then all
\* of them.
PathOf(tokens) == <<Head(tokens)>> \o tokens

(***************************************************************************)
(* _sub_add: nodes that are missing on the way are added at the end of     *)
(* their parent's list, a missing child of the root at its start.          *)
(***************************************************************************)
Branch(h, path) ==
    IF path \in DOMAIN h THEN h
    ELSE (path :> Node(<<>>)) @@
         [h EXCEPT ![Parent(path)].children =
             IF Len(path) = 1 THEN <<Last(path)>> \o @ ELSE Append(@, Last(path))]

AddPath(h, path) ==
    FoldLeft(LAMBDA t, k : Branch(t, SubSeq(path, 1, k)), h,
             [k \in 1..Len(path) |-> k])

\* A second subscription of a client to the same topic adds no leaf.
sub_add(h, path, c) ==
    LET t == AddPath(h, path)
    IN  IF Contains(t[path].leaves, c) THEN t
        ELSE [t EXCEPT ![path].leaves = Append(@, c)]

mqtt3_sub_add(h, filter, c) == sub_add(h, PathOf(sub_topic_tokenise(filter)), c)

(***************************************************************************)
(* _sub_remove: the leaf goes, and on the way back every node below the    *)
(* root's child that has become useless.                                   *)
(***************************************************************************)
\* Mutant: a node that still has subscribers is dropped.
UselessLeaves(n) == n.children = <<>> /\ n.retained = NULL

Useless(n) == n.children = <<>> /\ n.leaves = <<>> /\ n.retained = NULL

Prune(h, path) ==
    IF path \in DOMAIN h /\ Useless(h[path])
    THEN [p \in DOMAIN h \ {path} |->
             IF p = Parent(path)
             THEN [h[p] EXCEPT !.children = RemoveFirst(@, Last(path))]
             ELSE h[p]]
    ELSE h

DropLeaf(h, path, c) ==
    IF path \in DOMAIN h
    THEN [h EXCEPT ![path].leaves = RemoveFirst(@, c)] ELSE h

mqtt3_sub_remove(h, filter, c) ==
    LET path == PathOf(sub_topic_tokenise(filter))
    IN  FoldRight(LAMBDA k, t : Prune(t, SubSeq(path, 1, k)),
                  [k \in 1..(Len(path) - 1) |-> k + 1],
                  DropLeaf(h, path, c))

(***************************************************************************)
(* _sub_search: the nodes a message passes, in order, each with the flag   *)
(* whether it may hold the message as a retained one.                      *)
(***************************************************************************)
RECURSIVE sub_search(_, _, _, _)
sub_search(h, at, tokens, set_retain) ==
    LET visit(level) ==
            LET branch == Append(at, level)
                sr == set_retain /\ level # <<"+">>
            IN  IF tokens # <<>> /\ level \in {Head(tokens), <<"+">>}
                THEN sub_search(h, branch, Tail(tokens), sr)
                     \o (IF Len(tokens) = 1
                         THEN << [node |-> branch, sr |-> sr] >> ELSE <<>>)
                ELSE IF level = <<"#">> /\ h[branch].children = <<>>
                THEN << [node |-> branch, sr |-> FALSE] >>
                ELSE <<>>
    IN  FlattenSeq([i \in DOMAIN h[at].children |-> visit(h[at].children[i])])

\* Mutant: the search ends at the first node it finds.
FoundFirst(h, topic) ==
    LET tokens == sub_topic_tokenise(topic)
    IN  IF <<Head(tokens)>> \in DOMAIN h
        THEN LET all == sub_search(h, <<Head(tokens)>>, tokens, TRUE)
             IN  IF all = <<>> THEN all ELSE <<Head(all)>>
        ELSE <<>>

Found(h, topic) ==
    LET tokens == sub_topic_tokenise(topic)
    IN  IF <<Head(tokens)>> \in DOMAIN h
        THEN sub_search(h, <<Head(tokens)>>, tokens, TRUE) ELSE <<>>

\* The clients a message on topic is inserted for, one entry per leaf.
Receivers(h, topic) ==
    LET found == Found(h, topic)
    IN  FlattenSeq([i \in DOMAIN found |-> h[found[i].node].leaves])

(***************************************************************************)
(* mqtt3_db_messages_queue with the retain flag: the path of the topic is  *)
(* made, but never a new child of the root; _subs_process then replaces    *)
(* the retained message, and an empty payload clears it.                   *)
(***************************************************************************)
Retain(h, topic, payloadlen) ==
    LET tokens == sub_topic_tokenise(topic)
        t == IF <<Head(tokens)>> \in DOMAIN h
             THEN AddPath(h, PathOf(tokens)) ELSE h
        nodes == {m.node : m \in {f \in ToSet(Found(t, topic)) : f.sr}}
    IN  [p \in DOMAIN t |->
            IF p \in nodes
            THEN [t[p] EXCEPT !.retained = IF payloadlen > 0 THEN topic ELSE NULL]
            ELSE t[p]]

(***************************************************************************)
(* _retain_search: the retained messages sent to a new subscription.  The  *)
(* flag -1 tells the caller that the filter ended in "#" right below one   *)
(* of its branches, so that foo/# also finds the message on foo.           *)
(***************************************************************************)
RECURSIVE retain_search(_, _, _, _)
retain_search(h, at, tokens, level) ==
    LET list == h[at].children
        held(branch) == IF h[branch].retained = NULL THEN <<>>
                        ELSE << h[branch].retained >>
        multi == Head(tokens) = <<"#">> /\ Len(tokens) = 1
        rest == IF multi THEN tokens ELSE Tail(tokens)
        visit(i) ==
            LET branch == Append(at, list[i])
                below == retain_search(h, branch, rest, level + 1)
            IN  IF multi
                THEN held(branch) \o below.found
                ELSE IF /\ list[i] # <<"+">>
                        /\ Head(tokens) \in {list[i], <<"+">>}
                THEN IF rest = <<>> THEN held(branch)
                     ELSE below.found
                          \o (IF \/ below.flag
                                 \/ /\ i = Len(list)
                                    /\ Head(rest) = <<"#">> /\ level > 0
                              THEN held(branch) ELSE <<>>)
                ELSE <<>>
    IN  [found |-> FlattenSeq([i \in DOMAIN list |-> visit(i)]),
         flag  |-> multi /\ list # <<>>]

mqtt3_retain_queue(h, filter) ==
    LET tokens == sub_topic_tokenise(filter)
    IN  IF <<Head(tokens)>> \in DOMAIN h
        THEN retain_search(h, <<Head(tokens)>>, tokens, 0).found ELSE <<>>

\* Mutant: they are looked for before the subscription is added.
RetainedForBefore(h, filter, c) == mqtt3_retain_queue(h, filter)

\* mqtt3_handle_subscribe: the retained messages c is sent for filter, which
\* is in the tree by then, also when c held the subscription before.
RetainedFor(h, filter, c) == mqtt3_retain_queue(mqtt3_sub_add(h, filter, c), filter)

(***************************************************************************)
(* The persistence file.  _db_subs_retain_write walks the tree from the    *)
(* root's children down and writes, per node, its subscriptions under a    *)
(* topic it puts together from the levels on the way, and its retained     *)
(* message; $SYS messages are left out.                                    *)
(***************************************************************************)
\* Mutant: the first level is joined like the others.
JoinedAlways(topic, level) == topic \o <<"/">> \o level

Joined(topic, level) == IF topic = <<>> THEN level ELSE topic \o <<"/">> \o level

RECURSIVE subs_retain_write(_, _, _)
subs_retain_write(h, at, topic) ==
    LET n == h[at]
        thistopic == Joined(topic, Last(at))
        visible == n.retained # NULL /\ ~IsPrefix(SYS, n.retained)
    IN  [i \in DOMAIN n.leaves |->
             [chunk |-> "SUB", client |-> n.leaves[i], topic |-> thistopic]]
        \o (IF visible THEN << [chunk |-> "RETAIN", topic |-> n.retained] >>
            ELSE <<>>)
        \o FlattenSeq([i \in DOMAIN n.children |->
               subs_retain_write(h, Append(at, n.children[i]), thistopic)])

mqtt3_db_subs_retain_write(h) ==
    FlattenSeq([i \in DOMAIN h[<<>>].children |->
        subs_retain_write(h, << h[<<>>].children[i] >>, <<>>)])

\* mqtt3_db_restore: each chunk in turn, into an empty tree.
ChunkRestore(h, chunk) ==
    IF chunk.chunk = "SUB" THEN mqtt3_sub_add(h, chunk.topic, chunk.client)
    ELSE Retain(h, chunk.topic, 1)

LeafNodes(h, c) == {p \in DOMAIN h : Contains(h[p].leaves, c)}

----------------------------------------------------------------------------
\* mqtt3_handle_subscribe, for one topic.
Subscribe(c, f) ==
    /\ Cardinality(UNION {{d} \X wanted[d] : d \in Clients} \cup {<<c, f>>}) <= MaxSubs
    /\ hier' = mqtt3_sub_add(hier, f, c)
    /\ Cardinality(DOMAIN hier') <= MaxNodes
    /\ subs' = [subs EXCEPT ![c] = @ \cup {PathOf(sub_topic_tokenise(f))}]
    /\ wanted' = [wanted EXCEPT ![c] = @ \cup {f}]
    /\ UNCHANGED kept

\* mqtt3_handle_unsubscribe, for one topic; the client need not hold it.
Unsubscribe(c, f) ==
    /\ hier' = mqtt3_sub_remove(hier, f, c)
    /\ subs' = [subs EXCEPT ![c] = @ \ {PathOf(sub_topic_tokenise(f))}]
    /\ wanted' = [wanted EXCEPT ![c] = @ \ {f}]
    /\ UNCHANGED kept

\* mqtt3_subs_clean_session: the leaves go through the client's own list of
\* nodes, and the nodes stay.
CleanSession(c) ==
    /\ hier' = [p \in DOMAIN hier |->
                   IF p \in subs[c]
                   THEN [hier[p] EXCEPT !.leaves = RemoveFirst(@, c)]
                   ELSE hier[p]]
    /\ subs' = [subs EXCEPT ![c] = {}]
    /\ wanted' = [wanted EXCEPT ![c] = {}]
    /\ UNCHANGED kept

\* A retained message reaches the tree; payloadlen 0 clears the topic.
Publish(t, payloadlen) ==
    /\ payloadlen > 0 => Cardinality(kept \cup {t}) <= MaxRetained
    /\ hier' = Retain(hier, t, payloadlen)
    /\ Cardinality(DOMAIN hier') <= MaxNodes
    /\ kept' = IF payloadlen = 0 THEN kept \ {t}
               ELSE IF PathOf(sub_topic_tokenise(t)) \in DOMAIN hier'
               THEN kept \cup {t} ELSE kept
    /\ UNCHANGED <<subs, wanted>>

\* The broker saves its state, stops and is started again.
Restart ==
    LET file == mqtt3_db_subs_retain_write(hier)
    IN  /\ hier' = FoldLeft(ChunkRestore, mqtt3_db_open, file)
        /\ Cardinality(DOMAIN hier') <= MaxNodes
        /\ subs' = [c \in Clients |-> LeafNodes(hier', c)]
        /\ wanted' = [c \in Clients |->
                         {file[i].topic : i \in {j \in DOMAIN file :
                             file[j].chunk = "SUB" /\ file[j].client = c}}]
        /\ kept' = {t \in kept : ~IsPrefix(SYS, t)}

Next ==
    \/ \E c \in Clients, f \in Filters : Subscribe(c, f)
    \/ \E c \in Clients, f \in Filters : Unsubscribe(c, f)
    \/ \E c \in Clients : CleanSession(c)
    \/ \E t \in TopicNames, payloadlen \in {0, 1} : Publish(t, payloadlen)
    \/ Restart

Spec == Init /\ [][Next]_vars

----------------------------------------------------------------------------
(***************************************************************************)
(* The linked structure is sound: the children lists name every node but   *)
(* the root exactly once, and the nodes a client remembers (context->subs) *)
(* exist and are those with a leaf of its own.  A node pruned by           *)
(* _sub_remove while another client still points to it would break it.     *)
(***************************************************************************)
TreeSound ==
    /\ \A p \in DOMAIN hier :
          /\ p # <<>> => Parent(p) \in DOMAIN hier
                         /\ Contains(hier[Parent(p)].children, Last(p))
          /\ IsInjective(hier[p].children) /\ IsInjective(hier[p].leaves)
          /\ \A l \in ToSet(hier[p].children) : Append(p, l) \in DOMAIN hier
    /\ \A c \in Clients : subs[c] = LeafNodes(hier, c)

(***************************************************************************)
(* Routing: whatever was subscribed and unsubscribed before, _sub_search   *)
(* reaches a client once for each of its subscriptions that matches the    *)
(* topic, and reaches nobody else.                                         *)
(***************************************************************************)
ReceiversExact ==
    \A t \in TopicNames :
        LET receivers == Receivers(hier, t)
        IN  \A c \in Clients :
               Cardinality({i \in DOMAIN receivers : receivers[i] = c})
                   = Cardinality({f \in wanted[c] : Matches(f, t)})

\* foo/# also stands for foo itself.
IsParentOf(t, f) ==
    /\ Last(Levels(f)) = <<"#">> /\ Len(Levels(f)) = Len(Levels(t)) + 1

(***************************************************************************)
(* Retained messages: whatever the tree, a subscription is sent no         *)
(* retained message twice, none that does not match, and all that match,   *)
(* foo for foo/# included.  The search of _retain_search for "#" below a   *)
(* "+" is the exception: the message on foo may be left out for +/#.       *)
(***************************************************************************)
RetainedFound ==
    \A c \in Clients, f \in Filters :
        LET found == RetainedFor(hier, f, c)
            below == {t \in kept : IsParentOf(t, f) /\ Contains(Levels(f), <<"+">>)}
        IN  /\ IsInjective(found)
            /\ ToSet(found) \subseteq {t \in kept : Matches(f, t)}
            /\ {t \in kept : Matches(f, t)} \ below \subseteq ToSet(found)

(***************************************************************************)
(* "If a new subscription is made that matches the topic of the retained   *)
(* message, then the message will be sent to the client"                   *)
(* (man/mqtt.7.xml:132-133).                                               *)
(***************************************************************************)
RetainedSent ==
    \A c \in Clients, f \in Filters :
        {t \in kept : Matches(f, t)} \subseteq ToSet(RetainedFor(hier, f, c))

(***************************************************************************)
(* The matcher of lib/util_mosq.c and the routing agree: it never lets a   *)
(* client read what its filter does not reach, and it turns down a topic   *)
(* the filter does reach only where "#" stands for no level at all or for  *)
(* one empty level.                                                        *)
(***************************************************************************)
MatcherAgrees ==
    \A c \in Clients : \A f \in wanted[c], t \in TopicNames :
        /\ f # <<>> /\ mosquitto_topic_matches_sub(f, t) => Matches(f, t)
        /\ Matches(f, t) /\ f # <<>> /\ ~mosquitto_topic_matches_sub(f, t)
               => /\ Last(f) = "#"
                  /\ IsParentOf(t, f) \/ Last(t) = "/"

Plain(f) == f[1] \notin {"/", "$"}

(***************************************************************************)
(* A restart gives every client its subscriptions back, provided they      *)
(* start with neither "/" nor "$", and takes away every retained message   *)
(* of $SYS only.                                                           *)
(***************************************************************************)
PlainSubscriptionsSurvive ==
    [][Restart => /\ \A c \in Clients, f \in Filters :
                       Plain(f) /\ f \in wanted[c] => f \in wanted'[c]
                  /\ \A t \in TopicNames :
                       t \in ToSet(mqtt3_retain_queue(hier', t))
                         <=> /\ t \in ToSet(mqtt3_retain_queue(hier, t))
                             /\ ~IsPrefix(SYS, t)]_vars

(***************************************************************************)
(* A restart gives every client exactly its subscriptions back, as         *)
(* man/mosquitto.conf.5.xml:417-421 says of the persistence option.        *)
(***************************************************************************)
SubscriptionsSurvive == [][Restart => wanted' = wanted]_vars
=============================================================================
