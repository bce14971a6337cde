------------------------------- MODULE Bridge -------------------------------
(***************************************************************************)
(* One bridge of the mosquitto 1.4.2 broker: its connection to one of      *)
(* several addresses, its restart, the way back to the first address and   *)
(* the notification of its state (src/bridge.c, the bridge parts of        *)
(* src/loop.c and of src/database.c, src/read_handle_client.c).            *)
(*                                                                         *)
(* A pass of the main loop is one step as far as the bridge is concerned:  *)
(* keepalive, the probe of the primary address, the write-out, the         *)
(* restart, and the assertion that the entry of the poll array which the   *)
(* context remembers is its own.  What poll() reports follows between      *)
(* passes.  Timers run out in steps of their own.  Messages are counted;   *)
(* their handshakes are the subject of BrokerSession.                      *)
(*                                                                         *)
(* A connect() returns at once for an address of Local and stays pending   *)
(* for the others, where an unreachable one may also fail at once (no      *)
(* route, no name).  The probe of a pending primary leaves its socket      *)
(* open; file descriptors are not counted here.                            *)
(***************************************************************************)
EXTENDS Integers

CONSTANTS
    address_count,
    Local,              \* addresses whose connect() does not stay pending
    Configs,            \* records [start, round_robin, clean, own_topic]
    Remotes,            \* address -> what is found there, at the start
    threshold,
    max_inflight,
    max_queued,
    MaxZero,            \* bound: messages of QoS 0 in the list
    MaxLosses,          \* bound: connections lost, attempts that fail
    MaxChanges          \* bound: changes of what is found at an address

Addresses == 0..(address_count - 1)

\* Nobody, a broker that turns the bridge down, one that does not know the
\* private protocol version of bridges, and one that does.
Kinds == {"down", "refusing", "old", "up"}

ASSUME BridgeAssumption ==
    /\ address_count \in Nat \ {0}
    /\ Local \subseteq Addresses
    /\ Configs \subseteq [start : {"automatic", "lazy", "once"},
                          round_robin : BOOLEAN, clean : BOOLEAN,
                          own_topic : BOOLEAN]
    /\ Remotes \subseteq [Addresses -> Kinds]
    /\ threshold \in Nat \ {0}
    /\ max_inflight \in Nat \ {0} /\ max_queued \in Nat \ {0}
    /\ MaxZero \in Nat /\ MaxLosses \in Nat /\ MaxChanges \in Nat

VARIABLES
    cfg,        \* the bridge section of the configuration
    b,          \* the context and what changes of struct _mqtt3_bridge
    remote,     \* external: what is found at each address
    changes,    \* how often that changed
    aborted     \* the assertion of loop_handle_reads_writes failed

vars == <<cfg, b, remote, changes, aborted>>

Bridges ==
    [cur       : Addresses,                         \* cur_address
     state     : {"new", "connect_pending", "connected", "disconnected"},
     sock      : BOOLEAN,
     index     : {"none", "own", "stale"},          \* pollfd_index
     restart   : {"none", "waiting", "due"},        \* restart_t
     retry     : BOOLEAN,                           \* primary_retry is ahead
     overdue   : BOOLEAN,                           \* keepalive or idle time
     lazy      : BOOLEAN,                           \* lazy_reconnect
     private   : BOOLEAN,                           \* try_private_accepted
     will      : BOOLEAN,
     note      : {"0", "1"},                        \* the retained state
     n0        : 0..MaxZero,
     n12       : 0..(max_inflight + max_queued),    \* msg_count12
     losses    : 0..MaxLosses]

----------------------------------------------------------------------------

NextAddress(a) == IF a + 1 = address_count THEN 0 ELSE a + 1

(***************************************************************************)
(* do_disconnect with mqtt3_context_disconnect, for a bridge: it is never  *)
(* freed.                                                                  *)
(***************************************************************************)
\* Mutant: the will of a bridge is not published here.
do_disconnectQuiet(s) ==
    [s EXCEPT !.will = FALSE, !.sock = FALSE, !.state = "disconnected"]

do_disconnect(s) ==
    IF s.state = "disconnected" THEN s
    ELSE [s EXCEPT !.note = IF s.will THEN "0" ELSE @, !.will = FALSE,
                   !.sock = FALSE, !.state = "disconnected"]

(***************************************************************************)
(* mqtt3_bridge_connect.  Everything before the connect(): the notice on   *)
(* a topic of its own says "1" already here, the one below $SYS says "0".  *)
(***************************************************************************)
\* Mutant: the wish of a lazy bridge outlives the attempt.
PreparedKeepsWish(s) ==
    [s EXCEPT !.state = "new", !.sock = FALSE, !.overdue = FALSE,
              !.n0 = IF cfg.clean THEN 0 ELSE @,
              !.n12 = IF cfg.clean THEN 0 ELSE @,
              !.note = IF cfg.own_topic THEN "1" ELSE "0", !.will = TRUE]

Prepared(s) ==
    [s EXCEPT !.state = "new", !.sock = FALSE, !.overdue = FALSE,
              !.lazy = FALSE,
              !.n0 = IF cfg.clean THEN 0 ELSE @,
              !.n12 = IF cfg.clean THEN 0 ELSE @,
              !.note = IF cfg.own_topic THEN "1" ELSE "0", !.will = TRUE]

\* The outcomes of an attempt, each with the verdict the caller sees.
mqtt3_bridge_connect(s) ==
    LET p == Prepared(s)
        reached == remote[s.cur] # "down"
        good(state) == [ok |-> TRUE, s |-> [p EXCEPT !.sock = TRUE, !.state = state]]
    IN  {o \in {good("new")} : s.cur \in Local /\ reached}
        \cup {o \in {good("connect_pending")} : s.cur \notin Local}
        \cup {o \in {[ok |-> FALSE, s |-> p]} : ~reached}
        \cup {[ok |-> FALSE, s |-> [p EXCEPT !.losses = l]] :
                 l \in {s.losses + 1} \cap 0..MaxLosses}

\* mqtt3_bridge_new.  The context may be one of the persistence file, with
\* messages; that the attempt fails is only logged.
mqtt3_bridge_new(queued) ==
    {o.s : o \in mqtt3_bridge_connect(
        [cur |-> 0, state |-> "new", sock |-> FALSE, index |-> "none",
         restart |-> "none", retry |-> FALSE, overdue |-> FALSE,
         lazy |-> FALSE, private |-> TRUE, will |-> FALSE, note |-> "0",
         n0 |-> 0, n12 |-> queued, losses |-> 0])}

Init ==
    /\ cfg \in Configs /\ remote \in Remotes
    /\ \E queued \in 0..max_queued : b \in mqtt3_bridge_new(queued)
    /\ changes = 0 /\ aborted = FALSE

(***************************************************************************)
(* The first half of a pass, over the contexts that have a socket:         *)
(* _mosquitto_check_keepalive, the probe and mqtt3_db_message_write.  A    *)
(* probe that connects sends the bridge to the address before the first    *)
(* one.  Without a socket the write-out fails, and the bridge is           *)
(* disconnected.                                                           *)
(***************************************************************************)
check_keepalive(s) == IF s.overdue THEN [s EXCEPT !.sock = FALSE] ELSE s

Probes(s) == ~cfg.round_robin /\ s.cur # 0 /\ ~s.retry

\* Mutant: the bridge is sent to the first address directly.
probeFirst(s) ==
    IF Probes(s) /\ 0 \in Local /\ remote[0] # "down"
    THEN [s EXCEPT !.sock = FALSE, !.cur = 0] ELSE s

probe(s) ==
    IF Probes(s) /\ 0 \in Local /\ remote[0] # "down"
    THEN [s EXCEPT !.sock = FALSE, !.cur = address_count - 1] ELSE s

WriteOut(s) ==
    IF s.sock
    THEN {[s EXCEPT !.index = "own"]}
         \cup {do_disconnect([s EXCEPT !.losses = l]) :
                  l \in {s.losses + 1} \cap 0..MaxLosses}
    ELSE {do_disconnect(s)}

\* An index that was not set again is one into the array of an earlier pass.
Polled(s) ==
    IF s.sock THEN WriteOut(probe(check_keepalive([s EXCEPT !.index = "none"])))
    ELSE {[s EXCEPT !.index = IF @ = "own" THEN "stale" ELSE @]}

(***************************************************************************)
(* The second half, over the bridges.  restart_t is set once for each      *)
(* lost connection, and set back only when an automatic bridge tries       *)
(* again.                                                                  *)
(***************************************************************************)
Moved(s) == [s EXCEPT !.cur = NextAddress(@)]

RestartLater(s) ==
    LET m == [Moved(s) EXCEPT !.restart = "waiting"]
    IN  IF ~cfg.round_robin /\ m.cur # 0 THEN [m EXCEPT !.retry = TRUE] ELSE m

RestartLazy(s) ==
    {IF o.ok THEN o.s ELSE Moved(o.s) : o \in mqtt3_bridge_connect(s)}

\* Mutant: the timer is not set back when the bridge tries again.
RestartAutomaticKeepsTimer(s) ==
    {IF o.ok THEN [o.s EXCEPT !.index = "own"]
     ELSE [Moved(o.s) EXCEPT !.restart = "waiting"] :
        o \in mqtt3_bridge_connect(s)}

\* Mutant: the new socket gets no entry of its own in the poll array.
RestartAutomaticUnpolled(s) ==
    {IF o.ok THEN o.s
     ELSE [Moved(o.s) EXCEPT !.restart = "waiting"] :
        o \in mqtt3_bridge_connect([s EXCEPT !.restart = "none"])}

RestartAutomatic(s) ==
    {IF o.ok THEN [o.s EXCEPT !.index = "own"]
     ELSE [Moved(o.s) EXCEPT !.restart = "waiting"] :
        o \in mqtt3_bridge_connect([s EXCEPT !.restart = "none"])}

Restarted(s) ==
    IF s.sock THEN {s}
    ELSE IF s.restart = "none" THEN {RestartLater(s)}
    ELSE IF cfg.start = "lazy" /\ s.lazy THEN RestartLazy(s)
    ELSE IF cfg.start = "automatic" /\ s.restart = "due" THEN RestartAutomatic(s)
    ELSE {s}

\* A pass, up to the assertion at the start of loop_handle_reads_writes.
mosquitto_main_loop ==
    /\ ~aborted
    /\ \E p \in Polled(b) : b' \in Restarted(p)
    /\ aborted' = (b'.sock /\ b'.index = "stale")
    /\ UNCHANGED <<cfg, remote, changes>>

----------------------------------------------------------------------------
Step == ~aborted /\ UNCHANGED <<cfg, remote, changes, aborted>>

\* Time passes.
restart_timeout ==
    /\ Step /\ b.restart = "waiting"
    /\ b' = [b EXCEPT !.restart = "due"]

primary_retry ==
    /\ Step /\ b.retry
    /\ b' = [b EXCEPT !.retry = FALSE]

\* Neither a connection nor an answer to PINGREQ within the keepalive time.
keepalive ==
    /\ Step /\ b.sock /\ ~b.overdue /\ remote[b.cur] = "down"
    /\ b' = [b EXCEPT !.overdue = TRUE]

idle_timeout ==
    /\ Step /\ b.sock /\ ~b.overdue /\ cfg.start = "lazy"
    /\ b' = [b EXCEPT !.overdue = TRUE]

(***************************************************************************)
(* loop_handle_reads_writes, for a socket with an entry in the poll array. *)
(***************************************************************************)
Event == Step /\ b.sock /\ b.index = "own"

pending_done ==
    /\ Event /\ b.state = "connect_pending" /\ remote[b.cur] # "down"
    /\ b' = [b EXCEPT !.state = "new"]

\* The connection attempt has failed.  The code leaves a context whose
\* SO_ERROR is set to the write or read that fails next (loop.c:474-489); the
\* two are one step here.
pending_failed ==
    /\ Event /\ b.state = "connect_pending" /\ remote[b.cur] = "down"
    /\ b' = do_disconnect(b)

Accepts(kind) == kind = "up" \/ (kind = "old" /\ ~b.private)

mqtt3_handle_connack ==
    /\ Event /\ b.state = "new" /\ remote[b.cur] # "down"
    /\ b' = IF Accepts(remote[b.cur])
            THEN [b EXCEPT !.state = "connected", !.note = "1"]
            ELSE do_disconnect([b EXCEPT !.private =
                                    @ /\ remote[b.cur] # "old"])

connection_lost ==
    /\ Event /\ b.losses < MaxLosses
    /\ b' = do_disconnect([b EXCEPT !.losses = @ + 1])

(***************************************************************************)
(* mqtt3_db_message_insert for the bridge's list.  Without a socket only a *)
(* lazy bridge keeps messages of QoS 0; a message that is kept may wake    *)
(* it.                                                                     *)
(***************************************************************************)
Kept(qos) ==
    IF b.sock THEN qos = 0 \/ b.n12 < max_inflight + max_queued
    ELSE (qos > 0 \/ cfg.start = "lazy") /\ b.n12 < max_queued

mqtt3_db_message_insert(qos) ==
    LET n0 == IF qos = 0 THEN b.n0 + 1 ELSE b.n0
        n12 == IF qos = 0 THEN b.n12 ELSE b.n12 + 1
    IN  /\ Step /\ Kept(qos) /\ n0 <= MaxZero
        /\ b' = [b EXCEPT !.n0 = n0, !.n12 = n12,
                          !.lazy = @ \/ (/\ cfg.start = "lazy" /\ ~b.sock
                                         /\ n0 + n12 >= threshold)]

\* The remote broker has it.
mqtt3_db_message_delete ==
    /\ Step /\ b.state = "connected"
    /\ \/ b.n0 > 0 /\ b' = [b EXCEPT !.n0 = @ - 1]
       \/ b.n12 > 0 /\ b' = [b EXCEPT !.n12 = @ - 1]

\* persistent_client_expiration takes a bridge for a client that is away.
ExpireBridge ==
    /\ Step /\ ~b.sock /\ ~cfg.clean /\ b.will
    /\ b' = do_disconnect(b)

\* Something happens at an address.
remote_changes(a, kind) ==
    /\ ~aborted /\ changes < MaxChanges /\ remote[a] # kind
    /\ remote' = [remote EXCEPT ![a] = kind]
    /\ changes' = changes + 1
    /\ UNCHANGED <<cfg, b, aborted>>

Next ==
    \/ mosquitto_main_loop
    \/ restart_timeout \/ primary_retry \/ keepalive \/ idle_timeout
    \/ pending_done \/ pending_failed \/ mqtt3_handle_connack
    \/ connection_lost
    \/ \E qos \in {0, 1} : mqtt3_db_message_insert(qos)
    \/ mqtt3_db_message_delete
    \/ ExpireBridge
    \/ \E a \in Addresses, kind \in Kinds : remote_changes(a, kind)

Spec == Init /\ [][Next]_vars

\* The loop goes round, clocks tick, and what is at an address answers.
FairSpec ==
    /\ Spec
    /\ WF_vars(mosquitto_main_loop)
    /\ WF_vars(restart_timeout) /\ WF_vars(primary_retry)
    /\ WF_vars(keepalive)
    /\ WF_vars(pending_done) /\ WF_vars(pending_failed)
    /\ WF_vars(mqtt3_handle_connack)

----------------------------------------------------------------------------
\* cur_address is the index of an address, and the list keeps to its limits,
\* however often the bridge moves on and whichever path fills the list.
TypeOK ==
    /\ cfg \in Configs
    /\ b \in Bridges
    /\ remote \in [Addresses -> Kinds]
    /\ changes \in 0..MaxChanges
    /\ aborted \in BOOLEAN

\* Subscribers to the notification topic are told the truth: the retained
\* message below $SYS says "1" exactly while the remote broker has accepted
\* the bridge (bridge.c:185-196, read_handle_client.c:59-69, context.c:190).
\* On a topic of its own it says "1" at least then.
NotificationTrue ==
    /\ b.state = "connected" => b.note = "1"
    /\ ~cfg.own_topic /\ b.note = "1" => b.state = "connected"

\* The assertion on the poll array (loop.c:464) never ends the broker for
\* the sake of a bridge that is not a lazy one, however its connections
\* come and go.
PollEntryOwn == cfg.start # "lazy" => ~aborted

\* A lazy bridge whose connection is down stays down until its list has
\* reached the threshold (database.c:423-427, loop.c:247).
LazyWaitsForThreshold ==
    [][cfg.start = "lazy" /\ ~b.sock /\ b'.sock
          => b.n0 + b.n12 >= threshold]_vars

Willing(a) == remote[a] \in {"up", "old"}

\* A primary that can be connected to and then turns the bridge down draws
\* it away from the others again and again.
Draws == ~cfg.round_robin /\ 0 \in Local /\ remote[0] = "refusing"

\* An automatic bridge finds a broker that accepts it, wherever in the list
\* of addresses it is, whatever the other addresses do and however
\* connections were lost before, and then stays connected.
AddressFound ==
    <>[](cfg.start = "automatic" /\ ~Draws /\ (\E a \in Addresses : Willing(a))
            => b.state = "connected")

\* The assertion of loop_handle_reads_writes holds for every bridge:
\* assert(pollfds[context->pollfd_index].fd == context->sock), src/loop.c:464.
AssertionHolds == ~aborted

\* Without round_robin an automatic bridge returns to a primary that is back
\* and whose connect() does not stay pending (loop.c:177-186).
PrimaryRegained ==
    <>[](cfg.start = "automatic" /\ ~cfg.round_robin /\ 0 \in Local /\ Willing(0)
            => b.state = "connected" /\ b.cur = 0)

\* It returns to any primary that is back: "Whilst connected to a secondary
\* bridge, the bridge will periodically attempt to reconnect to the main
\* bridge until successful" (man/mosquitto.conf.5.xml:1104-1107).
MainRegained ==
    <>[](cfg.start = "automatic" /\ ~cfg.round_robin /\ Willing(0)
            => b.state = "connected" /\ b.cur = 0)

=============================================================================
