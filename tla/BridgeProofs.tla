---------------------------- MODULE BridgeProofs ----------------------------
(***************************************************************************)
(* Proofs about Bridge, for every number of addresses, every limit of the  *)
(* message list and every configuration of the bridge.                     *)
(***************************************************************************)
EXTENDS Bridge, TLAPS

\* The parts of the inductive invariant, for a context s.  The notification is
\* true, and a context that is not disconnected still has the will that sets
\* it back.
Told(s) ==
    /\ s.state = "connected" => s.note = "1"
    /\ ~cfg.own_topic /\ s.note = "1" => s.state = "connected"
    /\ s.state # "disconnected" => s.will

\* The wish of a lazy bridge to connect lives only while it is down and its
\* list has reached the threshold.
WishFounded(s) == s.lazy => ~s.sock /\ s.n0 + s.n12 >= threshold

\* The index of a bridge that restarts by itself is never an old one while it
\* has a socket.
IndexCurrent(s) == cfg.start # "lazy" /\ s.sock => s.index # "stale"

\* Between two passes a connection the state speaks of has its socket.
HasSocket(s) == s.state \in {"connected", "connect_pending"} => s.sock

Sound(s) == Told(s) /\ WishFounded(s) /\ IndexCurrent(s) /\ HasSocket(s)

BridgeInv == Sound(b) /\ PollEntryOwn
-----------------------------------------------------------------------------
\* What a disconnected bridge keeps, and that its notification is set back.
LEMMA DisconnectResult ==
    ASSUME NEW s \in Bridges, NEW d, d = do_disconnect(s)
    PROVE  /\ d \in Bridges
           /\ d.state = "disconnected"
           /\ s.state = "disconnected" => d = s
           /\ s.state # "disconnected" => d.sock = FALSE
           /\ s.state # "disconnected" => d.note = IF s.will THEN "0" ELSE s.note
           /\ d.index = s.index /\ d.lazy = s.lazy
           /\ d.n0 = s.n0 /\ d.n12 = s.n12
<1>1. CASE s.state = "disconnected"
  BY <1>1 DEF do_disconnect
<1>2. CASE s.state # "disconnected"
  <2>1. d = [s EXCEPT !.note = IF s.will THEN "0" ELSE s.note, !.will = FALSE,
                      !.sock = FALSE, !.state = "disconnected"]
    BY <1>2 DEF do_disconnect
  <2>2. /\ d.index = s.index /\ d.lazy = s.lazy /\ d.n0 = s.n0 /\ d.n12 = s.n12
        /\ d.state = "disconnected"
    BY <2>1 DEF Bridges
  <2>3. d.sock = FALSE
    BY <2>1 DEF Bridges
  <2>4. d.note = IF s.will THEN "0" ELSE s.note
    BY <2>1 DEF Bridges
  <2>5. d \in Bridges
    BY <2>1 DEF Bridges
  <2> QED
    BY <1>2, <2>2, <2>3, <2>4, <2>5
<1> QED
  BY <1>1, <1>2

\* What mqtt3_bridge_connect leaves before the connect().
LEMMA PreparedResult ==
    ASSUME NEW s \in Bridges, NEW p, p = Prepared(s)
    PROVE  /\ p \in Bridges
           /\ p.state = "new"
           /\ p.sock = FALSE /\ p.will = TRUE /\ p.lazy = FALSE
           /\ p.note = IF cfg.own_topic THEN "1" ELSE "0"
           /\ p.index = s.index /\ p.cur = s.cur
<1>1. 0 \in 0..MaxZero /\ 0 \in 0..(max_inflight + max_queued)
  BY BridgeAssumption
<1>2. s.n0 \in 0..MaxZero /\ s.n12 \in 0..(max_inflight + max_queued)
  BY DEF Bridges
<1> DEFINE n0 == IF cfg.clean THEN 0 ELSE s.n0
           n12 == IF cfg.clean THEN 0 ELSE s.n12
           note == IF cfg.own_topic THEN "1" ELSE "0"
<1>3. /\ n0 \in 0..MaxZero /\ n12 \in 0..(max_inflight + max_queued)
      /\ note \in {"0", "1"}
  BY <1>1, <1>2
<1>4. p = [s EXCEPT !.state = "new", !.sock = FALSE, !.overdue = FALSE,
                    !.lazy = FALSE, !.n0 = n0, !.n12 = n12,
                    !.note = note, !.will = TRUE]
  BY DEF Prepared
<1> HIDE DEF n0, n12, note
<1>5. p \in Bridges
  BY <1>3, <1>4, ZenonT(60) DEF Bridges
<1>6. p.state = "new" /\ p.index = s.index /\ p.cur = s.cur /\ p.note = note
  BY <1>4 DEF Bridges
<1>7. p.sock = FALSE /\ p.will = TRUE /\ p.lazy = FALSE
  BY <1>4 DEF Bridges
<1> QED
  BY <1>5, <1>6, <1>7 DEF note

\* What every attempt to connect leaves, whatever comes of it.
LEMMA ConnectResult ==
    ASSUME NEW s \in Bridges, NEW o \in mqtt3_bridge_connect(s)
    PROVE  /\ o.ok \in BOOLEAN
           /\ o.s \in Bridges
           /\ o.s.state \in {"new", "connect_pending"}
           /\ o.s.sock = o.ok
           /\ o.s.state = "connect_pending" => o.ok
           /\ o.s.will = TRUE /\ o.s.lazy = FALSE
           /\ o.s.note = IF cfg.own_topic THEN "1" ELSE "0"
           /\ o.s.index = s.index
<1> DEFINE p == Prepared(s)
           good(state) == [ok |-> TRUE, s |-> [p EXCEPT !.sock = TRUE, !.state = state]]
<1>1. /\ p \in Bridges
      /\ p.state = "new"
      /\ p.sock = FALSE /\ p.will = TRUE /\ p.lazy = FALSE
      /\ p.note = IF cfg.own_topic THEN "1" ELSE "0"
      /\ p.index = s.index
  BY PreparedResult
<1>2. \/ o = good("new")
      \/ o = good("connect_pending")
      \/ o = [ok |-> FALSE, s |-> p]
      \/ \E l \in 0..MaxLosses : o = [ok |-> FALSE, s |-> [p EXCEPT !.losses = l]]
  BY DEF mqtt3_bridge_connect
<1> HIDE DEF p
<1>3. CASE \E state \in {"new", "connect_pending"} : o = good(state)
  <2>1. PICK state \in {"new", "connect_pending"} : o = good(state)
    BY <1>3
  <2>2. o.ok = TRUE /\ o.s = [p EXCEPT !.sock = TRUE, !.state = state]
    BY <2>1
  <2>3. o.s \in Bridges /\ o.s.state = state /\ o.s.index = p.index
        /\ o.s.note = p.note
    BY <1>1, <2>2, ZenonT(60) DEF Bridges
  <2>4. o.s.sock = TRUE /\ o.s.will = p.will /\ o.s.lazy = p.lazy
    BY <1>1, <2>2 DEF Bridges
  <2> QED
    BY <1>1, <2>2, <2>3, <2>4
<1>4. CASE o = [ok |-> FALSE, s |-> p]
  BY <1>1, <1>4
<1>5. CASE \E l \in 0..MaxLosses : o = [ok |-> FALSE, s |-> [p EXCEPT !.losses = l]]
  <2>1. PICK l \in 0..MaxLosses : o = [ok |-> FALSE, s |-> [p EXCEPT !.losses = l]]
    BY <1>5
  <2>2. o.ok = FALSE /\ o.s = [p EXCEPT !.losses = l]
    BY <2>1
  <2>3. o.s \in Bridges /\ o.s.state = p.state /\ o.s.index = p.index
        /\ o.s.note = p.note
    BY <1>1, <2>2 DEF Bridges
  <2>4. o.s.sock = p.sock /\ o.s.will = p.will /\ o.s.lazy = p.lazy
    BY <1>1, <2>2 DEF Bridges
  <2> QED
    BY <1>1, <2>2, <2>3, <2>4
<1> QED
  BY <1>2, <1>3, <1>4, <1>5

\* The address after a valid one is valid, also after the last one.
LEMMA NextAddressType == \A a \in Addresses : NextAddress(a) \in Addresses
BY BridgeAssumption DEF NextAddress, Addresses

\* A disconnect mends a context that has lost its socket.
LEMMA DisconnectSound ==
    ASSUME NEW s \in Bridges, Told(s), WishFounded(s), IndexCurrent(s)
    PROVE  do_disconnect(s) \in Bridges /\ Sound(do_disconnect(s))
<1> DEFINE d == do_disconnect(s)
<1>1. /\ d \in Bridges
      /\ d.state = "disconnected"
      /\ s.state = "disconnected" => d = s
      /\ s.state # "disconnected" => d.sock = FALSE
      /\ s.state # "disconnected" => d.note = IF s.will THEN "0" ELSE s.note
      /\ d.index = s.index /\ d.lazy = s.lazy
      /\ d.n0 = s.n0 /\ d.n12 = s.n12
  BY DisconnectResult
<1> HIDE DEF d
<1>2. CASE s.state = "disconnected"
  BY <1>1, <1>2 DEF Sound, HasSocket, d
<1>3. CASE s.state # "disconnected"
  <2>1. d.note = "0" /\ d.sock = FALSE
    BY <1>1, <1>3 DEF Told
  <2> QED
    BY <1>1, <2>1 DEF Sound, HasSocket, Told, WishFounded, IndexCurrent, d
<1> QED
  BY <1>2, <1>3

\* An attempt to connect leaves a sound context, apart from its index.
LEMMA ConnectSound ==
    ASSUME NEW s \in Bridges, NEW o \in mqtt3_bridge_connect(s)
    PROVE  /\ o.s \in Bridges
           /\ Told(o.s) /\ WishFounded(o.s) /\ HasSocket(o.s)
BY ConnectResult DEF Told, WishFounded, HasSocket

\* The fields the invariant speaks of.
Same(s, t) ==
    /\ t.state = s.state /\ t.note = s.note /\ t.will = s.will
    /\ t.lazy = s.lazy /\ t.n0 = s.n0 /\ t.n12 = s.n12

\* The write-out of a context that entered the pass with a socket, which the
\* keepalive or the probe may have taken.
LEMMA WriteOutSound ==
    ASSUME NEW s \in Bridges, Told(s), ~s.lazy, s.index = "none",
           NEW p \in WriteOut(s)
    PROVE  p \in Bridges /\ Sound(p)
<1>1. CASE s.sock /\ p = [s EXCEPT !.index = "own"]
  <2>1. p \in Bridges /\ p.index = "own" /\ p.sock = s.sock /\ Same(s, p)
    BY <1>1 DEF Bridges, Same
  <2> QED
    BY <1>1, <2>1 DEF Same, Sound, Told, WishFounded, IndexCurrent, HasSocket
<1>2. CASE \E l \in 0..MaxLosses : p = do_disconnect([s EXCEPT !.losses = l])
  <2>1. PICK l \in 0..MaxLosses : p = do_disconnect([s EXCEPT !.losses = l])
    BY <1>2
  <2> DEFINE t == [s EXCEPT !.losses = l]
  <2>2. t \in Bridges /\ t.index = "none" /\ Same(s, t)
    BY DEF Bridges, Same
  <2> HIDE DEF t
  <2>3. Told(t) /\ WishFounded(t) /\ IndexCurrent(t)
    BY <2>2 DEF Same, Told, WishFounded, IndexCurrent
  <2> QED
    BY <2>1, <2>2, <2>3, DisconnectSound DEF t
<1>3. CASE p = do_disconnect(s)
  BY <1>3, DisconnectSound DEF WishFounded, IndexCurrent
<1> QED
  BY <1>1, <1>2, <1>3 DEF WriteOut

\* The first half of a pass of the main loop.
LEMMA PolledSound ==
    ASSUME NEW s \in Bridges, Sound(s), NEW p \in Polled(s)
    PROVE  /\ p \in Bridges /\ Told(p) /\ WishFounded(p) /\ HasSocket(p)
           /\ p.sock => IndexCurrent(p)
           /\ ~s.sock => ~p.sock /\ Same(s, p)
<1>1. CASE s.sock
  <2> DEFINE t == [s EXCEPT !.index = "none"]
             u == check_keepalive(t)
             v == probe(u)
  <2>1. t \in Bridges /\ t.index = "none" /\ Same(s, t)
    BY DEF Bridges, Same
  <2> HIDE DEF t
  <2>2. u \in Bridges /\ u.index = "none" /\ Same(s, u)
    <3>1. /\ [t EXCEPT !.sock = FALSE] \in Bridges
          /\ [t EXCEPT !.sock = FALSE].index = "none"
          /\ Same(t, [t EXCEPT !.sock = FALSE])
      BY <2>1 DEF Bridges, Same
    <3>2. u \in {t, [t EXCEPT !.sock = FALSE]}
      BY DEF check_keepalive
    <3> QED
      BY <2>1, <3>1, <3>2 DEF Same
  <2> HIDE DEF u
  <2>3. v \in Bridges /\ v.index = "none" /\ Same(s, v)
    <3>1. address_count - 1 \in Addresses
      BY BridgeAssumption DEF Addresses
    <3>2. \/ v = u
          \/ v = [u EXCEPT !.sock = FALSE, !.cur = address_count - 1]
      BY DEF probe
    <3>3. CASE v = u
      BY <2>2, <3>3
    <3>4. CASE v = [u EXCEPT !.sock = FALSE, !.cur = address_count - 1]
      <4> HIDE DEF v
      <4> QED
        BY <2>2, <3>1, <3>4 DEF Bridges, Same
    <3> QED
      BY <3>2, <3>3, <3>4
  <2> HIDE DEF v
  <2>4. Told(v) /\ ~v.lazy
    BY <1>1, <2>3 DEF Sound, WishFounded, Told, Same
  <2>5. p \in WriteOut(v)
    BY <1>1 DEF Polled, t, u, v
  <2> QED
    BY <1>1, <2>3, <2>4, <2>5, WriteOutSound DEF Sound
<1>2. CASE ~s.sock
  <2>1. p = [s EXCEPT !.index = IF s.index = "own" THEN "stale" ELSE s.index]
    BY <1>2 DEF Polled
  <2>2. p \in Bridges /\ p.sock = s.sock /\ Same(s, p)
    BY <2>1 DEF Bridges, Same
  <2> QED
    BY <1>2, <2>2 DEF Sound, Told, WishFounded, HasSocket, Same
<1> QED
  BY <1>1, <1>2

\* The second half: only the wish of a lazy bridge, or the timer of an
\* automatic one, brings a socket back, and the latter with an entry of its
\* own.
LEMMA RestartedSound ==
    ASSUME cfg \in Configs,
           NEW s \in Bridges, Told(s), WishFounded(s), HasSocket(s),
           s.sock => IndexCurrent(s),
           NEW r \in Restarted(s)
    PROVE  /\ r \in Bridges /\ Sound(r)
           /\ cfg.start = "lazy" /\ ~s.sock /\ r.sock => s.lazy
<1> USE DEF Sound
<1>1. CASE r = s
  BY <1>1 DEF IndexCurrent
<1>2. CASE ~s.sock /\ r = RestartLater(s)
  <2>1. NextAddress(s.cur) \in Addresses
    BY NextAddressType DEF Bridges
  <2>2. r \in Bridges /\ r.sock = s.sock /\ Same(s, r)
    BY <1>2, <2>1 DEF RestartLater, Moved, Bridges, Same
  <2> QED
    BY <1>2, <2>2 DEF Told, WishFounded, IndexCurrent, HasSocket, Same
<1>3. CASE cfg.start = "lazy" /\ s.lazy /\ r \in RestartLazy(s)
  <2>1. PICK o \in mqtt3_bridge_connect(s) : r = IF o.ok THEN o.s ELSE Moved(o.s)
    BY <1>3 DEF RestartLazy
  <2>2. o.s \in Bridges /\ Told(o.s) /\ WishFounded(o.s) /\ HasSocket(o.s)
    BY ConnectSound
  <2>3. NextAddress(o.s.cur) \in Addresses
    BY <2>2, NextAddressType DEF Bridges
  <2>4. r \in Bridges /\ r.sock = o.s.sock /\ Same(o.s, r)
    BY <2>1, <2>2, <2>3 DEF Moved, Bridges, Same
  <2> QED
    BY <1>3, <2>2, <2>4 DEF Told, WishFounded, IndexCurrent, HasSocket, Same
<1>4. CASE cfg.start = "automatic" /\ r \in RestartAutomatic(s)
  <2> DEFINE t == [s EXCEPT !.restart = "none"]
  <2>1. t \in Bridges
    BY DEF Bridges
  <2>2. PICK o \in mqtt3_bridge_connect(t) :
           r = IF o.ok THEN [o.s EXCEPT !.index = "own"]
                       ELSE [Moved(o.s) EXCEPT !.restart = "waiting"]
    BY <1>4 DEF RestartAutomatic
  <2> HIDE DEF t
  <2>3. /\ o.s \in Bridges /\ Told(o.s) /\ WishFounded(o.s) /\ HasSocket(o.s)
        /\ o.s.sock = o.ok
    BY <2>1, ConnectSound, ConnectResult
  <2>4. NextAddress(o.s.cur) \in Addresses
    BY <2>3, NextAddressType DEF Bridges
  <2>5. r \in Bridges /\ r.sock = o.s.sock /\ Same(o.s, r)
    BY <2>2, <2>3, <2>4 DEF Moved, Bridges, Same
  <2>6. r.sock => r.index = "own"
    BY <2>2, <2>3, <2>5 DEF Bridges
  <2> QED
    BY <1>4, <2>3, <2>5, <2>6 DEF Told, WishFounded, IndexCurrent, HasSocket, Same
<1> QED
  BY <1>1, <1>2, <1>3, <1>4 DEF Restarted
-----------------------------------------------------------------------------
\* mqtt3_bridge_new leaves a sound context, with the messages of the
\* persistence file or without.
LEMMA NewSound ==
    ASSUME cfg \in Configs, NEW queued \in 0..max_queued,
           NEW n \in mqtt3_bridge_new(queued)
    PROVE  n \in Bridges /\ Sound(n)
<1> DEFINE s == [cur |-> 0, state |-> "new", sock |-> FALSE, index |-> "none",
                 restart |-> "none", retry |-> FALSE, overdue |-> FALSE,
                 lazy |-> FALSE, private |-> TRUE, will |-> FALSE,
                 note |-> "0", n0 |-> 0, n12 |-> queued, losses |-> 0]
<1>1. /\ 0 \in Addresses /\ 0 \in 0..MaxZero /\ 0 \in 0..MaxLosses
      /\ queued \in 0..(max_inflight + max_queued)
  BY BridgeAssumption DEF Addresses
<1>2. s \in Bridges /\ s.index = "none"
  BY <1>1 DEF Bridges
<1>3. PICK o \in mqtt3_bridge_connect(s) : n = o.s
  BY DEF mqtt3_bridge_new
<1> HIDE DEF s
<1>4. IndexCurrent(n)
  BY <1>2, <1>3, ConnectResult DEF IndexCurrent
<1> QED
  BY <1>2, <1>3, <1>4, ConnectSound DEF Sound

\* The steps that take only a disconnect, or leave what the invariant is about.
LEMMA QuietSound ==
    ASSUME NEW s \in Bridges, Sound(s), NEW t \in Bridges,
           t.sock = s.sock, t.index = s.index, Same(s, t)
    PROVE  Sound(t) /\ Sound(do_disconnect(t)) /\ do_disconnect(t) \in Bridges
<1>1. Sound(t)
  BY DEF Sound, Told, WishFounded, IndexCurrent, HasSocket, Same
<1> QED
  BY <1>1, DisconnectSound DEF Sound

LEMMA BridgeInvInit == Init => TypeOK /\ BridgeInv
<1> SUFFICES ASSUME Init PROVE TypeOK /\ BridgeInv
  OBVIOUS
<1>1. b \in Bridges /\ Sound(b)
  BY NewSound DEF Init
<1>2. changes \in 0..MaxChanges /\ remote \in [Addresses -> Kinds]
  BY BridgeAssumption DEF Init
<1> QED
  BY <1>1, <1>2 DEF Init, TypeOK, BridgeInv, PollEntryOwn

LEMMA BridgeInvNext == TypeOK /\ BridgeInv /\ [Next]_vars => TypeOK' /\ BridgeInv'
<1> SUFFICES ASSUME TypeOK, BridgeInv, [Next]_vars
             PROVE  TypeOK' /\ BridgeInv'
  OBVIOUS
<1>0. b \in Bridges /\ Sound(b) /\ cfg \in Configs
  BY DEF TypeOK, BridgeInv
\* The invariant speaks of cfg, which no step changes.
<1>a. ASSUME cfg' = cfg, b' \in Bridges, Sound(b')
      PROVE  Sound(b)'
  BY <1>a DEF Sound, Told, WishFounded, IndexCurrent, HasSocket
<1>b. ASSUME Step, b' \in Bridges, Sound(b')
      PROVE  TypeOK' /\ BridgeInv'
  BY <1>a, <1>b DEF Step, TypeOK, BridgeInv, PollEntryOwn
<1>c. ASSUME Step, b' \in Bridges, Same(b, b'), b'.sock = b.sock,
             b'.index = b.index
      PROVE  TypeOK' /\ BridgeInv'
  BY <1>0, <1>b, <1>c, QuietSound
<1>1. CASE mosquitto_main_loop
  <2>1. PICK p \in Polled(b) : b' \in Restarted(p)
    BY <1>1 DEF mosquitto_main_loop
  <2>2. /\ p \in Bridges /\ Told(p) /\ WishFounded(p) /\ HasSocket(p)
        /\ p.sock => IndexCurrent(p)
    BY <1>0, PolledSound
  <2>3. b' \in Bridges /\ Sound(b')
    BY <1>0, <2>1, <2>2, RestartedSound
  <2>4. cfg.start # "lazy" => aborted' = FALSE
    BY <1>1, <2>3 DEF mosquitto_main_loop, Sound, IndexCurrent
  <2>5. aborted' \in BOOLEAN
    BY <1>1 DEF mosquitto_main_loop
  <2> QED
    BY <1>1, <1>a, <2>3, <2>4, <2>5
    DEF mosquitto_main_loop, TypeOK, BridgeInv, PollEntryOwn
<1>2. CASE restart_timeout \/ primary_retry \/ keepalive \/ idle_timeout
  BY <1>0, <1>2, <1>c, ZenonT(60)
  DEF restart_timeout, primary_retry, keepalive, idle_timeout, Bridges, Same
<1>3. CASE pending_done
  <2>1. b' = [b EXCEPT !.state = "new"] /\ b.state = "connect_pending"
    BY <1>3 DEF pending_done
  <2>2. /\ b' \in Bridges /\ b'.state = "new" /\ b'.note = b.note
        /\ b'.will = b.will /\ b'.lazy = b.lazy /\ b'.sock = b.sock
        /\ b'.index = b.index /\ b'.n0 = b.n0 /\ b'.n12 = b.n12
    BY <1>0, <2>1 DEF Bridges
  <2>3. Sound(b')
    BY <1>0, <2>1, <2>2 DEF Sound, Told, WishFounded, IndexCurrent, HasSocket
  <2> QED
    BY <1>3, <1>b, <2>2, <2>3 DEF pending_done, Event
<1>4. CASE pending_failed \/ ExpireBridge
  BY <1>0, <1>4, <1>b, DisconnectSound
  DEF pending_failed, Event, ExpireBridge, Sound
<1>5. CASE mqtt3_handle_connack
  <2>1. CASE b' = [b EXCEPT !.state = "connected", !.note = "1"]
    <3>1. /\ b' \in Bridges /\ b'.state = "connected" /\ b'.note = "1"
          /\ b'.will = b.will /\ b'.lazy = b.lazy /\ b'.sock = b.sock
          /\ b'.index = b.index /\ b'.n0 = b.n0 /\ b'.n12 = b.n12
      BY <1>0, <2>1 DEF Bridges
    <3>2. b.state = "new" /\ b.sock
      BY <1>5 DEF mqtt3_handle_connack, Event
    <3>3. Sound(b')
      BY <1>0, <3>1, <3>2 DEF Sound, Told, WishFounded, IndexCurrent, HasSocket
    <3> QED
      BY <1>5, <1>b, <3>1, <3>3 DEF mqtt3_handle_connack, Event
  <2>2. CASE b' = do_disconnect([b EXCEPT !.private =
                                    b.private /\ remote[b.cur] # "old"])
    <3> DEFINE t == [b EXCEPT !.private = b.private /\ remote[b.cur] # "old"]
    <3>1. t \in Bridges /\ Same(b, t) /\ t.sock = b.sock /\ t.index = b.index
      BY <1>0 DEF Bridges, Same
    <3> HIDE DEF t
    <3> QED
      BY <1>0, <1>5, <1>b, <2>2, <3>1, QuietSound DEF mqtt3_handle_connack, Event, t
  <2> QED
    BY <1>5, <2>1, <2>2 DEF mqtt3_handle_connack
<1>6. CASE connection_lost
  <2> DEFINE t == [b EXCEPT !.losses = b.losses + 1]
  <2>1. b.losses + 1 \in 0..MaxLosses
    BY <1>0, <1>6, BridgeAssumption DEF connection_lost, Bridges
  <2>2. t \in Bridges /\ Same(b, t) /\ t.sock = b.sock /\ t.index = b.index
    BY <1>0, <2>1 DEF Bridges, Same
  <2> HIDE DEF t
  <2> QED
    BY <1>0, <1>6, <1>b, <2>2, QuietSound DEF connection_lost, Event, t
<1>7. CASE \E qos \in {0, 1} : mqtt3_db_message_insert(qos)
  <2>1. PICK qos \in {0, 1} : mqtt3_db_message_insert(qos)
    BY <1>7
  <2> DEFINE n0 == IF qos = 0 THEN b.n0 + 1 ELSE b.n0
             n12 == IF qos = 0 THEN b.n12 ELSE b.n12 + 1
             lazy == b.lazy \/ (/\ cfg.start = "lazy" /\ ~b.sock
                                /\ n0 + n12 >= threshold)
  <2>2. /\ Step /\ Kept(qos) /\ n0 <= MaxZero
        /\ b' = [b EXCEPT !.n0 = n0, !.n12 = n12, !.lazy = lazy]
    BY <2>1 DEF mqtt3_db_message_insert
  <2>3. b.n0 \in 0..MaxZero /\ b.n12 \in 0..(max_inflight + max_queued)
    BY <1>0 DEF Bridges
  <2>4. /\ n0 \in 0..MaxZero /\ n12 \in 0..(max_inflight + max_queued)
        /\ n0 + n12 >= b.n0 + b.n12
    BY <2>2, <2>3, BridgeAssumption DEF Kept
  <2>5. lazy \in BOOLEAN
    BY <1>0 DEF Bridges
  <2>6. lazy => ~b.sock /\ n0 + n12 >= threshold
    <3>1. CASE b.lazy
      <4>1. ~b.sock /\ b.n0 + b.n12 >= threshold
        BY <1>0, <3>1 DEF Sound, WishFounded
      <4> QED
        BY <2>3, <2>4, <4>1, BridgeAssumption
    <3> QED
      BY <3>1
  <2> HIDE DEF n0, n12, lazy
  <2>7. /\ b' \in Bridges /\ b'.state = b.state /\ b'.note = b.note
        /\ b'.will = b.will /\ b'.lazy = lazy /\ b'.sock = b.sock
        /\ b'.index = b.index /\ b'.n0 = n0 /\ b'.n12 = n12
    BY <1>0, <2>2, <2>4, <2>5 DEF Bridges
  <2>8. Sound(b')
    BY <1>0, <2>6, <2>7 DEF Sound, Told, WishFounded, IndexCurrent, HasSocket
  <2> QED
    BY <1>b, <2>2, <2>7, <2>8
<1>8. CASE mqtt3_db_message_delete
  <2>1. b.sock /\ ~b.lazy
    BY <1>0, <1>8 DEF mqtt3_db_message_delete, Sound, HasSocket, WishFounded
  <2>2. PICK n0 \in 0..MaxZero, n12 \in 0..(max_inflight + max_queued) :
           b' = [b EXCEPT !.n0 = n0, !.n12 = n12]
    <3>1. /\ b.n0 \in 0..MaxZero /\ b.n12 \in 0..(max_inflight + max_queued)
          /\ [b EXCEPT !.n0 = b.n0] = b /\ [b EXCEPT !.n12 = b.n12] = b
      BY <1>0 DEF Bridges
    <3>2. CASE b.n0 > 0 /\ b' = [b EXCEPT !.n0 = b.n0 - 1]
      <4>1. b.n0 - 1 \in 0..MaxZero
        BY <3>1, <3>2, BridgeAssumption
      <4>2. b' = [b EXCEPT !.n0 = b.n0 - 1, !.n12 = b.n12]
        BY <1>0, <3>2 DEF Bridges
      <4> QED
        BY <3>1, <4>1, <4>2
    <3>3. CASE b.n12 > 0 /\ b' = [b EXCEPT !.n12 = b.n12 - 1]
      <4>1. b.n12 - 1 \in 0..(max_inflight + max_queued)
        BY <3>1, <3>3, BridgeAssumption
      <4>2. b' = [b EXCEPT !.n0 = b.n0, !.n12 = b.n12 - 1]
        BY <3>1, <3>3
      <4> QED
        BY <3>1, <4>1, <4>2
    <3> QED
      BY <1>8, <3>2, <3>3 DEF mqtt3_db_message_delete
  <2>3. /\ b' \in Bridges /\ b'.state = b.state /\ b'.note = b.note
        /\ b'.will = b.will /\ b'.lazy = b.lazy /\ b'.sock = b.sock
        /\ b'.index = b.index
    BY <1>0, <2>2 DEF Bridges
  <2>4. Sound(b')
    BY <1>0, <2>1, <2>3 DEF Sound, Told, WishFounded, IndexCurrent, HasSocket
  <2> QED
    BY <1>8, <1>b, <2>3, <2>4 DEF mqtt3_db_message_delete
<1>9. CASE \E a \in Addresses, kind \in Kinds : remote_changes(a, kind)
  BY <1>9, BridgeAssumption
  DEF remote_changes, TypeOK, BridgeInv, PollEntryOwn, Sound, Told, WishFounded,
      IndexCurrent, HasSocket
<1>10. CASE UNCHANGED vars
  BY <1>10 DEF vars, TypeOK, BridgeInv, PollEntryOwn, Sound, Told, WishFounded,
               IndexCurrent, HasSocket
<1> QED
  BY <1>1, <1>2, <1>3, <1>4, <1>5, <1>6, <1>7, <1>8, <1>9, <1>10 DEF Next

LEMMA BridgeInvariant == Spec => [](TypeOK /\ BridgeInv)
BY BridgeInvInit, BridgeInvNext, PTL DEF Spec

\* cur_address is the index of an address and the list keeps to its limits,
\* through every restart, move and probe.
THEOREM TypeCorrect == Spec => []TypeOK
BY BridgeInvariant, PTL

\* The retained notification of the bridge's state is true in every state
\* between two steps, whichever way a connection came and went.
THEOREM NotificationAlwaysTrue == Spec => []NotificationTrue
<1>1. TypeOK /\ BridgeInv => NotificationTrue
  BY DEF BridgeInv, Sound, Told, NotificationTrue
<1> QED
  BY <1>1, BridgeInvariant, PTL

\* The assertion on the poll array holds for every bridge that is not lazy.
THEOREM PollEntryAlwaysOwn == Spec => []PollEntryOwn
<1>1. TypeOK /\ BridgeInv => PollEntryOwn
  BY DEF BridgeInv
<1> QED
  BY <1>1, BridgeInvariant, PTL

\* No step gives a lazy bridge its socket back before its list has reached the
\* threshold.
THEOREM LazyWaits == Spec => LazyWaitsForThreshold
<1> DEFINE Waits == cfg.start = "lazy" /\ ~b.sock /\ b'.sock
                       => b.n0 + b.n12 >= threshold
<1>1. TypeOK /\ BridgeInv /\ [Next]_vars => [Waits]_vars
  <2> SUFFICES ASSUME TypeOK, BridgeInv, Next,
                      cfg.start = "lazy", ~b.sock, b'.sock
               PROVE  b.n0 + b.n12 >= threshold
    OBVIOUS
  <2>0. b \in Bridges /\ Sound(b) /\ cfg \in Configs
    BY DEF TypeOK, BridgeInv
  <2>1. CASE mosquitto_main_loop
    <3>1. PICK p \in Polled(b) : b' \in Restarted(p)
      BY <2>1 DEF mosquitto_main_loop
    <3>2. /\ p \in Bridges /\ Told(p) /\ WishFounded(p) /\ HasSocket(p)
          /\ p.sock => IndexCurrent(p)
          /\ ~p.sock /\ Same(b, p)
      BY <2>0, PolledSound
    <3>3. b' \in Restarted(p) /\ b'.sock
      BY <3>1
    <3>4. p.lazy
      BY <2>0, <3>2, <3>3, RestartedSound
    <3> QED
      BY <3>2, <3>4 DEF Same, WishFounded
  <2>2. CASE restart_timeout \/ primary_retry \/ pending_done
    <3>1. b'.sock = b.sock
      BY <2>0, <2>2 DEF restart_timeout, primary_retry, pending_done, Bridges
    <3> QED
      BY <3>1
  <2>3. CASE ExpireBridge
    <3>1. b'.sock = b.sock \/ b'.sock = FALSE
      BY <2>0, <2>3, DisconnectResult DEF ExpireBridge
    <3> QED
      BY <3>1
  <2>4. CASE \E qos \in {0, 1} : mqtt3_db_message_insert(qos)
    <3>1. b'.sock = b.sock
      BY <2>0, <2>4 DEF mqtt3_db_message_insert, Bridges
    <3> QED
      BY <3>1
  <2>5. CASE mqtt3_db_message_delete
    <3>1. b'.sock = b.sock
      BY <2>0, <2>5 DEF mqtt3_db_message_delete, Bridges
    <3> QED
      BY <3>1
  <2>6. CASE \E a \in Addresses, kind \in Kinds : remote_changes(a, kind)
    BY <2>6 DEF remote_changes
  <2> QED
    BY <2>1, <2>2, <2>3, <2>4, <2>5, <2>6
    DEF Next, keepalive, idle_timeout, pending_failed, mqtt3_handle_connack,
        connection_lost, Event
<1> QED
  BY <1>1, BridgeInvariant, PTL DEF Spec, LazyWaitsForThreshold
=============================================================================
