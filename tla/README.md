# Verification of the Wiren Board firmware

TLA+ models of the parts of this repository whose behaviour depends on order,
failure and concurrency, the TLC runs that check them on small instances, and
proofs checked by TLAPS. All paths below are relative to the repository root;
`MQ/` stands for `contrib/deb/mosquitto/mosquitto-1.4.2/`.

## 1. Inventory

The repository builds and updates the firmware of Wiren Board controllers and
packages the MQTT broker their services talk through.

| Component | Keeps | Operations | Hard because |
| --- | --- | --- | --- |
| A/B firmware update, `image/install_update.sh` | two root partitions, U-Boot variables `mmcpart` and `upgrade_available`, the waiting `.fit` | check, choose target, format, clean, extract, certificates, postinst, switch, reboot | power loss between any two commands, unsynced writes, commands that fail, repeated updates, two places it runs from |
| Root file system build, `rootfs/*.sh` | cached base tarball, chroot with mounts, output directory | debootstrap or unpack, install, clean up in a trap | interruption, partial cache, builds side by side |
| Update and SD image creation, `image/create_*.sh` | `.img` and `.fit` in the output directory | pack a finished root file system | reuse of what an interrupted run left |
| Broker: message list, `MQ/src/database.c`, `MQ/src/context.c` | per client: list of messages with their handshake state, `msg_count12`, `last_mid`; shared: `msg_store` with reference counts | insert, delete, update, release, write, retry, reset on reconnect | both directions share list and window, retries race answers, the list outlives its context |
| Broker: packet handlers, `MQ/src/read_handle*.c`, `MQ/lib/read_handle_shared.c` | the context | one per packet type | order of packets, takeovers, denied messages |
| Broker: main loop, `MQ/src/loop.c` | poll array, timers | write pass, read pass, retry check, keepalive, expiry, autosave, reload, bridge restarts | failure in the middle of a pass |
| Broker: subscriptions and retained messages, `MQ/src/subs.c` | tree of topic levels | add, remove, search, retain | wildcards, empty levels, `$` topics, pruning |
| Broker: persistence, `MQ/src/persist.c` | database file | save, restore | crash between and during saves, dangling numbers |
| Broker: bridges, `MQ/src/bridge.c` | restart timers, address index, own poll entry | connect, probe, restart, notify | lost connections, brokers that come and go |
| Broker: configuration and security, `MQ/src/conf.c`, `MQ/src/security_default.c` | ACL and password lists, pointers into them from contexts | load, check, reload | reload under connected clients, errors half way |
| Client library, messages, `MQ/lib/messages_mosq.c` | two linked lists, in-flight window | publish, handlers, retry, reconnect | lists repaired by hand, broken connections |
| Client library, network, `MQ/lib/net_mosq.c`, `MQ/lib/mosquitto.c`, `MQ/lib/thread_mosq.c` | packet queue, packet being read, socket pair | queue, write, read, reconnect | two threads, partial reads and writes |
| Development environment, release CI, flashing scripts, board files, examples | nothing that outlives a call | linear scripts | |

Interactions: the update script is started by `wb-run-update` (external), reads
and writes the U-Boot environment that U-Boot reads at the next boot, and its
result is the system the next update runs from; the `.fit` it installs comes
from the build. In the broker every packet handler works on the list of the
context it was read from; a publish reaches other contexts' lists through
`mqtt3_db_messages_queue`; the main loop writes each list out, runs the retry
timer over all of them, saves the database and restarts bridges. The client
library is the other end of the same handshakes and shares
`read_handle_shared.c`, `net_mosq.c` and `send_mosq.c` with the broker.

What makes them correct: the update never destroys the system in use and never
selects one that cannot boot; an image that is handed out is finished; the
broker loses no acknowledged message, duplicates no QoS 2 message, sends each
message to the clients whose filters match, keeps its limits and keeps every
queue moving; a restart brings back what was saved; access is what the files in
force say. `PROJECT.json` lists every component, and under `hazards` the lines
where these can go wrong.

## 2. Modules

| Module | Models | Checked through |
| --- | --- | --- |
| `FirmwareUpdate` | `image/install_update.sh`, power loss, boot | `MCTwoControllers`, `MCFirmwareUpdate`, `FirmwareUpdateProofs` |
| `ABUpdate` | what an A/B update promises; implemented by `FirmwareUpdate` | `MCTwoControllers`, `FirmwareUpdateProofs` |
| `ImageBuild` | `rootfs/create_rootfs.sh`, `rootfs/rootfs_env.sh`, `image/create_images.sh` and the scripts it calls | `MCImageBuild`, `ImageBuildProofs` |
| `BrokerSession` | one persistent session of the broker and its client | `MCBrokerSession`, `MCBrokerSessionLoss`, `BrokerSessionProofs` |
| `Topics` | topic strings: checks, matcher | `SubscriptionTree`, `AccessControl` |
| `SubscriptionTree` | the tree of `subs.c`, its save and restore | `MCSubscriptionTree` |
| `BrokerStore` | the database all clients share: store, contexts, takeover, wills, retained messages | `Persistence`, `BrokerStoreProofs` |
| `Persistence` | `BrokerStore` composed with its file, saves, crashes, restarts | `MCPersistence`, `PersistenceProofs` |
| `AccessControl` | password and ACL files, CONNECT, checks, reload | `MCAccessControl`, `AccessControlProofs` |
| `Bridge` | one bridge | `MCBridge`, `BridgeProofs` |
| `ClientMessages` | the message lists of the client library and a broker | `MCClientMessages` |
| `ClientNetwork` | the packet queue, the network thread and the reader at the other end | `MCClientNetwork`, `ClientNetworkProofs` |

### FirmwareUpdate and ABUpdate

One action per stage of the script, named after the stage; `pc` is the next
stage. `view` is what the running kernel sees of a partition, `disk` what a
power loss would leave; a `sync` or an orderly reboot makes them equal, and a
power loss keeps, per partition, either of them (`Survives`). Deleting a tree
makes the disk content `torn` at once, because deletions reach the disk in any
order. `MayFail` is the set of commands that may fail on the controller,
`AllowedFlags` the flags an update may be started with, `DevRoot` whether the
running system has the `/dev/root` link. `set -e` and `die` are `Exit`.

`ABUpdate` has no partitions, stages or caches: the release a controller boots
changes in one step to the one offered, with consent if that goes back a Debian
release, the offer is withdrawn only afterwards, and the old system is left.
`Promise == INSTANCE ABUpdate WITH ...` maps a tree that is incomplete on disk
to no release, so any step that made an incomplete tree bootable would not be a
step of `ABUpdate`. Its `SafetySpec` is the specification without fairness.

`MCTwoControllers` has two instances, one dependable and one on which anything
may fail; a behaviour follows one of them, so that each property is checked
where it is to hold.

Left out: the mount table, progress and LED output, the wording of messages,
the certificate files. External: `wb-run-update` and its helpers
(`StartUpdate`), the arrival of a `.fit` (`ProvideFit`), U-Boot (`Boot`), power
(`PowerLoss`). U-Boot's fall back when `upgrade_available` is set is not in the
repository and not modelled.

### ImageBuild

Builds of several boards in one checkout, each at a stage `pc[b]` of
`create_rootfs.sh` and then of `create_images.sh`. A tree is the set of package
groups it has and the marks the build left in it (policy-rc.d, the host's name,
additional repositories); a file is such a tree, and whole or torn. `Fail` ends
a build through its EXIT trap, `Kill` without it. Boards with the same
architecture and repositories have the same key and so the same base tarball.
`CreateImages` follows a finished build, as in `ci/image_from_releases_yaml.sh`;
that is the caller's order, not a check of `create_images.sh`.
The packages themselves, partition tables and FIT nodes are left out.

### BrokerSession

One client with `clean_session = false`. `msgs` is `context->msgs`; a record's
`ord` is its place in the linked list. Actions are the packet handlers, the
write pass (`mqtt3_db_message_write`, `message_write_fails`), the retry check,
the disconnect and the takeover at CONNECT; the operators they are made of have
the names of the functions in `database.c`. Three details of the code that
matter are kept as they are: `mqtt3_db_message_delete` does not count the
deleted message in its index and `mqtt3_db_message_release` does;
`mqtt3_db_message_write` counts a resumed incoming message twice; the ACL check
at CONNECT adjusts neither `msg_count12` nor `last_msg`. After the latter has
freed the tail, an appended message is counted but cannot be reached
(`dangling`): the freed memory may also have been reused, with consequences
outside this session that are not modelled.

The client follows the protocol: it answers every packet, keeps the ids of
unreleased QoS 2 messages, and after a reconnect resends what it had not
finished. The connection is a FIFO in each direction that may break; packets
under way are then lost. Other clients appear as the source of outgoing
messages (`subs_process`) and the sink of incoming ones (`forwarded`).

Abstractions: the main loop reads and writes a client in any order, where the
code alternates them; the retry interval may have passed for any subset of the
messages; a denied message is one of the set `Denied`, whatever the reason.
Left out here: wills, expiry, clean sessions and reference counts (in
`BrokerStore`), QoS 0 from the client, `queue_qos0_messages`.

### Topics and SubscriptionTree

Strings are sequences of characters, because the matcher of `util_mosq.c` walks
them character by character and is wrong, if anywhere, at the last ones.
`Matches` is the reference definition, level by level. In `SubscriptionTree` a
node is its path; `children` keeps the order of the linked list. Subscribing,
unsubscribing, cleaning a session, publishing a retained message and a restart
(the tree written to the persistence file and read back) are the actions; what
a search finds is compared with `Matches` in every reachable tree; for retained
messages that is the tree with the new subscription in it (`RetainedFor`), which
is the one `mqtt3_handle_subscribe` searches.

### BrokerStore and Persistence

The database is one record and every C function that changes it an operator
from database to database. Contexts are the memory they live in, so that a
pointer to a freed one can be told from a pointer to its successor. Messages
are in a list until their handshake is over; topics are compared as a whole.
`Persistence` adds the file: the sequence of its chunks, perhaps cut in the
middle of one. A save goes to another name and is renamed without `fsync`, so a
power loss may cut the file afterwards, and a full disk cuts it unnoticed; a
broker that is killed while it saves leaves the old one. `owed` is a ghost: what routing has promised
to durable clients.

### AccessControl

A configuration is a sequence of options, a password or ACL file one of lines,
with the errors a line can have. `_acl_cleanup` and the parsers rebuild the
lists; contexts point into them by generation and index. `security_apply` is
the pass over connected clients at a reload, in the code's order of tests. Left
out: hashes, plugins, `use_identity_as_username`, PSK.

### Bridge

A pass of the main loop is one step as far as the bridge is concerned, from the
reset of its poll index to the assertion on it; timers, what `poll()` reports,
messages that are queued or delivered, and the brokers at its addresses take
steps in between. `Local` are addresses whose `connect()` returns at once;
others stay pending, as a non-blocking socket does. An attempt that fails while
pending leaves the code's context as it is until the next write or read on the
socket fails; `pending_failed` is both at once. Left out: topic remapping,
messages that come in, TLS, and the descriptors the probe leaks.

### ClientMessages

`struct mosquitto` as a record; the two lists are linked through `heap`, `next`,
`first` and `last` as in memory, because the code repairs these pointers by
hand and leaves some stale; after a reconnection with an incoming message and
no outgoing one the lists share their tail (`told.crossed`), and what is appended
behind a message that has been freed is in no list. The broker is external,
follows the protocol and may send a PUBLISH again. A `scenario` fixes the
window, the messages and the faults of a behaviour.

### ClientNetwork

The application's threads in `_mosquitto_packet_queue`, the network thread in
`mosquitto_loop_forever`, `_mosquitto_reconnect` and `_mosquitto_packet_write`,
step by step between locks, and the reader of `_mosquitto_packet_read` at the
other end, byte by byte. `Radix` stands for the 128 of the remaining length.
`Left` is what `_mosquitto_packet_alloc` has left of the length before each
byte, `Digits` the number of bytes that makes, and a packet with five does not
fit; the body of the CONNECT, made of strings with 16-bit lengths, always does
(`HelloFits`).

## 3. Runs

| Run | Instance | Checks | Result |
| --- | --- | --- | --- |
| `update` | a controller with the failures the script catches and four flags, and one with all failures and all flags but `force-compatible` and `factoryreset`; `/dev/root` present; fairness | on the first `BootAlwaysComplete`, `RollbackNeedsFactoryReset`, `ImplementsABUpdate`, on the second `DegradedTypeOK`, `DegradedTargetIsInactive` | hold |
| `update_extract` | `tar` may fail | `BootAlwaysComplete` | violated |
| `build` | three boards, one base tarball, three builds, failures and kills | `ImagesFinished`, `TarballIsBase` | hold |
| `session_connected` | window 2, queue 3, three outgoing and two incoming messages, no loss, fairness | `NoDuplicateQos2`, `PubrecKnown`, `DeliveredBeforeForgotten`, `QueuedIsDelivered`, `HandshakeEnds` | hold |
| `session_loss` | window 1, queue 1; one scene with two losses and a denied message, one with four outgoing messages, ids 1 to 3 and one loss | `LimitsKept`, `OrderKept`, `ForwardedExactlyOnce` | hold |
| `tree` | two clients, six filters, five topics, two subscriptions, two retained messages, restarts | `TreeSound`, `ReceiversExact`, `RetainedFound`, `MatcherAgrees`, `PlainSubscriptionsSurvive` | hold |
| `store` | two clients, two contexts, two messages, a save, two starts; kill, power loss, full disk | `StoreExact`, `PointersValid`, `DurableSurvives`, `RestartIsFaithful` | hold |
| `client` | seven scenarios of two to four messages in one or both directions, losses, timeouts, repeats; fairness | `ListsSound`, `PublishedOnce`, `ReceivedOnce`, `LoopGoesOn`, `EverythingArrives` | hold |
| `client_repeat` | one incoming message, one loss | `NoMultipleCallbacks` | violated |
| `access` | two users, sixteen configurations, three loads, restarts | `PointersCurrent`, `AccessAsWritten`, `ReloadChecksUsers` | hold |
| `network` | one calling thread, three bodies up to the longest length, one loss; fairness | `HandledInOrder`, `LengthAgreed`, `QueuedLeaves` | hold |
| `bridge` | three addresses, all start types, two losses, two changes at the addresses; fairness | `NotificationTrue`, `PollEntryOwn`, `LazyWaitsForThreshold`, `AddressFound`, `PrimaryRegained` | hold |

`update_extract` shows that `( ... | tar || die ) | mqtt_progress` ends a
subshell, not the script: the partition with the incomplete tree is selected.

`client_repeat` shows that the PUBLISH of a QoS 2 message sent again after a
reconnection is queued beside the first, and `on_message` called for both,
which `lib/read_handle_shared.c:145-146` means to prevent. `ReceivedOnce`, which
holds, says that it is called no more often than the PUBLISH arrived.

### Known deviations

The code does the following; the models have it, and the runs above are set up
or the properties worded so that it is told apart from what they check. The
ones with a property in brackets can be seen by checking that property.

* Update. After `no-reboot` the old system runs with `mmcpart` switched; a second
  update overwrites the partition `mmcpart` selects, and a power loss then finds
  nothing to boot (`BootAlwaysComplete` with `no-reboot` allowed). An active root
  file system that does not mount in the initramfs passes the rollback guard.
* Session. With a window of two a reconnecting client's new context inherits
  the messages but starts ids at 1, so that a PUBACK for an inherited message
  deletes a new one that was never sent (`DeliveredBeforeForgotten` with
  `MaxLosses` 1). The reset at reconnect takes `resend_pubrel` for a message
  not yet received and publishes it again (`NoDuplicateQos2`). It also publishes queued
  incoming messages to their own publisher (`NoEcho`). With
  `max_inflight_messages 1` a PUBREL that empties the window does not promote
  the message queued behind it, and with a larger one it does not if messages of
  QoS 0 fill the list (`QueuedIsDelivered` with 0 in `OutQos`). A QoS 2 message
  that finds the list full is dropped without an answer. The ACL check at CONNECT
  may free the tail of the list and leave `last_msg` pointing at it
  (`ForwardedExactlyOnce` with a non-empty `Revocable`).
* Tree. A restart turns the subscription `/a` into `a` and `$SYS/#` into
  `$SYS/$SYS/#` (`SubscriptionsSurvive`); `persist.c:246-250`. The matcher and
  the tree differ for `x/#` against `x/` and `+/#` against `a`. The retained
  message on `a` may be left out for a new subscription to `+/#`, against
  `man/mqtt.7.xml:131-133` (`RetainedSent`): `_retain_search` finds `foo` for
  `foo/#` because `mqtt3_handle_subscribe` adds the subscription first, whose `#`
  branch is then a child of `foo`, but the one of `+/#` is below `+`, and `a` is
  found only if it has a child or is the last of its list (`subs.c:668-669`).
  Retained messages on `$other/...` are not stored.
* Store. A denied QoS 2 message that is queued has no topic, and a save that
  meets it ends the broker (`SaveCompletes`). Write errors in all sections but
  one are not looked at before the new file replaces the old. The will of a
  client that is taken over is not sent.
* Access. With `allow_anonymous true` a reload still disconnects anonymous
  clients if the password file lists anyone (`AnonymousStay`). An ACL file with patterns only
  leaves its patterns in force after a reload. Errors of a reload are ignored.
  Restored sessions have no user name until their client connects.
* Bridge. A lazy bridge keeps its poll index when its connection is closed by
  the peer; the next connection trips the assertion of `loop.c:464` and ends
  the broker (`AssertionHolds`). The probe of a primary whose `connect()` stays
  pending never succeeds, so the bridge stays with a secondary address, against
  `man/mosquitto.conf.5.xml:1104-1107` (`MainRegained` with `Local` empty), and a
  socket is left open in every pass. A primary that accepts connections and refuses CONNECT draws the
  bridge away from a good secondary for ever. A failed attempt clears
  `lazy_reconnect`; with a full queue nothing sets it again. A notification
  topic of its own says `1` before the connection exists.
  `persistent_client_expiration` treats a bridge as a client that is away.
* Client library. A queued message is counted twice in the in-flight window
  when it is promoted, so the window closes for good (`WindowMoves` with
  `WindowScenario`). A repeated QoS 2 PUBLISH is queued twice (`client_repeat`).
  `_mosquitto_messages_reconnect_reset` does not set `prev` back between its two
  lists (`messages_mosq.c:142`, `:195`): with an incoming message and no outgoing
  one, `out_messages_last` points into the incoming list, where the next publish
  is linked. A PUBACK does not find it, so it is never confirmed; a PUBREC
  returns `MOSQ_ERR_NOT_FOUND` and ends `mosquitto_loop_forever`, which is to
  handle lost connections (`mosquitto.h:730`; `LoopsForever` with
  `ListScenario`); a PUBREL with its id hands the client its own message; and
  a reconnection that removes the only message of the incoming list reads
  through a null pointer. The model has all of these; `told.crossed` says that
  it happened, and those properties of `client` that rest on the lists speak of
  behaviours without it. `mosquitto_publish` uses a message after
  unlocking its list. A PUBLISH queued by another thread between the connect of
  the socket and the queueing of CONNECT goes first, and the broker closes the
  connection (`ConnectFirst`). A `mosquitto_disconnect` during a reconnect is
  forgotten (`DisconnectEnds`).
* Build. A torn base tarball makes every later build fail until someone removes
  it. The key of the tarball lacks the board: a vendor's repository may be in it,
  and then stays in images of other boards, or may be missing, and then the
  build of the vendor's board ends. `create_images.sh` run by hand does not
  check that the build of the root file system had finished; after one that
  failed later than `wb-fw-version` it packs an unfinished tree. A failed repository check leaves an output directory that blocks the
  next try. The host's own mosquitto is stopped and restarted only on success.

### Bounds

Two partitions are all there are. Two Debian releases are the two the rollback
guard distinguishes. Updates, power losses and reboots are unbounded. For the
session, windows of one and two with queues of one and two make each of the
cases in flight, queued and dropped occur with a message on both sides of each
boundary; in `session_connected` the list has room for all messages. `LastMid` stands for 65535; 3 makes ids wrap, with a window and queue
small enough that a wrapped id is never still in use. `MaxPkts` bounds the
packets under way when a retry starts, and so the number of duplicates; two is
one duplicate beside the original. `MaxLosses` bounds broken connections;
reconnects after the broker closes a connection are not bounded.

The filters and topics of `tree` have every wildcard, an empty first and last
level, and `$` topics; two subscriptions beside two retained messages make
branches shared, pruned and kept for either reason. In `store` two contexts are
what a takeover needs, two messages let one replace the other as retained, and
two starts with one save put a crash before, during and after it; `MaxLate` is
the one packet or event a restarted broker then handles. Three boards
and three builds let a board meet a tarball that another is writing, one that
another left torn and one with a vendor's marks. In `access` three loads put a
client through a change and back. In `client` the scenarios together
have QoS 1 and 2 under way in both directions when a connection breaks, once
and twice, with one side empty and with neither, retries of either side, and
ids that wrap. In `network` `Radix` 2 makes fifteen bytes, with four digits, the
longest body that fits and sixteen, with five, the shortest that is refused;
`Room` 4 is a socket that takes part of a packet. Three addresses are what tells the last from the next;
two losses and two changes let the bridge move on, come back and move on again.

Sessions, builds, the bridge and the broker may stop when nobody acts, so
deadlock is not checked there.

### Fairness

* `FirmwareUpdate`: a started script is a process the kernel keeps running.
  Nothing makes an update start or power fail.
* `BrokerSession` (`ConnectedSpec`, a connection that lasts): the main loop
  serves every socket and checks the retry interval in every pass; the client
  reads its socket. Retries end because `MaxPkts` gives way to the answers
  first.
* `ClientMessages`: the application calls `mosquitto_loop`, which handles what
  arrived, checks retries and reconnects; the broker reads.
* `ClientNetwork`: the network thread and the reader go on and calls return;
  a connection attempt that is possible again and again succeeds (strong
  fairness: the attempts are retried without end). The timeout of `select()`
  is deliberately not fair: what is queued has to leave without it.
* `Bridge`: the loop goes round, its timers run out, and what is at an address
  answers. Losses and changes are bounded, so they end.

Nobody has to publish, connect or reload.

### Mutants

Each checked property has a mutated definition in the same module, marked
`Mutant` and listed in `PROJECT.json`, that breaks it.

## 4. Proofs

What the runs check on an instance, TLAPS proves for every value of the
constants that satisfies the named assumptions of the module; a further
hypothesis is part of the theorem. The invariants below were checked with TLC
on the instances of the runs before they were proved, except `BrokerInv`,
`PInv` and `WrittenInv`: they quantify over all values in places, which TLC
cannot evaluate, so TLC checks the properties they imply.

`FirmwareUpdateProofs`, for every `AllowedFlags`, `MayFail`, `DevRoot` and
`Releases`:

* `TypeCorrect`: `Spec => []TypeOK`, one case per action; the lemmas
  `BootResult` and `HaltResult` give what a boot and a power loss may change.
* `TargetInactive`: `Spec => []TargetIsInactive`. The property speaks of the
  stages that write, and is not inductive: nothing in it says where `part` came
  from when the first of them is entered. `InactiveInv` extends it to the stage
  before, so that it holds from the moment `DeterminePart` has read `/dev/root`.
* `BootComplete`: `Dependable => (Spec => []BootAlwaysComplete)`. `Dependable`
  excludes the failures and flags for which it is false (`update_extract` shows
  one). `BootInv` adds that the selected partition is complete in the kernel's
  view as well, that until the switch the controller runs from it (or from the
  initramfs) and the script works on the other one, and that the target is
  complete from the end of the extraction and synced from the end of the
  certificates on: only then is every power loss, and the switch itself, safe.
* `RollbackChecked`: `~Can("mount") => (Spec => []RollbackNeedsFactoryReset)`.
  `RollbackInv` follows the release that `CheckRelease` compares from where it
  was read: the partition `mmcpart` names in the initramfs, the running system
  elsewhere. If the active root file system may fail to mount, its release is
  taken for unknown and the guard for passed, hence the hypothesis.
* `UpdateIsAtomic`: `Reliable => (Spec => Promise!SafetySpec)`, `Reliable` being
  `Dependable` and that hypothesis together. Every step is shown to be a step
  of `ABUpdate` or to leave its variables alone. `ReleaseInv` adds how the
  release of the `.fit` travels: into memory with `Extract`, to disk with
  `Certs`, under `mmcpart` with `SwitchPart`. The liveness part of
  `ImplementsABUpdate` stays with `update`.

`ImageBuildProofs`, for every set of boards, keys, machines and vendor boards:

* `TypeCorrect`: `Spec => []TypeOK`.
* `TarballAlwaysBase`: `Spec => []TarballIsBase`, for any number of builds
  side by side, failures and kills. The tarball is the complete base system of
  one build, with exactly the marks of that build and one machine's name; a
  vendor's repository is in it only if a vendor's board has its key. `BuildInv`
  follows these through the stages before it is packed (`Fresh`, `Base`).
* `ImagesAlwaysFinished`: `OneHost => (Spec => []ImagesFinished)`. The inductive
  invariant `BuildInv` says for each stage which packages and marks the tree of
  a build has (`TreeAt`), so that a build that starts from a tarball and one
  that does not meet again at the stage `essential`. `OneHost`: a tarball made
  on a machine of another name keeps that name in its `/etc/hosts`.

`BrokerSessionProofs`, for every window, queue, set of messages and ids, and
any number of losses; its lemmas say what each operation on packets and on the
list returns:

* `TypeCorrect`: `Spec => []TypeOK`.
* `CounterExact`: `Revocable = {} => (Spec => []CountMatches)`, and
  `HeldWithinLimits`, the bound that follows from it when both limits are set.
  Inductive with `ListInv`: the list is finite and a place in it names one
  message, without which removals do not change the count by one. With
  `Revocable # {}` it is false (the first of the known deviations that mention
  `last_msg`).

In the same module, the messages to the client over a connection that lasts (`ConnectedSpec`, where the known deviations about reconnects cannot
happen), while ids do not wrap (`IdsSuffice`):

* `NeverDuplicated`, `PubrecAlwaysKnown`: `NoDuplicateQos2` and `PubrecKnown`.
* `ForgottenOnlyDelivered`: the action property `DeliveredBeforeForgotten`.

All three rest on `SessionInv`. The properties compare the list with what the
client has; between the two are packets, retried any number of times, so the
invariant says what each packet under way implies about the handshake of its
message (`Acked`, `Released`, `Kept`), that no PUBLISH follows the PUBREL of its
id nor a PUBREC the PUBCOMP (`Ordered`), that an id names one message wherever
it is carried (`IdsUnique`), and that the client remembers every QoS 2 message
that may come again (`Remembered`).

and, for the messages from the client, with any number of losses:

* `AlwaysForwardedExactlyOnce`: `Revocable = {} => (Spec => []ForwardedExactlyOnce)`,
  losses, takeovers, retries, denied messages and full lists included.
  `ForwardInv` relates the client's view of a handshake, the packets in both
  directions and the list: what is held was not forwarded, what was
  acknowledged is held or settled, a PUBLISH that may still insert its message
  has not been forwarded.

`BrokerStoreProofs` and `PersistenceProofs`, for any clients, topics, contexts
and wills, any number of messages, saves and starts, and every combination of
faults:

* `PointersAlwaysValid`: `PSpec => []PointersValid`.
* `StoreAlwaysExact`: `PSpec => []StoreExact`.
* `DurableAlwaysSurvives`: `PSpec => []DurableSurvives`.
* `RestartAlwaysFaithful`: the action property `RestartIsFaithful`.

`BrokerStoreProofs` is about the database alone. Its invariant `BrokerInv` has
three parts. `StoreSound`: ids are below `last_db_id`, lists and topics point
to stored messages, what a topic retains was published to it, to be retained
and with a payload, and every count is the number of references; while a
message is routed or released its count is ahead, so the lemmas about single C
functions carry the messages with one count too many (`StoreSound(d, a, b)`).
`ClientsSound`: a leaf points to a live context, a context has at most one leaf
per topic and its own list names exactly those, a context that waits to be
freed waits once and has no id, an id leads to one context, one without an id
has a clean session. `Wants` and `Owes`: the subscriptions and messages a
durable session was promised are in the leaves and the list of its context.
There is a lemma for each C function that changes the database, and
`HandlerKeeps` and `FreeKeeps` put them together. The functions that loop (over
leaves, a list, disused contexts) are recursive functions here; `LoopExists`
and `LoopKeeps` say that such a function exists and stays within sets the
passes lead through, from the least counterexample of the natural numbers, so
that no induction theorem with an operator as parameter is needed.

`PersistenceProofs` shows what the sections of the file contain
(`StoreSectionIs`, `ClientSectionIs`, `TreeSectionIs`, together `BackupDump`)
and what reading a chunk does (one lemma per kind of chunk, together
`RestoreIs`). `FileOk` says of a file, whole or cut between two chunks, that it
can be read: a message comes before the chunks that name it, ids and
subscriptions are not repeated, a topic has one retained message and there is
memory for each client. `Restored` says what the first `k` chunks have made of
the database, exactly; `LettersSaved` adds that a client's messages come back
in their order, and `KeptRestored` that restoring what was saved is the
identity on what is kept. `PInv` combines `BrokerInv` while the broker runs
with `DiskSound`: the file can be read, stands for the sessions in it, and
after a complete save is the file of some sound database.

`AccessControlProofs`, for every set of configuration files of any length and
order, any clients, users and topics, and any number of loads:

* `PointersAlwaysCurrent`: `Spec => []PointersCurrent`. `AccessInv` is the
  property and the shape of the contexts. A reload that finds no list clears no
  pointers; there are none then, because a pointer leads into the list.
* `ReloadAlwaysChecksUsers`: the action property `ReloadChecksUsers`.
* `AccessAlwaysAsWritten`: `MatcherExact => (Spec => []AccessAsWritten)`.
  `WrittenInv` says that after a load without errors the lists are those the
  lines of the `acl_file` describe, and that a client online points to its
  user's entry whenever there is one.

The loops over lines are recursive functions; by induction on the number of
lines read an option has the value of the last line that gives it
(`ConfigReadIs`), and entries and patterns are the lines read so far, each with
the user named last above it (`AclParseIs`). `MatcherExact`: the matcher of
`util_mosq.c` agrees with `Matches` on the filters in the files and the topics
asked for. It does not for every pair of strings (see the known deviations of
the tree), and where it does is a matter of recursion over strings;
`MCAccessControl` assumes it of its instance, so that TLC evaluates it.

`BridgeProofs`, for every list of addresses, limit and configuration:
`TypeCorrect`, `NotificationAlwaysTrue`, `PollEntryAlwaysOwn` and, as an action
property, `LazyWaits`. `BridgeInv` adds that a context that is not disconnected
has the will that sets the notification back, that a connected or pending one
has its socket, and that the wish of a lazy bridge to connect exists only while
it is down with its list at the threshold.

`ClientNetworkProofs`, for every radix of at least 2, socket size, set of
threads and packets, and any number of losses:

* `AlwaysHandledInOrder`: `Spec => []HandledInOrder`.
* `LengthAlwaysAgreed`: `Spec => []LengthAgreed`.

`NetworkInv` says that while a connection is up there is one stream of bytes,
that of all packets queued for it laid end to end (`Laid`), and three positions
in it: what the receiver has read (`ReadTo`), then the bytes under way, then
what the sender has written (`WrittenTo`). `Partly` is what `in_packet` is after
the first bytes of a packet; in the middle of the length, the part read plus
what `Left` says remains, times the multiplier, is the length, which is why the
decoder inverts the encoder. While the thread is between clearing the old queue
and connecting, other threads may queue already: then the queue itself is laid
out and nothing is half written, which is where the reset of
`current_out_packet` is needed.

Only model-checked:

* All liveness, which is out of the prover's reach: `QueuedIsDelivered`,
  `HandshakeEnds`, `EverythingArrives`, `QueuedLeaves`, `AddressFound`,
  `PrimaryRegained`, and the fairness of `ABUpdate`.
* `SubscriptionTree` and `ClientMessages`, which walk the tree and linked lists
  with `RECURSIVE` operators, and the matcher of `Topics` for every pair of
  strings; with the installed provers only loops that are recursive functions
  of a number, as those of the store and of the files are, can be reasoned
  about.
* `OrderKept`, and `LimitsKept` in its two scenes: they speak of instances with
  a window of one and wrapping ids. The part of `LimitsKept` that holds in
  general is `CounterExact` and `HeldWithinLimits`.
* The properties of the update and the session outside the hypotheses above.

## 5. Plan

Done: the update with its promise, the build, the session, the tree, the store
with its file, access control, bridges, and both halves of the client library;
proofs for the update, the build, the session, the store with its file, access
control, bridges and the network half of the client library.

Left for the proofs: `DeliveryInOrder` of `BrokerSession` for a window of one.

### Not modelled

* `MQ/src/conf.c` beyond the options that concern access: text parsing.
* TLS, PSK, websockets, SOCKS, plugins: library calls around the modelled code.
* The command line clients, the C++ and Python wrappers: thin layers over the
  client library.
* mosquitto 1.3.4: the older of two packaged versions of the same program.
* `boards/*.sh`, `image/create_fs.sh`, `image/create_partitions.sh`: variables
  and single commands.
* `devenv/`, `wbdev`, `ci/`, manual flashing scripts: linear sequences of
  external tools without state of their own.
* `fw-toolchain-legacy/ext4_dir_order.c`: prints the kernel's directory hash.
* `examples/`: demonstrations of peripherals.
