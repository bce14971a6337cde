---------------------------- MODULE Persistence ----------------------------
(***************************************************************************)
(* The broker's database and its file (mosquitto 1.4.2, src/persist.c):    *)
(* saving at autosave, on SIGUSR1 and at shutdown, crashing, and reading   *)
(* the file when the broker starts.                                        *)
(*                                                                         *)
(* The file is the sequence of its chunks, and whether it ends in the      *)
(* middle of one.  It is written under another name and renamed, so that a *)
(* broker that dies while it saves leaves the old file; but it is not      *)
(* forced to the disk before, and only errors in the message store section *)
(* are looked at.                                                          *)
(***************************************************************************)
EXTENDS BrokerStore

CONSTANTS
    Faults,         \* which of {"kill", "power", "full"} may happen
    MaxSaves,       \* bound: times the database is saved
    MaxLate,        \* bound: packets and events handled by a broker that was
                    \* started from the file (what a broker does between its
                    \* save and its end leaves no trace)
    MaxStarts       \* bound: times the broker is started

ASSUME PersistenceAssumption ==
    /\ Faults \subseteq {"kill", "power", "full"}
    /\ MaxSaves \in Nat /\ MaxLate \in Nat /\ MaxStarts \in Nat

VARIABLES
    file,       \* mosquitto.db: its chunks, torn, fresh, short
    up,         \* the broker runs
    starts,     \* times it was started
    saves,      \* times it was saved
    late,       \* packets and events handled since the restart
    saved       \* the database and the sessions the file was written from

vars == <<db, session, file, up, starts, saves, late, saved>>

(***************************************************************************)
(* mqtt3_db_backup, section by section.  $SYS topics are not modelled.     *)
(***************************************************************************)
StoreChunks(d) ==
    LET ids == SetToSeq(DOMAIN d.store)
    IN  [i \in DOMAIN ids |->
            [chunk |-> "MSG_STORE", db_id |-> ids[i],
             topic |-> d.store[ids[i]].topic, qos |-> d.store[ids[i]].qos,
             retain |-> d.store[ids[i]].retain,
             payload |-> d.store[ids[i]].payload]]

ClientMessagesChunks(d, h) ==
    [i \in DOMAIN d.ctxs[h].msgs |->
        [chunk |-> "CLIENT_MSG", client |-> d.ctxs[h].id,
         msg |-> d.ctxs[h].msgs[i]]]

ClientChunks(d) ==
    LET durable == SetToSeq({h \in DOMAIN d.ctxs :
                                d.ctxs[h].id # NULL /\ ~d.ctxs[h].clean})
    IN  FlattenSeq([i \in DOMAIN durable |->
            << [chunk |-> "CLIENT", client |-> d.ctxs[durable[i]].id] >>
            \o ClientMessagesChunks(d, durable[i])])

LeafChunks(d, t, leaf) ==
    IF d.ctxs[leaf.ctx].clean THEN <<>>
    ELSE << [chunk |-> "SUB", client |-> d.ctxs[leaf.ctx].id, topic |-> t,
             qos |-> leaf.qos] >>

NodeChunks(d, t) ==
    FlattenSeq([i \in DOMAIN d.leaves[t] |-> LeafChunks(d, t, d.leaves[t][i])])
    \o (IF d.retained[t] = NULL THEN <<>>
        ELSE << [chunk |-> "RETAIN", db_id |-> d.retained[t]] >>)

SubsRetainChunks(d) ==
    LET topics == SetToSeq(Topics)
    IN  FlattenSeq([i \in DOMAIN topics |-> NodeChunks(d, topics[i])])

mqtt3_db_backup(d) ==
    << [chunk |-> "CFG", last |-> d.last] >>
    \o StoreChunks(d) \o ClientChunks(d) \o SubsRetainChunks(d)

\* mqtt3_db_message_store_write reads the topic of every message; one
\* without a topic ends the broker.
Readable(d) == \A s \in DOMAIN d.store : d.store[s].topic # NULL

(***************************************************************************)
(* mqtt3_db_restore, chunk by chunk.  The load table that leads from a     *)
(* db_id of the file to the stored message is the store itself.            *)
(***************************************************************************)
\* _db_find_or_add_context
FindOrAdd(d, c) ==
    IF ById(d, c) # {} THEN d
    ELSE [d EXCEPT !.ctxs = With(@, NextUnused(d),
             [mqtt3_context_init(FALSE) EXCEPT !.id = c, !.clean = FALSE])]

Home(d, c) == CHOOSE h \in ById(d, c) : TRUE

msg_store_chunk_restore(d, k) ==
    [d EXCEPT !.store = With(@, k.db_id,
        [topic |-> k.topic, qos |-> k.qos, retain |-> k.retain,
         payload |-> k.payload, ref |-> 0])]

client_chunk_restore(d, k) == FindOrAdd(d, k.client)

client_msg_restore(d, client, msg) ==
    LET f == FindOrAdd(Ref(d, msg.store), client)
    IN  [f EXCEPT !.ctxs[Home(f, client)].msgs = Append(@, msg)]

client_msg_chunk_restore(d, k) == client_msg_restore(d, k.client, k.msg)

sub_chunk_restore(d, k) ==
    LET f == FindOrAdd(d, k.client)
    IN  mqtt3_sub_add(f, Home(f, k.client), k.topic, k.qos)

\* The message goes through the routing again, with no source.
\* Mutant: the restored message is routed as if a client had sent it.
retain_chunk_restoreRouted(d, k) == mqtt3_db_messages_queue(d, k.db_id, TRUE)

retain_chunk_restore(d, k) == mqtt3_db_messages_queue(d, k.db_id, FALSE)

ChunkRestore(d, k) ==
    CASE k.chunk = "CFG"        -> [d EXCEPT !.last = k.last]
      [] k.chunk = "MSG_STORE"  -> msg_store_chunk_restore(d, k)
      [] k.chunk = "CLIENT"     -> client_chunk_restore(d, k)
      [] k.chunk = "CLIENT_MSG" -> client_msg_chunk_restore(d, k)
      [] k.chunk = "SUB"        -> sub_chunk_restore(d, k)
      [] k.chunk = "RETAIN"     -> retain_chunk_restore(d, k)

mqtt3_db_restore(chunks) ==
    LET after[k \in 0..Len(chunks)] ==
            IF k = 0 THEN mqtt3_db_open
            ELSE ChunkRestore(after[k - 1], chunks[k])
    IN  after[Len(chunks)]

----------------------------------------------------------------------------
\* What the persistence option promises to keep of a database.
Kept(d) ==
    LET home(c) == {h \in ById(d, c) : ~d.ctxs[h].clean}
        known(s) == [topic |-> d.store[s].topic, qos |-> d.store[s].qos]
    IN  [clients |-> {c \in Clients : home(c) # {}},
         msgs |-> [c \in Clients |-> {d.ctxs[h].msgs : h \in home(c)}],
         subs |-> {s \in [client : Clients, topic : Topics, qos : SubQos] :
                      \E i \in DOMAIN d.leaves[s.topic] :
                          /\ d.leaves[s.topic][i].ctx \in home(s.client)
                          /\ d.leaves[s.topic][i].qos = s.qos},
         retained |-> [t \in Topics |-> IF d.retained[t] = NULL THEN NULL
                                        ELSE known(d.retained[t])],
         store |-> [s \in DOMAIN d.store |-> known(s)],
         last |-> d.last]

\* What was saved, and the sessions it stands for; nothing is known of a
\* file that is not what was saved.
Nobody == [wanted |-> [c \in Clients |-> [t \in Topics |-> NULL]],
           owed |-> [c \in Clients |-> {}]]
Complete(d) == [kept |-> Kept(d), last |-> d.last,
                sessions |-> [wanted |-> wanted, owed |-> owed]]
Partial(last) == [kept |-> NULL, last |-> last, sessions |-> Nobody]

\* A file: fresh until it is written back, short if the disk has some part of
\* it only; which part shows when it is read.
File(chunks, fresh, short) ==
    [chunks |-> chunks, torn |-> FALSE, fresh |-> fresh, short |-> short]

\* No file is like one without a chunk: reading it leaves an empty database.
NoFile == File(<<>>, FALSE, FALSE)

PInit ==
    /\ Init
    /\ file = NoFile /\ up = TRUE /\ starts = 1 /\ saves = 0 /\ late = 0
    /\ saved = Partial(0)

\* What is read of a file whose end is missing: it ends within a chunk, or
\* between two.
Cut(chunks) ==
    {[NoFile EXCEPT !.torn = TRUE]}
    \cup {File(SubSeq(chunks, 1, n), FALSE, FALSE) : n \in 1..Len(chunks) - 1}

(***************************************************************************)
(* A save that reaches the rename.  With the disk full only part of the    *)
(* chunks is in the file: what fails in the client or subscription         *)
(* section, or when the file is closed, is not looked at (persist.c:382).  *)
(***************************************************************************)
Renamed(d) ==
    \/ /\ file' = File(mqtt3_db_backup(d), TRUE, FALSE)
       /\ saved' = Complete(d)
    \/ /\ "full" \in Faults
       /\ file' = File(mqtt3_db_backup(d), FALSE, TRUE)
       /\ saved' = Partial(d.last)

\* An error in the header or the message store section: the old file stays.
NotRenamed ==
    /\ "full" \in Faults
    /\ UNCHANGED <<file, saved>>

mqtt3_db_backup_step ==
    /\ Readable(db) /\ saves < MaxSaves
    /\ saves' = saves + 1
    /\ Renamed(db) \/ NotRenamed

(***************************************************************************)
(* The end of a pass of the main loop: autosave, by count or by time, or   *)
(* SIGUSR1; then contexts that are disused are freed.  persistence_changes *)
(* starts again after a save by count, whether it succeeded or not.        *)
(***************************************************************************)
Autosave ==
    /\ up
    /\ IF autosave_on_changes THEN db.changes > autosave_interval ELSE TRUE
    /\ mqtt3_db_backup_step
    /\ db' = mosquitto__free_disused_contexts(
                 IF autosave_on_changes THEN [db EXCEPT !.changes = 0] ELSE db)
    /\ UNCHANGED <<session, up, starts>>

sigusr1 ==
    /\ up
    /\ mqtt3_db_backup_step
    /\ db' = mosquitto__free_disused_contexts(db)
    /\ UNCHANGED <<session, up, starts>>

\* The broker ends; the sessions are those of its file from now on.
Stop ==
    /\ up' = FALSE
    /\ db' = mqtt3_db_open
    /\ wanted' = saved'.sessions.wanted /\ owed' = saved'.sessions.owed
    /\ UNCHANGED starts

\* Saving reads a NULL topic: the broker dies.
SaveCrash ==
    /\ up /\ ~Readable(db)
    /\ UNCHANGED <<file, saves, saved>>
    /\ Stop

\* SIGTERM: the loop ends, the database is saved, everything is freed.
Shutdown ==
    /\ up
    /\ mqtt3_db_backup_step
    /\ Stop

kill ==
    /\ up /\ "kill" \in Faults
    /\ UNCHANGED <<file, saves, saved>>
    /\ Stop

\* What was renamed and not yet written back may be there in part, or as an
\* empty file.
power_loss ==
    /\ "power" \in Faults
    /\ up \/ file.fresh
    /\ \/ UNCHANGED <<file, saved>>
       \/ /\ file.fresh
          /\ file' = File(file.chunks, FALSE, TRUE)
          /\ saved' = Partial(saved.last)
    /\ Stop
    /\ UNCHANGED saves

(***************************************************************************)
(* The broker is started.  A file that ends within a chunk makes           *)
(* mqtt3_db_open fail, and the broker gives up.                            *)
(***************************************************************************)
Start ==
    /\ ~up /\ starts < MaxStarts
    /\ starts' = starts + 1
    /\ file' \in IF file.short THEN Cut(file.chunks) ELSE {file}
    /\ up' = ~file'.torn
    /\ db' = IF file'.torn THEN db ELSE mqtt3_db_restore(file'.chunks)
    /\ UNCHANGED <<session, saves, saved>>

Served ==
    /\ up /\ Handler
    /\ saves > 0 => starts > 1 /\ late < MaxLate
    /\ late' = IF saves > 0 THEN late + 1 ELSE late
    /\ UNCHANGED <<file, up, starts, saves, saved>>

PNext ==
    \/ Served
    \/ up /\ FreeDisused /\ UNCHANGED <<file, up, starts, saves, late, saved>>
    \/ /\ Autosave \/ sigusr1 \/ SaveCrash \/ Shutdown
          \/ kill \/ power_loss \/ Start
       /\ UNCHANGED late

PSpec == PInit /\ [][PNext]_vars

----------------------------------------------------------------------------
(***************************************************************************)
(* A restart is faithful: if the file is the result of a complete save     *)
(* that reached the disk, the broker comes up, and with exactly the        *)
(* sessions, queued messages, subscriptions and retained messages it had   *)
(* when that save was made, whatever happened in between.                  *)
(***************************************************************************)
RestartIsFaithful ==
    [][Start /\ saved.kept # NULL => up' /\ Kept(db') = saved.kept]_vars

(***************************************************************************)
(* Every reference to a stored message is counted, and nothing leaks:      *)
(* messages nobody refers to come from the file only, which has what was   *)
(* queued for clean sessions when it was written.                          *)
(***************************************************************************)
StoreExact ==
    /\ RefCountExact
    /\ \A s \in DOMAIN db.store :
          db.store[s].ref = 0 => starts > 1 /\ s <= saved.last

\* While the broker runs, routing owes nothing it does not hold.
DurableSurvives == up => OwedIsQueued

(***************************************************************************)
(* A save ends with the broker still running: mosquitto.conf.5.xml:422     *)
(* says the data "will be written to disk when mosquitto closes and also   *)
(* at periodic intervals".                                                 *)
(***************************************************************************)
SaveCompletes == [][~SaveCrash]_vars
=============================================================================
