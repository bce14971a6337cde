---------------------------- MODULE AccessControl ----------------------------
(***************************************************************************)
(* Who may connect to the broker and what a client may read and write:     *)
(* the built-in checks of mosquitto 1.4.2 (src/security_default.c), the    *)
(* part of CONNECT that uses them (src/read_handle_server.c) and the       *)
(* reload of the configuration on SIGHUP (src/loop.c, src/conf.c).         *)
(*                                                                         *)
(* The access lists are rebuilt at every reload while contexts hold        *)
(* pointers into them; clients stay connected across reloads, and durable  *)
(* sessions across restarts.  A pointer is a generation of acl_list and an *)
(* index into it.  A configuration file is a sequence of options, an       *)
(* acl_file or password_file a sequence of lines; a topic is a sequence of *)
(* characters, in which "%c" and "%u" count as one.                        *)
(***************************************************************************)
EXTENDS Topics, Naturals

CONSTANTS
    ClientIds,      \* client ids, the user names among them
    Users,          \* user names
    Passwords,
    Configs,        \* contents of mosquitto.conf and of the files it names
    TopicNames,     \* topics access is asked for
    UserIsId,       \* listeners' use_username_as_clientid
    MaxLoads,       \* bound on reloads and restarts
    NULL

Read == "read"
Write == "write"
Access == {Read, Write}

\* A pointer into acl_list, and a context in contexts_by_id.
Pointers == [gen : Nat, index : Nat]
Contexts == [username : Users \cup {NULL}, password : Passwords \cup {NULL},
             acl : Pointers \cup {NULL}, clean : BOOLEAN, connected : BOOLEAN]

\* NULL is no context and no pointer, files have lines, and a file
\* that an option names is a named one.
ASSUME AccessAssumption ==
    /\ NULL \notin Contexts \cup Pointers
    /\ \A f \in Configs :
          /\ Len(f) \in Nat
          /\ \A i \in 1..Len(f) : f[i].option \in {"acl_file", "password_file"} =>
                /\ f[i].value.named
                /\ f[i].value.lines \in Seq(Range(f[i].value.lines))

NoFile == [named |-> FALSE, readable |-> FALSE, lines |-> <<>>]

VARIABLES
    config,         \* struct mqtt3_config: the options the checks use
    unpwd,          \* db->unpwd: [user, password] as decoded, in file order
    acl_list,       \* db->acl_list: per user, its lines
    acl_patterns,   \* db->acl_patterns
    gen,            \* generation of the objects in acl_list
    ctx,            \* contexts_by_id: client id -> context or NULL
    applied,        \* the configuration of the last load (history)
    clean,          \* the last load met no error and no leftovers (history)
    loads           \* reloads and restarts so far

db == <<config, unpwd, acl_list, acl_patterns, gen>>
history == <<applied, clean, loads>>
vars == <<db, ctx, history>>
-----------------------------------------------------------------------------
\* _config_init_reload.
Defaults == [acl_file |-> NoFile, password_file |-> NoFile,
             allow_anonymous |-> TRUE]

\* One line of mosquitto.conf; nothing is read after a bad one.
ReadLine(conf, line) ==
    IF ~conf.ok THEN conf
    ELSE CASE line.option = "acl_file" ->
                [conf EXCEPT !.c.acl_file = line.value]
           [] line.option = "password_file" ->
                [conf EXCEPT !.c.password_file = line.value]
           [] line.option = "allow_anonymous" ->
                [conf EXCEPT !.c.allow_anonymous = line.value]
           [] OTHER -> [conf EXCEPT !.ok = FALSE]

\* mqtt3_config_read: the options go back to their defaults first.
mqtt3_config_read(file) ==
    LET conf[i \in 0..Len(file)] ==
            IF i = 0 THEN [c |-> Defaults, ok |-> TRUE]
            ELSE ReadLine(conf[i - 1], file[i])
    IN  conf[Len(file)]

\* _add_acl: the line goes to its user's entry, which is made when it is the
\* user's first.
add_acl(list, user, line) ==
    IF \E i \in 1..Len(list) : list[i].username = user
    THEN [i \in 1..Len(list) |->
             IF list[i].username = user
               THEN [list[i] EXCEPT !.acl = Append(@, line)] ELSE list[i]]
    ELSE Append(list, [username |-> user, acl |-> <<line>>])

\* One line of the acl_file.
AclLine(s, line) ==
    IF ~s.ok THEN s
    ELSE CASE line.kind = "user" -> [s EXCEPT !.user = line.user]
           [] line.kind = "topic" ->
                [s EXCEPT !.list = add_acl(s.list, s.user, line)]
           [] line.kind = "pattern" ->
                [s EXCEPT !.patterns = Append(s.patterns, line)]
           [] OTHER -> [s EXCEPT !.ok = FALSE]

\* _aclfile_parse adds to the lists it finds.
aclfile_parse(file, list, patterns) ==
    LET start == [ok |-> ~file.named \/ file.readable, user |-> NULL,
                  list |-> list, patterns |-> patterns]
        acl[i \in 0..Len(file.lines)] ==
            IF i = 0 THEN start ELSE AclLine(acl[i - 1], file.lines[i])
    IN  acl[Len(file.lines)]

\* _unpwd_file_parse: from the first hash that cannot be decoded on, the
\* entries stay but match no password.
unpwd_file_parse(file) ==
    LET lines == IF file.readable THEN file.lines ELSE <<>>
        bad == {i \in 1..Len(lines) : ~lines[i].valid}
    IN  [ok |-> bad = {} /\ (~file.named \/ file.readable),
         unpwd |-> [i \in 1..Len(lines) |->
                       [user |-> lines[i].user,
                        password |-> IF lines[i].password # NULL
                                        /\ \E j \in bad : j <= i
                                       THEN "undecoded" ELSE lines[i].password]]]

\* mosquitto_security_init_default: a password file with an error leaves the
\* access lists as they are.
security_init(conf, list, patterns) ==
    LET pw == unpwd_file_parse(conf.password_file)
        acl == aclfile_parse(conf.acl_file, list, patterns)
    IN  [ok |-> pw.ok /\ acl.ok,
         unpwd |-> pw.unpwd,
         list |-> IF pw.ok THEN acl.list ELSE list,
         patterns |-> IF pw.ok THEN acl.patterns ELSE patterns]

\* mosquitto_unpwd_check_default: the first entry with the name decides.
unpwd_check(pws, user, password) ==
    \/ pws = <<>>
    \/ \E i \in 1..Len(pws) :
          /\ pws[i].user = user
          /\ pws[i].password \in {NULL, password}
          /\ \A j \in 1..(i - 1) : pws[j].user # user

\* The entry of a user, as connect and reload look it up.
EntryOf(list, g, user) ==
    IF \E i \in 1..Len(list) : list[i].username = user
    THEN [gen |-> g, index |-> CHOOSE i \in 1..Len(list) : list[i].username = user]
    ELSE NULL

\* do_disconnect: a clean session is forgotten.
Disconnected(c) == IF c.clean THEN NULL ELSE [c EXCEPT !.connected = FALSE]
-----------------------------------------------------------------------------
\* %c and %u replaced.
Substitute(pattern, id, user) ==
    [i \in 1..Len(pattern) |->
        CASE pattern[i] = "%c" -> id
          [] pattern[i] = "%u" /\ user # NULL -> user
          [] OTHER -> pattern[i]]

UsesName(pattern) == \E i \in 1..Len(pattern) : pattern[i] = "%u"

\* mosquitto_acl_check_default, for the context of a client id.
mosquitto_acl_check(id, topic, access) ==
    LET c == ctx[id]
        own == IF c.acl = NULL THEN <<>> ELSE acl_list[c.acl.index].acl
    IN  \/ acl_list = <<>> /\ acl_patterns = <<>>
        \/ \E i \in 1..Len(own) :
              /\ IsDollar(topic) => IsDollar(own[i].topic)
              /\ mosquitto_topic_matches_sub(own[i].topic, topic)
              /\ access \in own[i].access
        \/ \E i \in 1..Len(acl_patterns) :
              LET p == acl_patterns[i]
              IN  /\ UsesName(p.topic) => c.username # NULL
                  /\ mosquitto_topic_matches_sub(
                        Substitute(p.topic, id, c.username), topic)
                  /\ access \in p.access
-----------------------------------------------------------------------------
Loaded(file) ==
    LET conf == mqtt3_config_read(file)
        init == security_init(conf.c, <<>>, <<>>)
    IN  [conf |-> conf.c, ok |-> conf.ok /\ init.ok, init |-> init]

\* The broker starts only with files that have no error.
Init ==
    /\ \E f \in {f \in Configs : Loaded(f).ok} :
          /\ config = Loaded(f).conf
          /\ unpwd = Loaded(f).init.unpwd
          /\ acl_list = Loaded(f).init.list
          /\ acl_patterns = Loaded(f).init.patterns
          /\ applied = f
    /\ gen = 0
    /\ ctx = [id \in ClientIds |-> NULL]
    /\ clean = TRUE /\ loads = 0

\* What the checks of a CONNECT's fields leave: the client id, or nothing.
\* A missing id is made up for a clean session of MQTT 3.1.1.
IdFor(p) ==
    IF p.id # NULL THEN {p.id}
    ELSE {id \in ClientIds : ctx[id] = NULL}

WellFormed(p) ==
    /\ p.id = NULL => p.version = "3.1.1" /\ p.clean
    /\ p.version = "3.1.1" /\ p.user = NULL => p.password = NULL

\* The credentials.
Accepts(p) ==
    IF p.user = NULL THEN config.allow_anonymous
    ELSE unpwd_check(unpwd, p.user, p.password)

Packets == [version : {"3.1", "3.1.1"}, id : ClientIds \cup {NULL},
            clean : BOOLEAN, user : Users \cup {NULL},
            password : Passwords \cup {NULL}]

\* An accepted CONNECT takes the place of the context its id had.  A refused
\* one changes nothing here: its context is not in contexts_by_id.
mqtt3_handle_connect ==
    \E p \in Packets, asId \in UserIsId :
        /\ WellFormed(p) /\ Accepts(p)
        /\ asId => p.user # NULL
        /\ \E id \in IF asId THEN {p.user} ELSE IdFor(p) :
              ctx' = [ctx EXCEPT ![id] =
                         [username |-> p.user,
                          password |-> IF p.user = NULL THEN NULL ELSE p.password,
                          acl |-> EntryOf(acl_list, gen, p.user),
                          clean |-> p.clean, connected |-> TRUE]]
        /\ UNCHANGED <<db, history>>

\* DISCONNECT, or the connection breaks.
mqtt3_handle_disconnect(id) ==
    /\ ctx[id] # NULL /\ ctx[id].connected
    /\ ctx' = [ctx EXCEPT ![id] = Disconnected(ctx[id])]
    /\ UNCHANGED <<db, history>>

\* Mutant: the contexts keep their pointers.
acl_cleanupKeeps(c) == c

\* _acl_cleanup, for one context.
acl_cleanup(c) == [c EXCEPT !.acl = NULL]

\* What mosquitto_security_apply_default asks of a context.
Refused(c, conf, pws) ==
    \/ c.username = NULL /\ ~conf.allow_anonymous
    \/ ~unpwd_check(pws, c.username, c.password)

\* Mutant: those that stay connected are not given their entry again.
security_applySkips(c, conf, pws, list, g) ==
    IF Refused(c, conf, pws) THEN Disconnected(c) ELSE c

\* Mutant: the passwords are not checked again.
security_applyTrusts(c, conf, pws, list, g) ==
    IF c.username = NULL /\ ~conf.allow_anonymous THEN Disconnected(c)
    ELSE [c EXCEPT !.acl = EntryOf(list, g, c.username)]

\* mosquitto_security_apply_default, for one context.
security_apply(c, conf, pws, list, g) ==
    IF Refused(c, conf, pws) THEN Disconnected(c)
    ELSE [c EXCEPT !.acl = IF EntryOf(list, g, c.username) = NULL
                             THEN @ ELSE EntryOf(list, g, c.username)]

\* SIGHUP: configuration, cleanup, init, apply; no error stops it.  Without
\* an acl_list there is nothing to clean up, the patterns included.
Reload ==
    /\ loads < MaxLoads
    /\ \E f \in Configs :
          LET conf == mqtt3_config_read(f)
              empty == acl_list = <<>>
              init == security_init(conf.c, <<>>, IF empty THEN acl_patterns
                                                           ELSE <<>>)
              cleaned == [id \in ClientIds |->
                             IF ctx[id] = NULL \/ empty THEN ctx[id]
                             ELSE acl_cleanup(ctx[id])]
          IN  /\ config' = conf.c
              /\ gen' = gen + 1
              /\ unpwd' = init.unpwd
              /\ acl_list' = init.list
              /\ acl_patterns' = init.patterns
              /\ ctx' = [id \in ClientIds |->
                            IF cleaned[id] = NULL THEN NULL
                            ELSE security_apply(cleaned[id], conf.c,
                                                init.unpwd, init.list, gen + 1)]
              /\ applied' = f
              /\ clean' = /\ conf.ok /\ init.ok
                          /\ empty => acl_patterns = <<>>
    /\ loads' = loads + 1

\* The broker is restarted: durable sessions come back from the persistence
\* file, which has no user names.
Restart ==
    /\ loads < MaxLoads
    /\ \E f \in {f \in Configs : Loaded(f).ok} :
          /\ config' = Loaded(f).conf
          /\ unpwd' = Loaded(f).init.unpwd
          /\ acl_list' = Loaded(f).init.list
          /\ acl_patterns' = Loaded(f).init.patterns
          /\ applied' = f
    /\ clean' = TRUE
    /\ UNCHANGED gen
    /\ ctx' = [id \in ClientIds |->
                  IF ctx[id] = NULL THEN NULL
                  ELSE IF ctx[id].clean THEN NULL
                  ELSE [username |-> NULL, password |-> NULL, acl |-> NULL,
                        clean |-> FALSE, connected |-> FALSE]]
    /\ loads' = loads + 1

Next ==
    \/ mqtt3_handle_connect
    \/ \E id \in ClientIds : mqtt3_handle_disconnect(id)
    \/ Reload \/ Restart

Spec == Init /\ [][Next]_vars
-----------------------------------------------------------------------------
Known == {id \in ClientIds : ctx[id] # NULL}
Online == {id \in Known : ctx[id].connected}

\* Whatever was reloaded since a client connected, its acl_list points into
\* the list in force, at the entry of its own user.
PointersCurrent ==
    \A id \in Known : ctx[id].acl # NULL =>
        /\ ctx[id].acl.gen = gen
        /\ ctx[id].acl.index \in 1..Len(acl_list)
        /\ acl_list[ctx[id].acl.index].username = ctx[id].username

\* What the files of the last load say.  The lines of the file an option
\* names last:
LinesOf(option) ==
    LET at == {i \in 1..Len(applied) : applied[i].option = option}
    IN  IF at = {} THEN <<>>
        ELSE applied[CHOOSE i \in at : \A j \in at : j <= i].value.lines

\* the user a topic line is for, NULL for clients without a name:
Owner(lines, i) ==
    LET above == {j \in 1..(i - 1) : lines[j].kind = "user"}
    IN  IF above = {} THEN NULL
        ELSE lines[CHOOSE j \in above : \A k \in above : k <= j].user

\* access is free when there are no rules, and otherwise what a line grants:
Granted(user, id, topic, access) ==
    LET lines == LinesOf("acl_file")
        rules == {i \in 1..Len(lines) : lines[i].kind \in {"topic", "pattern"}}
        grants(i) ==
            IF lines[i].kind = "topic"
            THEN Owner(lines, i) = user /\ Matches(lines[i].topic, topic)
            ELSE /\ UsesName(lines[i].topic) => user # NULL
                 /\ Matches(Substitute(lines[i].topic, id, user), topic)
    IN  rules = {} \/ \E i \in rules : access \in lines[i].access /\ grants(i)

\* The code's matcher and MQTT's agree on the filters in the files, with the
\* names of clients and users in place.
MatcherExact ==
    \A f \in Configs : \A i \in 1..Len(f) : f[i].option = "acl_file" =>
        \A line \in Range(f[i].value.lines), t \in TopicNames :
            /\ line.kind = "topic" =>
                  (mosquitto_topic_matches_sub(line.topic, t)
                     <=> Matches(line.topic, t))
            /\ line.kind = "pattern" =>
                  \A id \in ClientIds, user \in Users \cup {NULL} :
                      (UsesName(line.topic) => user # NULL) =>
                      LET p == Substitute(line.topic, id, user)
                      IN  mosquitto_topic_matches_sub(p, t) <=> Matches(p, t)

\* A client may do exactly what the files of the last load grant its user
\* and its id, however often the configuration was reloaded and whatever was
\* in force when it connected.  Excepted are loads that met an error, and
\* loads that found patterns but no acl_list: those patterns stay.
AccessAsWritten ==
    clean => \A id \in Online, t \in TopicNames, a \in Access :
        mosquitto_acl_check(id, t, a) <=> Granted(ctx[id].username, id, t, a)

\* A reload without errors parts with exactly those connected users that the
\* password file now in force, if it lists anyone, does not list with the
\* password they connected with; where the options they connected under
\* stand in the file does not matter.
ReloadChecksUsers ==
    [][gen' # gen /\ clean' =>
       \A id \in Online : ctx[id].username # NULL =>
          LET pws == LinesOf("password_file")'
              named == {i \in 1..Len(pws) : pws[i].user = ctx[id].username}
          IN  ctx'[id] # NULL /\ ctx'[id].connected <=>
                 \/ pws = <<>>
                 \/ \E i \in named : /\ \A j \in named : i <= j
                                     /\ pws[i].password \in {NULL, ctx[id].password}]_vars

\* Neither does a reload part with clients without a name while
\* allow_anonymous is on.
AnonymousStay ==
    [][gen' # gen /\ config'.allow_anonymous =>
       \A id \in Online : ctx[id].username = NULL =>
          ctx'[id] # NULL /\ ctx'[id].connected]_vars
=============================================================================
