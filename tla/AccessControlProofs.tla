------------------------ MODULE AccessControlProofs ------------------------
(***************************************************************************)
(* Proofs about AccessControl: whatever the files contain and however      *)
(* often they are reloaded, a context's pointer leads to the entry of its  *)
(* own user in the list in force, and a reload parts with exactly the      *)
(* users the password file does not vouch for any more.                    *)
(***************************************************************************)
EXTENDS AccessControl, WellFoundedInduction, TLAPS

\* The lists are rebuilt under a new generation; contexts are records.
Typed ==
    /\ gen \in Nat
    /\ ctx \in [ClientIds -> Contexts \cup {NULL}]

\* A pointer leads to the entry of the user in the list.
Leads(p, list, g, user) ==
    /\ p.gen = g /\ p.index \in 1..Len(list) /\ list[p.index].username = user

\* What a context may point to, with list in force.
PointsWell(c, list, g) ==
    c # NULL => c \in Contexts /\ (c.acl # NULL => Leads(c.acl, list, g, c.username))

AccessInv == Typed /\ \A id \in ClientIds : PointsWell(ctx[id], acl_list, gen)

\* What connect and reload look up leads to the entry.
LEMMA EntryLeads ==
    ASSUME NEW list, NEW g \in Nat, NEW user, EntryOf(list, g, user) # NULL
    PROVE  EntryOf(list, g, user) \in Pointers /\ Leads(EntryOf(list, g, user), list, g, user)
<1>1. \E i \in 1..Len(list) : list[i].username = user
  BY DEF EntryOf
<1> DEFINE k == CHOOSE i \in 1..Len(list) : list[i].username = user
<1>2. k \in 1..Len(list) /\ list[k].username = user
  BY <1>1
<1>3. EntryOf(list, g, user) = [gen |-> g, index |-> k]
  BY <1>1 DEF EntryOf
<1>4. k \in Nat
  BY <1>2
<1> HIDE DEF k
<1> QED
  BY <1>2, <1>3, <1>4 DEF Leads, Pointers

LEMMA ConnectKeeps ==
    AccessInv /\ mqtt3_handle_connect => AccessInv'
<1> SUFFICES ASSUME AccessInv, mqtt3_handle_connect PROVE AccessInv'
  OBVIOUS
<1>1. PICK p \in Packets, asId \in UserIsId :
         \E id \in IF asId THEN {p.user} ELSE IdFor(p) :
            ctx' = [ctx EXCEPT ![id] =
                       [username |-> p.user,
                        password |-> IF p.user = NULL THEN NULL ELSE p.password,
                        acl |-> EntryOf(acl_list, gen, p.user),
                        clean |-> p.clean, connected |-> TRUE]]
  BY DEF mqtt3_handle_connect
<1> DEFINE c == [username |-> p.user,
                 password |-> IF p.user = NULL THEN NULL ELSE p.password,
                 acl |-> EntryOf(acl_list, gen, p.user),
                 clean |-> p.clean, connected |-> TRUE]
<1>2. PICK id : ctx' = [ctx EXCEPT ![id] = c]
  BY <1>1
<1>3. UNCHANGED <<acl_list, gen>>
  BY DEF mqtt3_handle_connect, db
<1>4. EntryOf(acl_list, gen, p.user) \in Pointers \cup {NULL}
  BY EntryLeads DEF AccessInv, Typed
<1>5. c \in Contexts
  BY <1>4 DEF Contexts, Packets
<1>6. PointsWell(c, acl_list, gen)
  BY <1>5, EntryLeads DEF AccessInv, Typed, PointsWell
<1> HIDE DEF c
<1> QED
  BY <1>2, <1>3, <1>5, <1>6 DEF AccessInv, Typed

\* A disconnect leaves the pointer alone.
LEMMA DisconnectedWell ==
    ASSUME NEW c \in Contexts, NEW list, NEW g, PointsWell(c, list, g)
    PROVE  Disconnected(c) \in Contexts \cup {NULL} /\ PointsWell(Disconnected(c), list, g)
<1>1. CASE c.clean
  BY <1>1 DEF Disconnected, PointsWell
<1>2. CASE ~c.clean
  <2> DEFINE e == [c EXCEPT !.connected = FALSE]
  <2>1. Disconnected(c) = e /\ e \in Contexts /\ e.acl = c.acl /\ e.username = c.username
    BY <1>2 DEF Disconnected, Contexts
  <2>2. c # NULL
    BY AccessAssumption
  <2> QED
    BY <2>1, <2>2 DEF PointsWell
<1> QED
  BY <1>1, <1>2

LEMMA DisconnectKeeps ==
    ASSUME AccessInv, NEW id \in ClientIds, mqtt3_handle_disconnect(id)
    PROVE  AccessInv'
<1>1. ctx[id] \in Contexts /\ PointsWell(ctx[id], acl_list, gen)
  BY DEF AccessInv, Typed, mqtt3_handle_disconnect
<1>2. UNCHANGED <<acl_list, gen>> /\ ctx' = [ctx EXCEPT ![id] = Disconnected(ctx[id])]
  BY DEF mqtt3_handle_disconnect, db
<1>3. /\ Disconnected(ctx[id]) \in Contexts \cup {NULL}
      /\ PointsWell(Disconnected(ctx[id]), acl_list, gen)
  BY <1>1, DisconnectedWell
<1> QED
  BY <1>2, <1>3 DEF AccessInv, Typed

\* A reload, for one context: with its pointer cleared, or without one.
LEMMA ApplyWell ==
    ASSUME NEW c \in Contexts, c.acl = NULL, NEW conf, NEW pws, NEW list, NEW g \in Nat
    PROVE  /\ security_apply(c, conf, pws, list, g) \in Contexts \cup {NULL}
           /\ PointsWell(security_apply(c, conf, pws, list, g), list, g)
<1> DEFINE n == EntryOf(list, g, c.username)
<1>1. CASE Refused(c, conf, pws)
  <2>1. PointsWell(c, list, g)
    BY DEF PointsWell
  <2> QED
    BY <1>1, <2>1, DisconnectedWell DEF security_apply
<1>2. CASE ~Refused(c, conf, pws)
  <2> DEFINE a == IF n = NULL THEN c.acl ELSE n
             e == [c EXCEPT !.acl = a]
  <2>1. security_apply(c, conf, pws, list, g) = e
    BY <1>2 DEF security_apply
  <2>2. a = n
    OBVIOUS
  <2>3. n # NULL => n \in Pointers /\ Leads(n, list, g, c.username)
    BY EntryLeads
  <2> HIDE DEF n, a
  <2>4. e \in Contexts /\ e.acl = n /\ e.username = c.username
    BY <2>2, <2>3 DEF Contexts
  <2> QED
    BY <2>1, <2>3, <2>4 DEF PointsWell
<1> QED
  BY <1>1, <1>2

\* What a reload has to work with: contexts whose pointers are cleared.
LEMMA CleanedIs ==
    ASSUME AccessInv, NEW id \in ClientIds,
           NEW c, c = (IF ctx[id] = NULL \/ acl_list = <<>> THEN ctx[id]
                       ELSE acl_cleanup(ctx[id])),
           c # NULL
    PROVE  c \in Contexts /\ c.acl = NULL
<1>1. ctx[id] \in Contexts \cup {NULL} /\ PointsWell(ctx[id], acl_list, gen)
  BY DEF AccessInv, Typed
<1>2. CASE acl_list = <<>>
  <2>1. Len(acl_list) = 0
    BY <1>2
  <2> QED
    BY <1>1, <1>2, <2>1 DEF PointsWell, Leads
<1>3. CASE acl_list # <<>> /\ ctx[id] # NULL
  BY <1>1, <1>3 DEF acl_cleanup, Contexts
<1> QED
  BY <1>2, <1>3

LEMMA ReloadKeeps ==
    ASSUME AccessInv, Reload
    PROVE  AccessInv'
<1> DEFINE cleaned == [id \in ClientIds |->
                          IF ctx[id] = NULL \/ acl_list = <<>> THEN ctx[id]
                          ELSE acl_cleanup(ctx[id])]
<1>1. PICK conf, pws :
        /\ gen' = gen + 1
        /\ ctx' = [id \in ClientIds |->
                      IF cleaned[id] = NULL THEN NULL
                      ELSE security_apply(cleaned[id], conf, pws, acl_list', gen + 1)]
  BY DEF Reload
<1>2. gen + 1 \in Nat
  BY DEF AccessInv, Typed
<1>3. ASSUME NEW id \in ClientIds, cleaned[id] # NULL
      PROVE  cleaned[id] \in Contexts /\ cleaned[id].acl = NULL
  BY <1>3, CleanedIs
<1> HIDE DEF cleaned
<1>4. ASSUME NEW id \in ClientIds
      PROVE  ctx'[id] \in Contexts \cup {NULL} /\ PointsWell(ctx'[id], acl_list', gen')
  <2>1. CASE cleaned[id] = NULL
    BY <1>1, <2>1 DEF PointsWell
  <2>2. CASE cleaned[id] # NULL
    BY <1>1, <1>2, <1>3, <2>2, ApplyWell
  <2> QED
    BY <2>1, <2>2
<1> QED
  BY <1>1, <1>2, <1>4 DEF AccessInv, Typed

LEMMA RestartKeeps ==
    ASSUME AccessInv, Restart
    PROVE  AccessInv'
<1>1. ASSUME NEW id \in ClientIds
      PROVE  ctx'[id] \in Contexts \cup {NULL} /\ PointsWell(ctx'[id], acl_list', gen')
  BY DEF Restart, Contexts, PointsWell
<1> QED
  BY <1>1 DEF AccessInv, Typed, Restart

\* Contexts and pointers are well formed in every state: connect, disconnect,
\* reload and restart keep AccessInv.
THEOREM AccessInvariant == Spec => []AccessInv
<1>1. Init => AccessInv
  BY DEF Init, AccessInv, Typed, PointsWell
<1>2. AccessInv /\ [Next]_vars => AccessInv'
  <2> SUFFICES ASSUME AccessInv, [Next]_vars PROVE AccessInv'
    OBVIOUS
  <2>1. CASE UNCHANGED vars
    BY <2>1 DEF AccessInv, Typed, vars, db
  <2>2. CASE Next
    BY <2>2, ConnectKeeps, DisconnectKeeps, ReloadKeeps, RestartKeeps DEF Next
  <2> QED
    BY <2>1, <2>2
<1> QED
  BY <1>1, <1>2, PTL DEF Spec

\* Whatever was reloaded since a client connected, security_default.c leaves
\* no context with a pointer into a list that was freed, nor to the entry of
\* another user.
THEOREM PointersAlwaysCurrent == Spec => []PointersCurrent
<1>1. AccessInv => PointersCurrent
  BY DEF AccessInv, PointersCurrent, Known, PointsWell, Leads
<1> QED
  BY <1>1, AccessInvariant, PTL
-----------------------------------------------------------------------------
(***************************************************************************)
(* Reading mosquitto.conf.  The loop over its lines is a recursive         *)
(* function on their number: it exists, and after a file without a bad     *)
(* line an option has the value of the last line that gives it.            *)
(***************************************************************************)
\* A set of natural numbers that is not empty has a least one.
LEMMA Least ==
    ASSUME NEW T \in SUBSET Nat, T # {}
    PROVE  \E n \in T : \A m \in T : n <= m
<1> DEFINE R == OpToRel(<, Nat)
<1>1. IsWellFoundedOn(R, Nat)
  BY NatLessThanWellFounded
<1>2. \A x, y \in Nat : x < y => <<x, y>> \in R
  BY DEF OpToRel
<1> HIDE DEF R
<1>3. PICK n \in T : \A m \in T : ~(<<m, n>> \in R)
  BY <1>1, WFMin
<1>4. ASSUME NEW m \in T PROVE n <= m
  <2>1. m \in Nat /\ n \in Nat
    BY <1>3
  <2>2. ~(m < n)
    BY <1>2, <1>3, <2>1
  <2> QED
    BY <2>1, <2>2
<1> QED
  BY <1>3, <1>4

\* Induction, for a set of numbers.
LEMMA Induction ==
    ASSUME NEW S, 0 \in S, \A n \in Nat : n \in S => n + 1 \in S
    PROVE  \A n \in Nat : n \in S
<1> DEFINE T == {n \in Nat : n \notin S}
<1> SUFFICES ASSUME T # {} PROVE FALSE
  OBVIOUS
<1>1. PICK n \in T : \A m \in T : n <= m
  BY Least
<1>2. n # 0 /\ n - 1 \in Nat /\ n - 1 \notin T /\ (n - 1) + 1 = n
  BY <1>1
<1> QED
  BY <1>1, <1>2

\* g holds the configuration after each of the first k lines of f.
Reads(g, f, k) ==
    g = [i \in 0..k |-> IF i = 0 THEN [c |-> Defaults, ok |-> TRUE]
                        ELSE ReadLine(g[i - 1], f[i])]

LEMMA ReadsExists ==
    ASSUME NEW f, NEW n \in Nat
    PROVE  \E g : Reads(g, f, n)
<1> DEFINE S == {k \in Nat : \E g : Reads(g, f, k)}
<1>1. 0 \in S
  <2> DEFINE g == [i \in 0..0 |-> [c |-> Defaults, ok |-> TRUE]]
  <2>1. Reads(g, f, 0)
    BY DEF Reads
  <2> HIDE DEF g
  <2> QED
    BY <2>1
<1>2. ASSUME NEW k \in Nat, k \in S PROVE k + 1 \in S
  <2>1. PICK g : Reads(g, f, k)
    BY <1>2
  <2> DEFINE x == ReadLine(g[k], f[k + 1])
             h == [i \in 0..(k + 1) |-> IF i <= k THEN g[i] ELSE x]
  <2>2. ASSUME NEW i \in 0..(k + 1)
        PROVE  h[i] = IF i = 0 THEN [c |-> Defaults, ok |-> TRUE]
                      ELSE ReadLine(h[i - 1], f[i])
    <3>1. CASE i = 0
      BY <2>1, <3>1 DEF Reads
    <3>2. CASE i # 0 /\ i <= k
      <4>1. i \in 0..k /\ h[i] = g[i] /\ h[i - 1] = g[i - 1]
        BY <3>2
      <4>2. g[i] = ReadLine(g[i - 1], f[i])
        BY <2>1, <3>2, <4>1 DEF Reads
      <4> QED
        BY <3>2, <4>1, <4>2
    <3>3. CASE i = k + 1
      <4>1. h[i] = x /\ h[i - 1] = g[k]
        BY <3>3
      <4> QED
        BY <3>3, <4>1
    <3> QED
      BY <3>1, <3>2, <3>3
  <2>3. h = [i \in 0..(k + 1) |-> h[i]]
    OBVIOUS
  <2> HIDE DEF h
  <2>4. Reads(h, f, k + 1)
    BY <2>2, <2>3 DEF Reads
  <2> QED
    BY <2>4
<1> HIDE DEF S
<1>3. n \in S
  BY <1>1, <1>2, Induction
<1> QED
  BY <1>3 DEF S

\* p is what the first k lines of f make of an option that names a file.
OptionIs(f, k, option, p) ==
    \/ p = NoFile /\ \A i \in 1..k : f[i].option # option
    \/ \E i \in 1..k : /\ f[i].option = option /\ p = f[i].value
                       /\ \A j \in 1..k : f[j].option = option => j <= i

LEMMA OptionNext ==
    ASSUME NEW f, NEW k \in Nat, NEW option, NEW p
    PROVE  /\ f[k + 1].option = option => OptionIs(f, k + 1, option, f[k + 1].value)
           /\ f[k + 1].option # option /\ OptionIs(f, k, option, p)
                => OptionIs(f, k + 1, option, p)
<1>1. /\ \A i \in 1..(k + 1) : i \in 1..k \/ i = k + 1
      /\ \A i \in 1..k : i \in 1..(k + 1) /\ i <= k + 1
      /\ k + 1 \in 1..(k + 1)
  OBVIOUS
<1> QED
  BY <1>1 DEF OptionIs

Conf(a, p, b, o) ==
    [c |-> [acl_file |-> a, password_file |-> p, allow_anonymous |-> b], ok |-> o]

\* r is what the first k lines of f make of the configuration.
ReadTo(r, f, k) ==
    \E a, p, b : \E o \in BOOLEAN :
        /\ r = Conf(a, p, b, o)
        /\ o => OptionIs(f, k, "acl_file", a) /\ OptionIs(f, k, "password_file", p)

LEMMA ReadStep ==
    ASSUME NEW f, NEW k \in Nat, NEW r, ReadTo(r, f, k)
    PROVE  ReadTo(ReadLine(r, f[k + 1]), f, k + 1)
<1>1. PICK a, p, b : \E o \in BOOLEAN :
        /\ r = Conf(a, p, b, o)
        /\ o => OptionIs(f, k, "acl_file", a) /\ OptionIs(f, k, "password_file", p)
  BY DEF ReadTo
<1>2. PICK o \in BOOLEAN :
        /\ r = Conf(a, p, b, o)
        /\ o => OptionIs(f, k, "acl_file", a) /\ OptionIs(f, k, "password_file", p)
  BY <1>1
<1> DEFINE line == f[k + 1]
           s == ReadLine(r, line)
<1>3. CASE o = FALSE
  <2>1. s = Conf(a, p, b, FALSE)
    BY <1>2, <1>3 DEF ReadLine, Conf
  <2> QED
    BY <2>1 DEF ReadTo
<1>4. CASE o = TRUE /\ line.option = "password_file"
  <2>1. s = Conf(a, line.value, b, TRUE)
    BY <1>2, <1>4 DEF ReadLine, Conf
  <2>2. /\ OptionIs(f, k + 1, "acl_file", a)
        /\ OptionIs(f, k + 1, "password_file", line.value)
    BY <1>2, <1>4, OptionNext
  <2> QED
    BY <2>1, <2>2 DEF ReadTo
<1>5. CASE o = TRUE /\ line.option = "acl_file"
  <2>1. s = Conf(line.value, p, b, TRUE)
    BY <1>2, <1>5 DEF ReadLine, Conf
  <2>2. /\ OptionIs(f, k + 1, "acl_file", line.value)
        /\ OptionIs(f, k + 1, "password_file", p)
    BY <1>2, <1>5, OptionNext
  <2> QED
    BY <2>1, <2>2 DEF ReadTo
<1>6. CASE o = TRUE /\ line.option = "allow_anonymous"
  <2>1. s = Conf(a, p, line.value, TRUE)
    BY <1>2, <1>6 DEF ReadLine, Conf
  <2>2. OptionIs(f, k + 1, "acl_file", a) /\ OptionIs(f, k + 1, "password_file", p)
    BY <1>2, <1>6, OptionNext
  <2> QED
    BY <2>1, <2>2 DEF ReadTo
<1>7. CASE o = TRUE /\ line.option \notin {"acl_file", "password_file", "allow_anonymous"}
  <2>1. s = Conf(a, p, b, FALSE)
    BY <1>2, <1>7 DEF ReadLine, Conf
  <2> QED
    BY <2>1 DEF ReadTo
<1> QED
  BY <1>3, <1>4, <1>5, <1>6, <1>7

LEMMA ConfigReadIs ==
    ASSUME NEW f, Len(f) \in Nat
    PROVE  ReadTo(mqtt3_config_read(f), f, Len(f))
<1> DEFINE g == CHOOSE g : Reads(g, f, Len(f))
<1>1. Reads(g, f, Len(f))
  BY ReadsExists
<1>2. mqtt3_config_read(f) = g[Len(f)]
  BY DEF mqtt3_config_read, Reads
<1> HIDE DEF g
<1> DEFINE S == {k \in Nat : k <= Len(f) => ReadTo(g[k], f, k)}
<1>3. 0 \in S
  <2>1. g[0] = Conf(NoFile, NoFile, TRUE, TRUE)
    BY <1>1 DEF Reads, Conf, Defaults
  <2>2. OptionIs(f, 0, "acl_file", NoFile) /\ OptionIs(f, 0, "password_file", NoFile)
    BY DEF OptionIs
  <2> QED
    BY <2>1, <2>2 DEF ReadTo
<1>4. ASSUME NEW k \in Nat, k \in S PROVE k + 1 \in S
  <2> SUFFICES ASSUME k + 1 <= Len(f) PROVE ReadTo(g[k + 1], f, k + 1)
    OBVIOUS
  <2>1. ReadTo(g[k], f, k)
    BY <1>4
  <2>2. k + 1 \in 0..Len(f) /\ k + 1 # 0 /\ (k + 1) - 1 = k
    OBVIOUS
  <2>3. g[k + 1] = ReadLine(g[k], f[k + 1])
    BY <1>1, <2>2 DEF Reads
  <2> QED
    BY <2>1, <2>3, ReadStep
<1> HIDE DEF S
<1>5. Len(f) \in S
  BY <1>3, <1>4, Induction
<1> QED
  BY <1>2, <1>5 DEF S
-----------------------------------------------------------------------------
\* The lines of the file an option of f names.
FileLines(f, option) ==
    LET at == {i \in 1..Len(f) : f[i].option = option}
    IN  IF at = {} THEN <<>>
        ELSE f[CHOOSE i \in at : \A j \in at : j <= i].value.lines

\* The file that was read is the file the option names, if any.
LEMMA FileRead ==
    ASSUME NEW f \in Configs, NEW option \in {"acl_file", "password_file"},
           NEW file, OptionIs(f, Len(f), option, file)
    PROVE  /\ FileLines(f, option) = file.lines
           /\ FileLines(f, option) \in Seq(Range(FileLines(f, option)))
           /\ file = NoFile \/ file.named
<1>1. Len(f) \in Nat
  BY AccessAssumption
<1> DEFINE at == {i \in 1..Len(f) : f[i].option = option}
<1>2. CASE file = NoFile /\ at = {}
  <2>1. FileLines(f, option) = <<>>
    BY <1>2 DEF FileLines
  <2> QED
    BY <1>2, <2>1 DEF NoFile
<1>3. ASSUME NEW i \in at, file = f[i].value, \A j \in at : j <= i
      PROVE  /\ FileLines(f, option) = file.lines /\ file.named
             /\ file.lines \in Seq(Range(file.lines))
  <2>1. \A k \in at : (\A j \in at : j <= k) => k = i
    BY <1>1, <1>3
  <2>2. (CHOOSE k \in at : \A j \in at : j <= k) = i
    BY <2>1, <1>3
  <2>3. FileLines(f, option) = file.lines
    BY <2>2, <1>3 DEF FileLines
  <2>4. file.named /\ file.lines \in Seq(Range(file.lines))
    BY <1>3, AccessAssumption
  <2> QED
    BY <2>3, <2>4
<1>4. CASE \E i \in at : file = f[i].value /\ \A j \in at : j <= i
  BY <1>3, <1>4
<1> QED
  BY <1>2, <1>4 DEF OptionIs

LEMMA FilesRead ==
    ASSUME NEW f \in Configs, NEW conf, conf = mqtt3_config_read(f), conf.ok
    PROVE  /\ OptionIs(f, Len(f), "acl_file", conf.c.acl_file)
           /\ OptionIs(f, Len(f), "password_file", conf.c.password_file)
<1>1. Len(f) \in Nat
  BY AccessAssumption
<1> QED
  BY <1>1, ConfigReadIs DEF ReadTo, Conf

PwLines(f) == FileLines(f, "password_file")

\* A load without an error takes exactly those lines.
LEMMA PwLoaded ==
    ASSUME NEW f \in Configs, NEW conf, conf = mqtt3_config_read(f), conf.ok,
           NEW pw, pw = unpwd_file_parse(conf.c.password_file), pw.ok
    PROVE  /\ PwLines(f) \in Seq(Range(PwLines(f)))
           /\ pw.unpwd = [i \in 1..Len(PwLines(f)) |->
                             [user |-> PwLines(f)[i].user,
                              password |-> PwLines(f)[i].password]]
<1> DEFINE file == conf.c.password_file
<1>1. OptionIs(f, Len(f), "password_file", file)
  BY FilesRead
<1> HIDE DEF file
<1>2. /\ PwLines(f) = file.lines /\ PwLines(f) \in Seq(Range(PwLines(f)))
      /\ file = NoFile \/ file.named
  BY <1>1, FileRead DEF PwLines
<1>3. CASE file = NoFile
  <2>1. PwLines(f) = <<>>
    BY <1>2, <1>3 DEF NoFile
  <2>2. pw.unpwd = <<>>
    BY <1>3 DEF unpwd_file_parse, NoFile, file
  <2> QED
    BY <2>1, <2>2
<1>4. CASE file.named
  <2>1. /\ PwLines(f) = file.lines /\ file.named
        /\ file.lines \in Seq(Range(file.lines))
    BY <1>2, <1>4
  <2>2. pw = unpwd_file_parse(file)
    BY DEF file
  <2> DEFINE lines == IF file.readable THEN file.lines ELSE <<>>
             wrong == {i \in 1..Len(lines) : ~lines[i].valid}
             known == [i \in 1..Len(lines) |->
                          [user |-> lines[i].user,
                           password |-> IF lines[i].password # NULL
                                           /\ \E j \in wrong : j <= i
                                          THEN "undecoded" ELSE lines[i].password]]
             good == wrong = {} /\ (~file.named \/ file.readable)
  <2>3. pw = [ok |-> good, unpwd |-> known]
    BY <2>2, Zenon DEF unpwd_file_parse
  <2> HIDE DEF good, known, wrong, lines
  <2>4. wrong = {} /\ file.readable /\ pw.unpwd = known
    <3>1. pw.unpwd = known /\ pw.ok = good
      BY <2>3
    <3> QED
      BY <3>1, <2>1, Zenon DEF good
  <2>5. lines = file.lines
    BY <2>4 DEF lines
  <2>6. pw.unpwd = [i \in 1..Len(file.lines) |->
                       [user |-> file.lines[i].user, password |-> file.lines[i].password]]
    BY <2>4, <2>5 DEF known
  <2> QED
    BY <2>1, <2>6
<1> QED
  BY <1>2, <1>3, <1>4

\* Its users are looked up by their first line.
Vouched(pws, user, password) ==
    LET named == {i \in 1..Len(pws) : pws[i].user = user}
    IN  \/ pws = <<>>
        \/ \E i \in named : /\ \A j \in named : i <= j
                            /\ pws[i].password \in {NULL, password}

LEMMA CheckVouches ==
    ASSUME NEW lines, lines \in Seq(Range(lines)), NEW pws,
           pws = [i \in 1..Len(lines) |-> [user |-> lines[i].user,
                                           password |-> lines[i].password]],
           NEW user, NEW password
    PROVE  unpwd_check(pws, user, password) <=> Vouched(lines, user, password)
<1>1. Len(lines) \in Nat /\ DOMAIN lines = 1..Len(lines)
  OBVIOUS
<1>2. Len(pws) = Len(lines)
  BY <1>1
<1>3. pws = <<>> <=> lines = <<>>
  BY <1>1, <1>2
<1>4. \A i \in 1..Len(lines) : pws[i].user = lines[i].user
                               /\ pws[i].password = lines[i].password
  OBVIOUS
<1>5. ASSUME NEW i \in 1..Len(lines)
      PROVE  (\A j \in 1..(i - 1) : pws[j].user # user)
             <=> \A j \in {j \in 1..Len(lines) : lines[j].user = user} : i <= j
  <2>1. \A j \in 1..(i - 1) : j \in 1..Len(lines) /\ ~(i <= j)
    BY <1>1
  <2>2. \A j \in 1..Len(lines) : i <= j \/ j \in 1..(i - 1)
    BY <1>1
  <2> QED
    BY <1>4, <2>1, <2>2
<1> QED
  BY <1>2, <1>3, <1>4, <1>5 DEF unpwd_check, Vouched

\* A user who is connected stays so unless the check refuses it.
LEMMA ApplyParts ==
    ASSUME NEW c \in Contexts, c.username # NULL, c.connected,
           NEW conf, NEW pws, NEW list, NEW g \in Nat, c.acl = NULL,
           NEW e, e = security_apply(c, conf, pws, list, g)
    PROVE  e # NULL /\ e.connected <=> unpwd_check(pws, c.username, c.password)
<1>1. Refused(c, conf, pws) <=> ~unpwd_check(pws, c.username, c.password)
  BY DEF Refused
<1>2. CASE Refused(c, conf, pws)
  BY <1>1, <1>2 DEF security_apply, Disconnected, Contexts
<1>3. CASE ~Refused(c, conf, pws)
  <2>1. e # NULL => e \in Contexts
    BY ApplyWell
  <2>2. e.connected /\ e \in Contexts
    <3> DEFINE n == EntryOf(list, g, c.username)
    <3>1. n # NULL => n \in Pointers
      BY EntryLeads
    <3>2. e = [c EXCEPT !.acl = IF n = NULL THEN c.acl ELSE n]
      BY <1>3 DEF security_apply
    <3> HIDE DEF n
    <3> QED
      BY <3>1, <3>2 DEF Contexts
  <2> QED
    BY <1>1, <1>3, <2>2, AccessAssumption
<1> QED
  BY <1>2, <1>3

\* What a reload of f does to those connected.
LEMMA ReloadParts ==
    ASSUME AccessInv, Reload, clean', NEW id \in Online, ctx[id].username # NULL
    PROVE  ctx'[id] # NULL /\ ctx'[id].connected
           <=> Vouched(PwLines(applied'), ctx[id].username, ctx[id].password)
<1> DEFINE cleaned == [i \in ClientIds |->
                          IF ctx[i] = NULL \/ acl_list = <<>> THEN ctx[i]
                          ELSE acl_cleanup(ctx[i])]
           start == IF acl_list = <<>> THEN acl_patterns ELSE <<>>
<1>1. PICK f \in Configs :
        LET conf == mqtt3_config_read(f)
            init == security_init(conf.c, <<>>, start)
        IN  /\ ctx' = [i \in ClientIds |->
                          IF cleaned[i] = NULL THEN NULL
                          ELSE security_apply(cleaned[i], conf.c, init.unpwd,
                                              init.list, gen + 1)]
            /\ applied' = f /\ conf.ok /\ init.ok
  BY DEF Reload
<1> DEFINE conf == mqtt3_config_read(f)
           init == security_init(conf.c, <<>>, start)
           pw == unpwd_file_parse(conf.c.password_file)
           c == cleaned[id]
<1>2. id \in ClientIds /\ ctx[id] \in Contexts /\ ctx[id].connected
      /\ gen + 1 \in Nat
  BY DEF AccessInv, Typed, Online, Known
<1>3. /\ c \in Contexts /\ c.acl = NULL /\ c.connected
      /\ c.username = ctx[id].username /\ c.password = ctx[id].password
  <2>1. ctx[id] # NULL
    BY <1>2, AccessAssumption
  <2>2. /\ c \in Contexts /\ c.connected
        /\ c.username = ctx[id].username /\ c.password = ctx[id].password
    BY <1>2, <2>1 DEF acl_cleanup, Contexts
  <2>3. c # NULL
    BY <2>2, AccessAssumption
  <2> QED
    BY <1>2, <2>2, <2>3, CleanedIs
<1>4. init.unpwd = pw.unpwd /\ pw.ok
  BY <1>1 DEF security_init
<1>5. ctx'[id] = security_apply(c, conf.c, pw.unpwd, init.list, gen + 1)
  BY <1>1, <1>2, <1>3, <1>4, AccessAssumption
<1>6. conf.ok /\ applied' = f
  BY <1>1
<1> HIDE DEF conf, init, pw, c, cleaned
<1>7. ctx'[id] # NULL /\ ctx'[id].connected
      <=> unpwd_check(pw.unpwd, c.username, c.password)
  BY <1>2, <1>3, <1>5, ApplyParts
<1>8. /\ PwLines(f) \in Seq(Range(PwLines(f)))
      /\ pw.unpwd = [i \in 1..Len(PwLines(f)) |->
                        [user |-> PwLines(f)[i].user,
                         password |-> PwLines(f)[i].password]]
  BY <1>4, <1>6, PwLoaded DEF conf, pw
<1>9. unpwd_check(pw.unpwd, c.username, c.password)
      <=> Vouched(PwLines(f), c.username, c.password)
  BY <1>8, CheckVouches
<1> QED
  BY <1>3, <1>6, <1>7, <1>9

\* A reload without errors disconnects exactly the connected users whom the
\* password file now in force lists with another password or not at all
\* (mosquitto_security_apply_default), however many lines mosquitto.conf has
\* and in whatever order.
THEOREM ReloadAlwaysChecksUsers == Spec => ReloadChecksUsers
<1> DEFINE Checks ==
      gen' # gen /\ clean' =>
        \A id \in Online : ctx[id].username # NULL =>
          LET pws == LinesOf("password_file")'
              named == {i \in 1..Len(pws) : pws[i].user = ctx[id].username}
          IN  ctx'[id] # NULL /\ ctx'[id].connected <=>
                 \/ pws = <<>>
                 \/ \E i \in named : /\ \A j \in named : i <= j
                                     /\ pws[i].password \in {NULL, ctx[id].password}
<1>1. AccessInv /\ [Next]_vars => [Checks]_vars
  <2> SUFFICES ASSUME AccessInv, Next, gen' # gen, clean',
                      NEW id \in Online, ctx[id].username # NULL
               PROVE  ctx'[id] # NULL /\ ctx'[id].connected
                      <=> Vouched(LinesOf("password_file")', ctx[id].username,
                                  ctx[id].password)
    BY DEF Vouched
  <2>1. Reload
    BY DEF Next, mqtt3_handle_connect, mqtt3_handle_disconnect, Restart, db
  <2>2. LinesOf("password_file")' = PwLines(applied')
    BY DEF LinesOf, PwLines, FileLines
  <2> QED
    BY <2>1, <2>2, ReloadParts
<1> QED
  BY <1>1, AccessInvariant, PTL DEF Spec, ReloadChecksUsers

(***************************************************************************)
(* Reading the acl_file.  Entry by entry and line by line, the lists hold  *)
(* what the lines say, whatever their number and order.                    *)
(***************************************************************************)
Names(lines) == {NULL} \cup {lines[i].user : i \in 1..Len(lines)}
Entries(lines) == [username : Names(lines), acl : Seq(Range(lines))]

\* The list has line l for user u; the sequence s has l.
Has(s, l) == \E n \in 1..Len(s) : s[n] = l
Lists(list, u, l) == \E i \in 1..Len(list) : list[i].username = u /\ Has(list[i].acl, l)

\* A user has one entry, and an entry is not empty.
OnePerUser(list) ==
    /\ \A i, j \in 1..Len(list) : list[i].username = list[j].username => i = j
    /\ \A i \in 1..Len(list) : \E l : Has(list[i].acl, l)

LEMMA AppendHas ==
    ASSUME NEW S, NEW s \in Seq(S), NEW x \in S
    PROVE  /\ Append(s, x) \in Seq(S)
           /\ \A l : Has(Append(s, x), l) <=> Has(s, l) \/ l = x
<1> DEFINE r == Append(s, x)
<1>1. /\ r \in Seq(S) /\ Len(s) \in Nat /\ Len(r) = Len(s) + 1 /\ r[Len(s) + 1] = x
      /\ \A i \in 1..Len(s) : r[i] = s[i]
  OBVIOUS
<1> HIDE DEF r
<1>2. \A i \in 1..Len(r) : i \in 1..Len(s) \/ i = Len(s) + 1
  BY <1>1
<1>3. /\ \A i \in 1..Len(s) : i \in 1..Len(r)
      /\ Len(s) + 1 \in 1..Len(r)
  BY <1>1
<1>4. \A l : Has(r, l) <=> Has(s, l) \/ l = x
  BY <1>1, <1>2, <1>3 DEF Has
<1> QED
  BY <1>1, <1>4 DEF r

LEMMA AddAclIs ==
    ASSUME NEW lines, NEW list \in Seq(Entries(lines)), OnePerUser(list),
           NEW user \in Names(lines), NEW line \in Range(lines),
           NEW r, r = add_acl(list, user, line)
    PROVE  /\ r \in Seq(Entries(lines)) /\ OnePerUser(r)
           /\ \A u, l : Lists(r, u, l) <=> Lists(list, u, l) \/ (u = user /\ l = line)
<1>1. Len(list) \in Nat /\ \A i \in 1..Len(list) : list[i] \in Entries(lines)
  OBVIOUS
<1>2. CASE \E i \in 1..Len(list) : list[i].username = user
  <2>1. PICK k \in 1..Len(list) : list[k].username = user
    BY <1>2
  <2> DEFINE new == [list[k] EXCEPT !.acl = Append(list[k].acl, line)]
  <2>2. list[k].acl \in Seq(Range(lines)) /\ list[k] \in Entries(lines)
    BY <1>1 DEF Entries
  <2>3. /\ Append(list[k].acl, line) \in Seq(Range(lines))
        /\ \A l : Has(Append(list[k].acl, line), l) <=> Has(list[k].acl, l) \/ l = line
    BY <2>2, AppendHas
  <2>4. /\ new \in Entries(lines) /\ new.username = user
        /\ new.acl = Append(list[k].acl, line)
    BY <2>1, <2>2, <2>3 DEF Entries
  <2>5. \A i \in 1..Len(list) : list[i].username = user <=> i = k
    BY <2>1 DEF OnePerUser
  <2>6. r = [i \in 1..Len(list) |->
                IF list[i].username = user
                  THEN [list[i] EXCEPT !.acl = Append(@, line)] ELSE list[i]]
    BY <1>2 DEF add_acl
  <2>7. \A i \in 1..Len(list) : r[i] = IF i = k THEN new ELSE list[i]
    BY <2>5, <2>6
  <2> HIDE DEF new
  <2>8. r \in Seq(Entries(lines)) /\ Len(r) = Len(list)
    <3>1. \A i \in 1..Len(list) : r[i] \in Entries(lines)
      BY <1>1, <2>4, <2>7
    <3>2. DOMAIN r = 1..Len(list) /\ r = [i \in 1..Len(list) |-> r[i]]
      BY <2>6
    <3> QED
      BY <1>1, <3>1, <3>2
  <2>9. /\ \A i \in 1..Len(list) : r[i].username = list[i].username
        /\ \A i \in 1..Len(list) : i # k => r[i].acl = list[i].acl
        /\ \A l : Has(r[k].acl, l) <=> Has(list[k].acl, l) \/ l = line
    BY <2>1, <2>3, <2>4, <2>7
  <2>10. OnePerUser(r)
    <3>1. \A i, j \in 1..Len(list) : r[i].username = r[j].username => i = j
      BY <2>9 DEF OnePerUser
    <3>2. ASSUME NEW i \in 1..Len(list) PROVE \E l : Has(r[i].acl, l)
      BY <2>9 DEF OnePerUser
    <3> QED
      BY <2>8, <3>1, <3>2 DEF OnePerUser
  <2>11. ASSUME NEW u, NEW l
         PROVE  Lists(r, u, l) <=> Lists(list, u, l) \/ (u = user /\ l = line)
    BY <2>1, <2>8, <2>9 DEF Lists
  <2> QED
    BY <2>8, <2>10, <2>11
<1>3. CASE ~\E i \in 1..Len(list) : list[i].username = user
  <2> DEFINE new == [username |-> user, acl |-> <<line>>]
  <2>1. /\ new \in Entries(lines) /\ new.username = user
        /\ \A l : Has(new.acl, l) <=> l = line
    BY DEF Entries, Has
  <2>2. r = Append(list, new)
    BY <1>3 DEF add_acl
  <2> HIDE DEF new
  <2>3. /\ r \in Seq(Entries(lines)) /\ Len(r) = Len(list) + 1
        /\ r[Len(list) + 1] = new /\ \A i \in 1..Len(list) : r[i] = list[i]
    BY <2>1, <2>2
  <2>4. \A i \in 1..Len(r) : i \in 1..Len(list) \/ i = Len(list) + 1
    BY <1>1, <2>3
  <2>5. /\ \A i \in 1..Len(list) : i \in 1..Len(r)
        /\ Len(list) + 1 \in 1..Len(r)
    BY <1>1, <2>3
  <2>6. OnePerUser(r)
    <3>1. \A i, j \in 1..Len(r) : r[i].username = r[j].username => i = j
      BY <1>3, <2>1, <2>3, <2>4 DEF OnePerUser
    <3>2. \A i \in 1..Len(r) : \E l : Has(r[i].acl, l)
      BY <2>1, <2>3, <2>4 DEF OnePerUser
    <3> QED
      BY <3>1, <3>2 DEF OnePerUser
  <2>7. ASSUME NEW u, NEW l
        PROVE  Lists(r, u, l) <=> Lists(list, u, l) \/ (u = user /\ l = line)
    BY <2>1, <2>3, <2>4, <2>5 DEF Lists
  <2> QED
    BY <2>3, <2>6, <2>7
<1> QED
  BY <1>2, <1>3

\* The user lines among the first k, and the user they leave.
UsersTo(lines, k) == {j \in 1..k : lines[j].kind = "user"}
LastUser(lines, at) ==
    IF at = {} THEN NULL
    ELSE lines[CHOOSE j \in at : \A i \in at : i <= j].user
UserAfter(lines, k) == LastUser(lines, UsersTo(lines, k))

LEMMA OwnerIs ==
    ASSUME NEW lines, NEW k \in Nat
    PROVE  Owner(lines, k + 1) = UserAfter(lines, k)
<1> DEFINE at == {j \in 1..((k + 1) - 1) : lines[j].kind = "user"}
<1>1. at = UsersTo(lines, k)
  BY DEF UsersTo
<1>2. Owner(lines, k + 1) = LastUser(lines, at)
  BY DEF Owner, LastUser
<1> HIDE DEF at
<1> QED
  BY <1>1, <1>2 DEF UserAfter

LEMMA UserAfterNext ==
    ASSUME NEW lines, NEW k \in Nat
    PROVE  UserAfter(lines, k + 1) = IF lines[k + 1].kind = "user" THEN lines[k + 1].user
                                     ELSE UserAfter(lines, k)
<1>1. CASE lines[k + 1].kind = "user"
  <2> DEFINE at == UsersTo(lines, k + 1)
  <2>1. k + 1 \in at /\ \A i \in at : i \in Nat /\ i <= k + 1
    BY <1>1 DEF UsersTo
  <2> HIDE DEF at
  <2>2. \A j \in at : (\A i \in at : i <= j) => j = k + 1
    BY <2>1
  <2>3. (CHOOSE j \in at : \A i \in at : i <= j) = k + 1
    BY <2>1, <2>2
  <2> QED
    BY <1>1, <2>1, <2>3 DEF UserAfter, LastUser, at
<1>2. CASE lines[k + 1].kind # "user"
  <2>1. UsersTo(lines, k + 1) = UsersTo(lines, k)
    BY <1>2 DEF UsersTo
  <2> QED
    BY <1>2, <2>1 DEF UserAfter
<1> QED
  BY <1>1, <1>2

\* One of the first k lines says l, for user u; is the pattern l.
SaysTopic(lines, k, u, l) ==
    \E j \in 1..k : lines[j].kind = "topic" /\ Owner(lines, j) = u /\ lines[j] = l
SaysPattern(lines, k, l) == \E j \in 1..k : lines[j].kind = "pattern" /\ lines[j] = l

AclStates(lines) ==
    [ok : BOOLEAN, user : Names(lines), list : Seq(Entries(lines)),
     patterns : Seq(Range(lines))]

\* The lists are what the first k lines say.
ListIs(list, lines, k) ==
    OnePerUser(list) /\ \A u, l : Lists(list, u, l) <=> SaysTopic(lines, k, u, l)
PatternsAre(s, lines, k) == \A l : Has(s, l) <=> SaysPattern(lines, k, l)

\* s is what the first k lines of an acl_file make of empty lists.
AclTo(s, lines, k) ==
    /\ s \in AclStates(lines)
    /\ s.ok => /\ s.user = UserAfter(lines, k)
               /\ ListIs(s.list, lines, k) /\ PatternsAre(s.patterns, lines, k)

LEMMA SaysNext ==
    ASSUME NEW lines, NEW k \in Nat
    PROVE  /\ \A u, l : SaysTopic(lines, k + 1, u, l) <=>
                  \/ SaysTopic(lines, k, u, l)
                  \/ /\ lines[k + 1].kind = "topic" /\ Owner(lines, k + 1) = u
                     /\ lines[k + 1] = l
           /\ \A l : SaysPattern(lines, k + 1, l) <=>
                  SaysPattern(lines, k, l) \/ (lines[k + 1].kind = "pattern" /\ lines[k + 1] = l)
<1>1. /\ \A i \in 1..(k + 1) : i \in 1..k \/ i = k + 1
      /\ \A i \in 1..k : i \in 1..(k + 1)
      /\ k + 1 \in 1..(k + 1)
  OBVIOUS
<1> QED
  BY <1>1 DEF SaysTopic, SaysPattern

LEMMA AclStep ==
    ASSUME NEW lines, lines \in Seq(Range(lines)), NEW k \in Nat, k + 1 <= Len(lines),
           NEW s, AclTo(s, lines, k)
    PROVE  AclTo(AclLine(s, lines[k + 1]), lines, k + 1)
<1> DEFINE line == lines[k + 1]
           r == AclLine(s, line)
<1>1. k + 1 \in 1..Len(lines) /\ line \in Range(lines) /\ line.user \in Names(lines)
  BY DEF Names
<1>2. s \in AclStates(lines)
  BY DEF AclTo
<1>3. CASE ~s.ok
  <2>1. r = s
    BY <1>3 DEF AclLine
  <2> QED
    BY <1>2, <1>3, <2>1 DEF AclTo
<1>4. CASE s.ok
  <2>1. /\ s.user = UserAfter(lines, k) /\ s.user = Owner(lines, k + 1)
        /\ ListIs(s.list, lines, k) /\ PatternsAre(s.patterns, lines, k)
    BY <1>4, OwnerIs DEF AclTo
  <2>2. CASE line.kind = "user"
    <3>1. r = [s EXCEPT !.user = line.user]
      BY <1>4, <2>2 DEF AclLine
    <3>2. /\ r \in AclStates(lines) /\ r.user = line.user
          /\ r.list = s.list /\ r.patterns = s.patterns
      BY <1>1, <1>2, <3>1 DEF AclStates
    <3>3. r.user = UserAfter(lines, k + 1)
      BY <2>2, <3>2, UserAfterNext
    <3>4. ListIs(r.list, lines, k + 1) /\ PatternsAre(r.patterns, lines, k + 1)
      BY <2>1, <2>2, <3>2, SaysNext DEF ListIs, PatternsAre
    <3> QED
      BY <3>2, <3>3, <3>4 DEF AclTo
  <2>3. CASE line.kind = "topic"
    <3> DEFINE new == add_acl(s.list, s.user, line)
    <3>1. r = [s EXCEPT !.list = new]
      BY <1>4, <2>3 DEF AclLine
    <3>2. s.list \in Seq(Entries(lines)) /\ s.user \in Names(lines) /\ OnePerUser(s.list)
      BY <1>2, <2>1 DEF AclStates, ListIs
    <3>3. /\ new \in Seq(Entries(lines)) /\ OnePerUser(new)
          /\ \A u, l : Lists(new, u, l) <=> Lists(s.list, u, l) \/ (u = s.user /\ l = line)
      BY <1>1, <3>2, AddAclIs
    <3> HIDE DEF new
    <3>4. /\ r \in AclStates(lines) /\ r.user = s.user
          /\ r.list = new /\ r.patterns = s.patterns
      BY <1>2, <3>1, <3>3 DEF AclStates
    <3>5. r.user = UserAfter(lines, k + 1)
      BY <2>1, <2>3, <3>4, UserAfterNext
    <3>6. ListIs(new, lines, k + 1)
      BY <2>1, <2>3, <3>3, SaysNext DEF ListIs
    <3>7. PatternsAre(s.patterns, lines, k + 1)
      BY <2>1, <2>3, SaysNext DEF PatternsAre
    <3> QED
      BY <3>4, <3>5, <3>6, <3>7 DEF AclTo
  <2>4. CASE line.kind = "pattern"
    <3> DEFINE new == Append(s.patterns, line)
    <3>1. r = [s EXCEPT !.patterns = new]
      BY <1>4, <2>4 DEF AclLine
    <3>2. s.patterns \in Seq(Range(lines))
      BY <1>2 DEF AclStates
    <3>3. /\ new \in Seq(Range(lines))
          /\ \A l : Has(new, l) <=> Has(s.patterns, l) \/ l = line
      BY <1>1, <3>2, AppendHas
    <3> HIDE DEF new
    <3>4. /\ r \in AclStates(lines) /\ r.user = s.user
          /\ r.list = s.list /\ r.patterns = new
      BY <1>2, <3>1, <3>3 DEF AclStates
    <3>5. r.user = UserAfter(lines, k + 1)
      BY <2>1, <2>4, <3>4, UserAfterNext
    <3>6. ListIs(s.list, lines, k + 1)
      BY <2>1, <2>4, SaysNext DEF ListIs
    <3>7. PatternsAre(new, lines, k + 1)
      BY <2>1, <2>4, <3>3, SaysNext DEF PatternsAre
    <3> QED
      BY <3>4, <3>5, <3>6, <3>7 DEF AclTo
  <2>5. CASE line.kind \notin {"user", "topic", "pattern"}
    <3>1. r = [s EXCEPT !.ok = FALSE]
      BY <1>4, <2>5 DEF AclLine
    <3>2. r \in AclStates(lines) /\ r.ok = FALSE
      BY <1>2, <3>1 DEF AclStates
    <3> QED
      BY <3>2 DEF AclTo
  <2> QED
    BY <2>2, <2>3, <2>4, <2>5
<1> QED
  BY <1>3, <1>4

\* g holds what the lines of an acl_file have made of start, line by line.
AclReads(g, start, lines, k) ==
    g = [i \in 0..k |-> IF i = 0 THEN start ELSE AclLine(g[i - 1], lines[i])]

LEMMA AclReadsExists ==
    ASSUME NEW start, NEW lines, NEW n \in Nat
    PROVE  \E g : AclReads(g, start, lines, n)
<1> DEFINE S == {k \in Nat : \E g : AclReads(g, start, lines, k)}
<1>1. 0 \in S
  <2> DEFINE g == [i \in 0..0 |-> start]
  <2>1. AclReads(g, start, lines, 0)
    BY DEF AclReads
  <2> HIDE DEF g
  <2> QED
    BY <2>1
<1>2. ASSUME NEW k \in Nat, k \in S PROVE k + 1 \in S
  <2>1. PICK g : AclReads(g, start, lines, k)
    BY <1>2
  <2> DEFINE x == AclLine(g[k], lines[k + 1])
             h == [i \in 0..(k + 1) |-> IF i <= k THEN g[i] ELSE x]
  <2>2. ASSUME NEW i \in 0..(k + 1)
        PROVE  h[i] = IF i = 0 THEN start ELSE AclLine(h[i - 1], lines[i])
    <3>1. CASE i = 0
      BY <2>1, <3>1 DEF AclReads
    <3>2. CASE i # 0 /\ i <= k
      <4>1. i \in 0..k /\ h[i] = g[i] /\ h[i - 1] = g[i - 1]
        BY <3>2
      <4>2. g[i] = AclLine(g[i - 1], lines[i])
        BY <2>1, <3>2, <4>1 DEF AclReads
      <4> QED
        BY <3>2, <4>1, <4>2
    <3>3. CASE i = k + 1
      <4>1. h[i] = x /\ h[i - 1] = g[k]
        BY <3>3
      <4> QED
        BY <3>3, <4>1
    <3> QED
      BY <3>1, <3>2, <3>3
  <2>3. h = [i \in 0..(k + 1) |-> h[i]]
    OBVIOUS
  <2> HIDE DEF h
  <2>4. AclReads(h, start, lines, k + 1)
    BY <2>2, <2>3 DEF AclReads
  <2> QED
    BY <2>4
<1> HIDE DEF S
<1>3. n \in S
  BY <1>1, <1>2, Induction
<1> QED
  BY <1>3 DEF S

LEMMA AclParseIs ==
    ASSUME NEW file, file.lines \in Seq(Range(file.lines))
    PROVE  AclTo(aclfile_parse(file, <<>>, <<>>), file.lines, Len(file.lines))
<1> DEFINE lines == file.lines
           start == [ok |-> ~file.named \/ file.readable, user |-> NULL,
                     list |-> <<>>, patterns |-> <<>>]
           g == CHOOSE g : AclReads(g, start, lines, Len(lines))
<1>1. Len(lines) \in Nat
  OBVIOUS
<1>2. AclReads(g, start, lines, Len(lines))
  BY <1>1, AclReadsExists
<1>3. aclfile_parse(file, <<>>, <<>>) = g[Len(lines)]
  BY DEF aclfile_parse, AclReads
<1>4. AclTo(start, lines, 0)
  <2>1. start \in AclStates(lines)
    BY DEF AclStates, Names
  <2>2. start.user = UserAfter(lines, 0)
    BY DEF UserAfter, LastUser, UsersTo
  <2>3. ListIs(start.list, lines, 0)
    BY DEF ListIs, OnePerUser, Lists, SaysTopic
  <2>4. PatternsAre(start.patterns, lines, 0)
    BY DEF PatternsAre, Has, SaysPattern
  <2> QED
    BY <2>1, <2>2, <2>3, <2>4 DEF AclTo
<1> HIDE DEF g, start
<1> DEFINE S == {k \in Nat : k <= Len(lines) => AclTo(g[k], lines, k)}
<1>5. 0 \in S
  <2>1. g[0] = start
    BY <1>1, <1>2 DEF AclReads
  <2> QED
    BY <1>4, <2>1
<1>6. ASSUME NEW k \in Nat, k \in S PROVE k + 1 \in S
  <2> SUFFICES ASSUME k + 1 <= Len(lines) PROVE AclTo(g[k + 1], lines, k + 1)
    OBVIOUS
  <2>1. AclTo(g[k], lines, k)
    BY <1>1, <1>6
  <2>2. k + 1 \in 0..Len(lines) /\ k + 1 # 0 /\ (k + 1) - 1 = k
    BY <1>1
  <2>3. g[k + 1] = AclLine(g[k], lines[k + 1])
    BY <1>2, <2>2 DEF AclReads
  <2> QED
    BY <2>1, <2>3, AclStep
<1> HIDE DEF S
<1>7. Len(lines) \in S
  BY <1>1, <1>5, <1>6, Induction
<1> QED
  BY <1>1, <1>3, <1>7 DEF S

\* The lists are those the acl_file of f describes.
AsWritten(list, patterns, f) ==
    LET lines == FileLines(f, "acl_file")
    IN  /\ lines \in Seq(Range(lines))
        /\ list \in Seq(Entries(lines)) /\ ListIs(list, lines, Len(lines))
        /\ patterns \in Seq(Range(lines)) /\ PatternsAre(patterns, lines, Len(lines))

LEMMA AclLoaded ==
    ASSUME NEW f \in Configs, NEW conf, conf = mqtt3_config_read(f), conf.ok,
           NEW init, init = security_init(conf.c, <<>>, <<>>), init.ok
    PROVE  AsWritten(init.list, init.patterns, f)
<1> DEFINE file == conf.c.acl_file
           lines == FileLines(f, "acl_file")
           acl == aclfile_parse(file, <<>>, <<>>)
<1>1. OptionIs(f, Len(f), "acl_file", file)
  BY FilesRead
<1>2. lines = file.lines /\ lines \in Seq(Range(lines))
  BY <1>1, FileRead
<1>3. init.list = acl.list /\ init.patterns = acl.patterns /\ acl.ok
  BY DEF security_init
<1>4. AclTo(acl, lines, Len(lines))
  BY <1>2, AclParseIs
<1> HIDE DEF acl, lines
<1>5. /\ acl.list \in Seq(Entries(lines)) /\ ListIs(acl.list, lines, Len(lines))
      /\ acl.patterns \in Seq(Range(lines)) /\ PatternsAre(acl.patterns, lines, Len(lines))
  BY <1>3, <1>4 DEF AclTo, AclStates
<1> QED
  BY <1>2, <1>3, <1>5 DEF AsWritten, lines

-----------------------------------------------------------------------------
\* A client that is online points to the entry of its user, if there is one.
Assigned(c, list, g) == c # NULL /\ c.connected => c.acl = EntryOf(list, g, c.username)

WrittenInv ==
    /\ applied \in Configs
    /\ clean => AsWritten(acl_list, acl_patterns, applied)
    /\ \A id \in ClientIds : Assigned(ctx[id], acl_list, gen)

LEMMA LoadedWritten ==
    ASSUME NEW f \in Configs, Loaded(f).ok
    PROVE  AsWritten(Loaded(f).init.list, Loaded(f).init.patterns, f)
<1> DEFINE conf == mqtt3_config_read(f)
           init == security_init(conf.c, <<>>, <<>>)
<1>1. Loaded(f).init = init /\ conf.ok /\ init.ok
  BY DEF Loaded
<1> HIDE DEF init, conf
<1>2. AsWritten(init.list, init.patterns, f)
  BY <1>1, AclLoaded DEF init, conf
<1> QED
  BY <1>1, <1>2

LEMMA ApplyAssigns ==
    ASSUME NEW c \in Contexts, c.acl = NULL, NEW conf, NEW pws, NEW list, NEW g \in Nat
    PROVE  Assigned(security_apply(c, conf, pws, list, g), list, g)
<1> DEFINE n == EntryOf(list, g, c.username)
           e == security_apply(c, conf, pws, list, g)
<1>1. CASE Refused(c, conf, pws)
  <2>1. e = NULL \/ e.connected = FALSE
    BY <1>1 DEF security_apply, Disconnected, Contexts
  <2> QED
    BY <2>1 DEF Assigned
<1>2. CASE ~Refused(c, conf, pws)
  <2>1. e = [c EXCEPT !.acl = IF n = NULL THEN c.acl ELSE n]
    BY <1>2 DEF security_apply
  <2> HIDE DEF n
  <2>2. e.acl = n /\ e.username = c.username
    BY <2>1 DEF Contexts
  <2> QED
    BY <2>2 DEF Assigned, n
<1> QED
  BY <1>1, <1>2

LEMMA WrittenConnect ==
    ASSUME AccessInv, WrittenInv, mqtt3_handle_connect
    PROVE  WrittenInv'
<1>1. PICK p \in Packets, asId \in UserIsId :
         \E id \in IF asId THEN {p.user} ELSE IdFor(p) :
            ctx' = [ctx EXCEPT ![id] =
                       [username |-> p.user,
                        password |-> IF p.user = NULL THEN NULL ELSE p.password,
                        acl |-> EntryOf(acl_list, gen, p.user),
                        clean |-> p.clean, connected |-> TRUE]]
  BY DEF mqtt3_handle_connect
<1> DEFINE c == [username |-> p.user,
                 password |-> IF p.user = NULL THEN NULL ELSE p.password,
                 acl |-> EntryOf(acl_list, gen, p.user),
                 clean |-> p.clean, connected |-> TRUE]
<1>2. PICK id : ctx' = [ctx EXCEPT ![id] = c]
  BY <1>1
<1>3. UNCHANGED <<acl_list, acl_patterns, gen, applied, clean>>
  BY DEF mqtt3_handle_connect, db, history
<1>4. Assigned(c, acl_list, gen)
  BY DEF Assigned
<1> HIDE DEF c
<1>5. ctx \in [ClientIds -> Contexts \cup {NULL}]
  BY DEF AccessInv, Typed
<1>6. \A i \in ClientIds : Assigned(ctx'[i], acl_list, gen)
  BY <1>2, <1>4, <1>5 DEF WrittenInv
<1> QED
  BY <1>3, <1>6 DEF WrittenInv

LEMMA WrittenDisconnect ==
    ASSUME AccessInv, WrittenInv, NEW id \in ClientIds, mqtt3_handle_disconnect(id)
    PROVE  WrittenInv'
<1>1. ctx[id] \in Contexts /\ ctx \in [ClientIds -> Contexts \cup {NULL}]
  BY DEF AccessInv, Typed, mqtt3_handle_disconnect
<1>2. /\ UNCHANGED <<acl_list, acl_patterns, gen, applied, clean>>
      /\ ctx' = [ctx EXCEPT ![id] = Disconnected(ctx[id])]
  BY DEF mqtt3_handle_disconnect, db, history
<1>3. Disconnected(ctx[id]) = NULL \/ Disconnected(ctx[id]).connected = FALSE
  BY <1>1 DEF Disconnected, Contexts
<1>4. \A i \in ClientIds : Assigned(ctx'[i], acl_list, gen)
  BY <1>1, <1>2, <1>3 DEF WrittenInv, Assigned
<1> QED
  BY <1>2, <1>4 DEF WrittenInv

LEMMA WrittenReload ==
    ASSUME AccessInv, WrittenInv, Reload
    PROVE  WrittenInv'
<1> DEFINE cleaned == [i \in ClientIds |->
                          IF ctx[i] = NULL \/ acl_list = <<>> THEN ctx[i]
                          ELSE acl_cleanup(ctx[i])]
           start == IF acl_list = <<>> THEN acl_patterns ELSE <<>>
<1>1. PICK f \in Configs :
        LET conf == mqtt3_config_read(f)
            init == security_init(conf.c, <<>>, start)
        IN  /\ gen' = gen + 1 /\ acl_list' = init.list /\ acl_patterns' = init.patterns
            /\ ctx' = [i \in ClientIds |->
                          IF cleaned[i] = NULL THEN NULL
                          ELSE security_apply(cleaned[i], conf.c, init.unpwd,
                                              init.list, gen + 1)]
            /\ applied' = f
            /\ clean' = (conf.ok /\ init.ok /\ (acl_list = <<>> => acl_patterns = <<>>))
  BY DEF Reload
<1> DEFINE conf == mqtt3_config_read(f)
           init == security_init(conf.c, <<>>, start)
<1>2. /\ gen' = gen + 1 /\ acl_list' = init.list /\ acl_patterns' = init.patterns
      /\ ctx' = [i \in ClientIds |->
                    IF cleaned[i] = NULL THEN NULL
                    ELSE security_apply(cleaned[i], conf.c, init.unpwd,
                                        init.list, gen + 1)]
      /\ applied' = f
  BY <1>1
<1>3. clean' => conf.ok /\ init.ok /\ (acl_list = <<>> => acl_patterns = <<>>)
  BY <1>1
<1>4. clean' => AsWritten(init.list, init.patterns, f)
  <2> SUFFICES ASSUME clean' PROVE AsWritten(init.list, init.patterns, f)
    OBVIOUS
  <2>1. start = <<>> /\ conf.ok /\ init.ok
    BY <1>3
  <2>2. init = security_init(conf.c, <<>>, <<>>)
    BY <2>1
  <2> HIDE DEF init, conf
  <2> QED
    BY <2>1, <2>2, AclLoaded DEF conf
<1>5. ASSUME NEW i \in ClientIds PROVE Assigned(ctx'[i], init.list, gen + 1)
  <2>1. gen + 1 \in Nat
    BY DEF AccessInv, Typed
  <2>2. CASE cleaned[i] = NULL
    BY <1>2, <2>2 DEF Assigned
  <2>3. CASE cleaned[i] # NULL
    <3>1. cleaned[i] \in Contexts /\ cleaned[i].acl = NULL
      BY <2>3, CleanedIs
    <3>2. ctx'[i] = security_apply(cleaned[i], conf.c, init.unpwd, init.list, gen + 1)
      BY <1>2, <2>3
    <3> HIDE DEF cleaned, init, conf
    <3> QED
      BY <2>1, <3>1, <3>2, ApplyAssigns
  <2> QED
    BY <2>2, <2>3
<1> HIDE DEF init, conf, cleaned
<1> QED
  BY <1>2, <1>4, <1>5 DEF WrittenInv

LEMMA WrittenRestart ==
    ASSUME WrittenInv, Restart
    PROVE  WrittenInv'
<1>1. PICK f \in {f \in Configs : Loaded(f).ok} :
        /\ acl_list' = Loaded(f).init.list /\ acl_patterns' = Loaded(f).init.patterns
        /\ applied' = f
  BY DEF Restart
<1>2. AsWritten(acl_list', acl_patterns', applied')
  BY <1>1, LoadedWritten
<1>3. \A id \in ClientIds : Assigned(ctx'[id], acl_list', gen')
  BY DEF Restart, Assigned
<1> QED
  BY <1>1, <1>2, <1>3 DEF WrittenInv

LEMMA WrittenInvariant == Spec => []WrittenInv
<1>1. Init => WrittenInv
  <2> SUFFICES ASSUME Init PROVE WrittenInv
    OBVIOUS
  <2>1. PICK f \in {f \in Configs : Loaded(f).ok} :
          /\ acl_list = Loaded(f).init.list /\ acl_patterns = Loaded(f).init.patterns
          /\ applied = f
    BY DEF Init
  <2>2. AsWritten(acl_list, acl_patterns, applied)
    BY <2>1, LoadedWritten
  <2>3. \A id \in ClientIds : Assigned(ctx[id], acl_list, gen)
    BY DEF Init, Assigned
  <2> QED
    BY <2>1, <2>2, <2>3 DEF WrittenInv
<1>2. AccessInv /\ WrittenInv /\ [Next]_vars => WrittenInv'
  <2> SUFFICES ASSUME AccessInv, WrittenInv, [Next]_vars PROVE WrittenInv'
    OBVIOUS
  <2>1. CASE UNCHANGED vars
    BY <2>1 DEF WrittenInv, vars, db, history
  <2>2. CASE Next
    BY <2>2, WrittenConnect, WrittenDisconnect, WrittenReload, WrittenRestart DEF Next
  <2> QED
    BY <2>1, <2>2
<1> QED
  BY <1>1, <1>2, AccessInvariant, PTL DEF Spec

\* A set of numbers up to n has a greatest one.
LEMMA MaxOf ==
    ASSUME NEW n \in Nat, NEW T \in SUBSET (1..n), T # {}
    PROVE  \E k \in T : \A j \in T : j <= k
<1> DEFINE U == {m \in Nat : \A j \in T : j <= m}
<1>1. n \in U
  OBVIOUS
<1>2. PICK k \in U : \A m \in U : k <= m
  BY <1>1, Least
<1>3. k \in T
  <2> SUFFICES ASSUME k \notin T PROVE FALSE
    OBVIOUS
  <2>1. \A j \in T : j \in Nat /\ 1 <= j /\ j <= k /\ j # k
    BY <1>2
  <2>2. k - 1 \in Nat /\ \A j \in T : j <= k - 1
    <3>1. PICK j \in T : TRUE
      OBVIOUS
    <3>2. k \in Nat /\ j \in Nat /\ 1 <= j /\ j <= k
      BY <1>2, <2>1
    <3> HIDE DEF U
    <3> QED
      BY <2>1, <3>2
  <2> QED
    BY <1>2, <2>2
<1> QED
  BY <1>2, <1>3

-----------------------------------------------------------------------------
(***************************************************************************)
(* The check and the files.                                                *)
(***************************************************************************)
\* A line of the acl_file lets a client at a topic, as the check sees it.
TopicLets(l, t, a) == mosquitto_topic_matches_sub(l.topic, t) /\ a \in l.access
PatternLets(l, user, id, t, a) ==
    /\ UsesName(l.topic) => user # NULL
    /\ mosquitto_topic_matches_sub(Substitute(l.topic, id, user), t)
    /\ a \in l.access

\* The check asks the lines of the user's entry and the patterns.
LEMMA CheckIs ==
    ASSUME NEW lines, acl_list \in Seq(Entries(lines)), OnePerUser(acl_list),
           acl_patterns \in Seq(Range(lines)), gen \in Nat,
           NEW id, Assigned(ctx[id], acl_list, gen), ctx[id] # NULL, ctx[id].connected,
           NEW user, user = ctx[id].username, NEW t, NEW a
    PROVE  mosquitto_acl_check(id, t, a) <=>
             \/ acl_list = <<>> /\ acl_patterns = <<>>
             \/ \E l : Lists(acl_list, user, l) /\ TopicLets(l, t, a)
             \/ \E l : Has(acl_patterns, l) /\ PatternLets(l, user, id, t, a)
<1> DEFINE own == IF ctx[id].acl = NULL THEN <<>> ELSE acl_list[ctx[id].acl.index].acl
<1>1. \A l : Has(own, l) <=> Lists(acl_list, user, l)
  <2>1. ctx[id].acl = EntryOf(acl_list, gen, user)
    BY DEF Assigned
  <2>2. CASE \E i \in 1..Len(acl_list) : acl_list[i].username = user
    <3> DEFINE k == CHOOSE i \in 1..Len(acl_list) : acl_list[i].username = user
    <3>1. k \in 1..Len(acl_list) /\ acl_list[k].username = user /\ k \in Nat
      BY <2>2
    <3>2. ctx[id].acl = [gen |-> gen, index |-> k]
      BY <2>1, <2>2 DEF EntryOf
    <3> HIDE DEF k
    <3>3. ctx[id].acl \in Pointers /\ ctx[id].acl.index = k
      BY <3>1, <3>2 DEF Pointers
    <3>4. own = acl_list[k].acl
      BY <3>3, AccessAssumption
    <3>5. \A i \in 1..Len(acl_list) : acl_list[i].username = user <=> i = k
      BY <3>1 DEF OnePerUser
    <3> HIDE DEF own
    <3> QED
      BY <3>1, <3>4, <3>5 DEF Lists
  <2>3. CASE ~\E i \in 1..Len(acl_list) : acl_list[i].username = user
    <3>1. ctx[id].acl = NULL
      BY <2>1, <2>3 DEF EntryOf
    <3>2. \A l : ~Has(own, l)
      BY <3>1 DEF Has
    <3> QED
      BY <2>3, <3>2 DEF Lists
  <2> QED
    BY <2>2, <2>3
<1>2. mosquitto_acl_check(id, t, a) <=>
        \/ acl_list = <<>> /\ acl_patterns = <<>>
        \/ \E i \in 1..Len(own) : /\ IsDollar(t) => IsDollar(own[i].topic)
                                  /\ mosquitto_topic_matches_sub(own[i].topic, t)
                                  /\ a \in own[i].access
        \/ \E i \in 1..Len(acl_patterns) : PatternLets(acl_patterns[i], user, id, t, a)
  BY Zenon DEF mosquitto_acl_check, PatternLets
<1> HIDE DEF own
<1>3. \A l : mosquitto_topic_matches_sub(l.topic, t) => (IsDollar(t) => IsDollar(l.topic))
  BY Zenon DEF mosquitto_topic_matches_sub
<1>4. (\E i \in 1..Len(own) : /\ IsDollar(t) => IsDollar(own[i].topic)
                              /\ mosquitto_topic_matches_sub(own[i].topic, t)
                              /\ a \in own[i].access)
      <=> \E l : Has(own, l) /\ TopicLets(l, t, a)
  BY <1>3, Zenon DEF Has, TopicLets
<1>5. (\E i \in 1..Len(acl_patterns) : PatternLets(acl_patterns[i], user, id, t, a))
      <=> \E l : Has(acl_patterns, l) /\ PatternLets(l, user, id, t, a)
  BY Zenon DEF Has
<1>6. (\E l : Has(own, l) /\ TopicLets(l, t, a))
      <=> \E l : Lists(acl_list, user, l) /\ TopicLets(l, t, a)
  BY <1>1, Zenon
<1> QED
  BY <1>2, <1>4, <1>5, <1>6, Zenon

\* Which is what the lines of the file say.
LEMMA GrantedIs ==
    ASSUME MatcherExact, NEW f \in Configs, applied = f,
           NEW lines, lines = FileLines(f, "acl_file"), lines \in Seq(Range(lines)),
           NEW user \in Users \cup {NULL}, NEW id \in ClientIds,
           NEW t \in TopicNames, NEW a
    PROVE  Granted(user, id, t, a) <=>
             \/ \A j \in 1..Len(lines) : lines[j].kind \notin {"topic", "pattern"}
             \/ \E l : SaysTopic(lines, Len(lines), user, l) /\ TopicLets(l, t, a)
             \/ \E l : SaysPattern(lines, Len(lines), l) /\ PatternLets(l, user, id, t, a)
<1>1. LinesOf("acl_file") = lines
  BY DEF LinesOf, FileLines
<1> DEFINE rules == {i \in 1..Len(lines) : lines[i].kind \in {"topic", "pattern"}}
           grants(i) ==
             IF lines[i].kind = "topic"
             THEN Owner(lines, i) = user /\ Matches(lines[i].topic, t)
             ELSE /\ UsesName(lines[i].topic) => user # NULL
                  /\ Matches(Substitute(lines[i].topic, id, user), t)
<1>2. Granted(user, id, t, a) <=>
        rules = {} \/ \E i \in rules : a \in lines[i].access /\ grants(i)
  BY <1>1, Zenon DEF Granted
<1>3. ASSUME NEW i \in 1..Len(lines)
      PROVE  /\ lines[i].kind = "topic" =>
                  (mosquitto_topic_matches_sub(lines[i].topic, t) <=> Matches(lines[i].topic, t))
             /\ lines[i].kind = "pattern" /\ (UsesName(lines[i].topic) => user # NULL) =>
                  (mosquitto_topic_matches_sub(Substitute(lines[i].topic, id, user), t)
                     <=> Matches(Substitute(lines[i].topic, id, user), t))
  <2> DEFINE at == {k \in 1..Len(f) : f[k].option = "acl_file"}
  <2>1. at # {}
    <3> SUFFICES ASSUME at = {} PROVE FALSE
      OBVIOUS
    <3>1. lines = <<>>
      BY Zenon DEF FileLines
    <3>2. Len(lines) = 0
      BY <3>1
    <3> QED
      BY <1>3, <3>2
  <2>2. PICK k \in 1..Len(f) : f[k].option = "acl_file" /\ lines = f[k].value.lines
    <3>1. Len(f) \in Nat
      BY AccessAssumption
    <3>2. PICK k \in at : \A j \in at : j <= k
      BY <2>1, <3>1, MaxOf
    <3>3. \A j \in at : (\A i2 \in at : i2 <= j) => j = k
      BY <3>1, <3>2
    <3>4. (CHOOSE j \in at : \A i2 \in at : i2 <= j) = k
      BY <3>2, <3>3
    <3> QED
      BY <2>1, <3>2, <3>4 DEF FileLines
  <2>3. lines[i] \in Range(f[k].value.lines)
    BY <1>3, <2>2
  <2> QED
    BY <2>2, <2>3, Zenon DEF MatcherExact
<1>4. \A i \in 1..Len(lines) : lines[i].kind = "topic" =>
        (a \in lines[i].access /\ grants(i)
           <=> Owner(lines, i) = user /\ TopicLets(lines[i], t, a))
  BY <1>3 DEF TopicLets
<1>5. \A i \in 1..Len(lines) : lines[i].kind = "pattern" =>
        (a \in lines[i].access /\ grants(i) <=> PatternLets(lines[i], user, id, t, a))
  BY <1>3 DEF PatternLets
<1> HIDE DEF grants
<1>6. rules = {} <=> \A j \in 1..Len(lines) : lines[j].kind \notin {"topic", "pattern"}
  OBVIOUS
<1>7. (\E i \in rules : a \in lines[i].access /\ grants(i)) <=>
        \/ \E l : SaysTopic(lines, Len(lines), user, l) /\ TopicLets(l, t, a)
        \/ \E l : SaysPattern(lines, Len(lines), l) /\ PatternLets(l, user, id, t, a)
  BY <1>4, <1>5 DEF SaysTopic, SaysPattern
<1> QED
  BY <1>2, <1>6, <1>7

\* Empty lists are those of a file without rules.
LEMMA NoRules ==
    ASSUME NEW f, AsWritten(acl_list, acl_patterns, f),
           NEW lines, lines = FileLines(f, "acl_file")
    PROVE  acl_list = <<>> /\ acl_patterns = <<>> <=>
             \A j \in 1..Len(lines) : lines[j].kind \notin {"topic", "pattern"}
<1>1. /\ acl_list \in Seq(Entries(lines)) /\ ListIs(acl_list, lines, Len(lines))
      /\ acl_patterns \in Seq(Range(lines))
      /\ PatternsAre(acl_patterns, lines, Len(lines))
  BY DEF AsWritten
<1>2. acl_list = <<>> <=> \A u, l : ~Lists(acl_list, u, l)
  <2>1. Len(acl_list) \in Nat /\ (acl_list = <<>> <=> Len(acl_list) = 0)
    BY <1>1
  <2>2. CASE Len(acl_list) = 0
    BY <2>1, <2>2 DEF Lists
  <2>3. CASE Len(acl_list) # 0
    <3>1. 1 \in 1..Len(acl_list)
      BY <2>1, <2>3
    <3>2. \E l : Has(acl_list[1].acl, l)
      BY <1>1, <3>1 DEF ListIs, OnePerUser
    <3> QED
      BY <2>1, <2>3, <3>1, <3>2 DEF Lists
  <2> QED
    BY <2>2, <2>3
<1>3. acl_patterns = <<>> <=> \A l : ~Has(acl_patterns, l)
  <2>1. Len(acl_patterns) \in Nat /\ (acl_patterns = <<>> <=> Len(acl_patterns) = 0)
    BY <1>1
  <2>2. Len(acl_patterns) # 0 => 1 \in 1..Len(acl_patterns)
    BY <2>1
  <2>3. Len(acl_patterns) = 0 => 1..Len(acl_patterns) = {}
    OBVIOUS
  <2> QED
    BY <2>1, <2>2, <2>3 DEF Has
<1>4. (\A u, l : ~Lists(acl_list, u, l)) <=>
        \A j \in 1..Len(lines) : lines[j].kind # "topic"
  BY <1>1 DEF ListIs, SaysTopic
<1>5. (\A l : ~Has(acl_patterns, l)) <=>
        \A j \in 1..Len(lines) : lines[j].kind # "pattern"
  BY <1>1 DEF PatternsAre, SaysPattern
<1> QED
  BY <1>2, <1>3, <1>4, <1>5

LEMMA WrittenGrants ==
    ASSUME MatcherExact, AccessInv, WrittenInv
    PROVE  AccessAsWritten
<1> SUFFICES ASSUME clean, NEW id \in Online, NEW t \in TopicNames, NEW a \in Access
             PROVE  mosquitto_acl_check(id, t, a) <=> Granted(ctx[id].username, id, t, a)
  BY DEF AccessAsWritten
<1> DEFINE user == ctx[id].username
           lines == FileLines(applied, "acl_file")
<1>1. /\ id \in ClientIds /\ ctx[id] \in Contexts /\ ctx[id] # NULL /\ ctx[id].connected
      /\ gen \in Nat /\ user \in Users \cup {NULL}
  BY DEF Online, Known, AccessInv, Typed, Contexts
<1>2. /\ applied \in Configs /\ AsWritten(acl_list, acl_patterns, applied)
      /\ Assigned(ctx[id], acl_list, gen)
  BY <1>1 DEF WrittenInv
<1>3. /\ lines \in Seq(Range(lines)) /\ acl_list \in Seq(Entries(lines))
      /\ ListIs(acl_list, lines, Len(lines)) /\ OnePerUser(acl_list)
      /\ acl_patterns \in Seq(Range(lines))
      /\ PatternsAre(acl_patterns, lines, Len(lines))
  BY <1>2 DEF AsWritten, ListIs
<1>4. acl_list = <<>> /\ acl_patterns = <<>> <=>
        \A j \in 1..Len(lines) : lines[j].kind \notin {"topic", "pattern"}
  BY <1>2, NoRules
<1> HIDE DEF user, lines
<1>5. mosquitto_acl_check(id, t, a) <=>
        \/ acl_list = <<>> /\ acl_patterns = <<>>
        \/ \E l : Lists(acl_list, user, l) /\ TopicLets(l, t, a)
        \/ \E l : Has(acl_patterns, l) /\ PatternLets(l, user, id, t, a)
  BY <1>1, <1>2, <1>3, CheckIs DEF user
<1>6. Granted(user, id, t, a) <=>
        \/ \A j \in 1..Len(lines) : lines[j].kind \notin {"topic", "pattern"}
        \/ \E l : SaysTopic(lines, Len(lines), user, l) /\ TopicLets(l, t, a)
        \/ \E l : SaysPattern(lines, Len(lines), l) /\ PatternLets(l, user, id, t, a)
  BY <1>1, <1>2, <1>3, GrantedIs DEF lines
<1>7. /\ \A l : Lists(acl_list, user, l) <=> SaysTopic(lines, Len(lines), user, l)
      /\ \A l : Has(acl_patterns, l) <=> SaysPattern(lines, Len(lines), l)
  BY <1>3 DEF ListIs, PatternsAre
<1>8. mosquitto_acl_check(id, t, a) <=> Granted(user, id, t, a)
  BY <1>4, <1>5, <1>6, <1>7, Zenon
<1> QED
  BY <1>8 DEF user

\* Where the matcher of util_mosq.c agrees with MQTT's definition on the
\* filters of the files, a client may do exactly what the files of the last
\* load without errors grant its user and its id: whatever the files contain,
\* whoever connected when and however often they were reloaded,
\* security_default.c has rebuilt the lists to that effect.
THEOREM AccessAlwaysAsWritten ==
    MatcherExact => (Spec => []AccessAsWritten)
<1> SUFFICES ASSUME MatcherExact PROVE Spec => []AccessAsWritten
  OBVIOUS
<1>1. AccessInv /\ WrittenInv => AccessAsWritten
  BY WrittenGrants
<1> QED
  BY <1>1, AccessInvariant, WrittenInvariant, PTL
=============================================================================
