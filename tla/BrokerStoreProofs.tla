------------------------- MODULE BrokerStoreProofs -------------------------
(***************************************************************************)
(* What the operations of the in-memory database of the broker preserve:   *)
(* reference counts, pointers, the subscriptions of contexts and the       *)
(* messages of durable sessions.  The theorems about the broker with its   *)
(* file, which need these lemmas, are in PersistenceProofs.                *)
(***************************************************************************)
EXTENDS BrokerStore, FiniteSetTheorems, FunctionTheorems, SequenceTheorems,
        WellFoundedInduction, TLAPS

----------------------------------------------------------------------------
(***************************************************************************)
(* Loops.  A loop of the code is a recursive function on the number of     *)
(* passes: it exists, and what every pass preserves holds at its end.      *)
(***************************************************************************)
\* A set of natural numbers that is not empty has a least one.
LEMMA Least ==
    ASSUME NEW T \in SUBSET Nat, T # {}
    PROVE  \E n \in T : \A m \in T : n <= m
<1> DEFINE R == OpToRel(<, Nat)
<1>1. IsWellFoundedOn(R, Nat)
  BY NatLessThanWellFounded
<1>2. \A x, y \in Nat : x < y => <<x, y>> \in R
  BY DEF OpToRel
<1> HIDE DEF R
<1>3. PICK n \in T : \A m \in T : ~(<<m, n>> \in R)
  BY <1>1, WFMin
<1>4. ASSUME NEW m \in T PROVE n <= m
  <2>1. m \in Nat /\ n \in Nat
    BY <1>3
  <2>2. ~(m < n)
    BY <1>2, <1>3, <2>1
  <2> QED
    BY <2>1, <2>2
<1> QED
  BY <1>3, <1>4

\* Induction, for a set of numbers.
LEMMA Induction ==
    ASSUME NEW S, 0 \in S, \A n \in Nat : n \in S => n + 1 \in S
    PROVE  \A n \in Nat : n \in S
<1> DEFINE T == {n \in Nat : n \notin S}
<1> SUFFICES ASSUME T # {} PROVE FALSE
  OBVIOUS
<1>1. PICK n \in T : \A m \in T : n <= m
  BY Least
<1>2. n # 0 /\ n - 1 \in Nat /\ n - 1 \notin T /\ (n - 1) + 1 = n
  BY <1>1
<1> QED
  BY <1>1, <1>2

\* What holds before a loop and is kept by every pass holds after it.
LEMMA LoopKeeps ==
    ASSUME NEW n \in Nat, NEW D, NEW f, f[0] \in D[0],
           \A i \in 1..n : f[i - 1] \in D[i - 1] => f[i] \in D[i]
    PROVE  \A i \in 0..n : f[i] \in D[i]
<1> DEFINE S == {i \in Nat : i <= n => f[i] \in D[i]}
<1>1. 0 \in S
  OBVIOUS
<1>2. ASSUME NEW i \in Nat, i \in S PROVE i + 1 \in S
  <2> SUFFICES ASSUME i + 1 <= n PROVE f[i + 1] \in D[i + 1]
    OBVIOUS
  <2>1. f[i] \in D[i] /\ i + 1 \in 1..n /\ (i + 1) - 1 = i
    BY <1>2
  <2> QED
    BY <2>1
<1>3. \A i \in Nat : i \in S
  <2> HIDE DEF S
  <2> QED
    BY <1>1, <1>2, Induction
<1> QED
  BY <1>3

\* g holds the values of a loop that begins with b and has the passes F[i],
\* and they are in D[i].
Loops(g, n, b, F, D) ==
    /\ g = [i \in 0..n |-> IF i = 0 THEN b ELSE F[i][g[i - 1]]]
    /\ \A i \in 0..n : g[i] \in D[i]

\* A loop whose passes lead from D[i - 1] to D[i] has a result.
LEMMA LoopExists ==
    ASSUME NEW n \in Nat, NEW b, NEW D, NEW F, b \in D[0],
           \A i \in 1..n : \A x \in D[i - 1] : F[i][x] \in D[i]
    PROVE  \E g : Loops(g, n, b, F, D)
<1> DEFINE Upto(k) ==
             \E g : /\ g = [i \in 0..k |-> IF i = 0 THEN b ELSE F[i][g[i - 1]]]
                    /\ \A i \in 0..k : g[i] \in D[i]
           S == {k \in Nat : k <= n => Upto(k)}
<1>1. 0 \in S
  <2>1. Upto(0)
    <3> DEFINE g == [i \in 0..0 |-> b]
    <3>1. g = [i \in 0..0 |-> IF i = 0 THEN b ELSE F[i][g[i - 1]]]
      OBVIOUS
    <3>2. \A i \in 0..0 : g[i] \in D[i]
      OBVIOUS
    <3> QED
      BY <3>1, <3>2
  <2> QED
    BY <2>1
<1>2. ASSUME NEW k \in Nat, k \in S PROVE k + 1 \in S
  <2> SUFFICES ASSUME k + 1 <= n PROVE Upto(k + 1)
    OBVIOUS
  <2>1. PICK g : /\ g = [i \in 0..k |-> IF i = 0 THEN b ELSE F[i][g[i - 1]]]
                 /\ \A i \in 0..k : g[i] \in D[i]
    BY <1>2
  <2> DEFINE x == F[k + 1][g[k]]
             f == [i \in 0..(k + 1) |-> IF i <= k THEN g[i] ELSE x]
  <2>2. k + 1 \in 1..n /\ g[k] \in D[k] /\ x \in D[k + 1]
    <3>1. k + 1 \in 1..n /\ (k + 1) - 1 = k /\ k \in 0..k
      OBVIOUS
    <3> QED
      BY <3>1, <2>1
  <2> HIDE DEF x
  <2>3. ASSUME NEW i \in 0..(k + 1) PROVE f[i] \in D[i]
    <3>1. CASE i <= k
      BY <3>1, <2>1
    <3>2. CASE i = k + 1
      BY <3>2, <2>2
    <3> QED
      BY <3>1, <3>2
  <2>4. ASSUME NEW i \in 0..(k + 1)
        PROVE f[i] = IF i = 0 THEN b ELSE F[i][f[i - 1]]
    <3>1. CASE i = 0
      <4>1. f[i] = g[0] /\ g[0] = b
        BY <3>1, <2>1
      <4> QED
        BY <4>1, <3>1
    <3>2. CASE i # 0 /\ i <= k
      <4>1. i \in 0..k /\ i - 1 \in 0..k /\ f[i] = g[i] /\ f[i - 1] = g[i - 1]
        BY <3>2
      <4>2. g[i] = F[i][g[i - 1]]
        BY <4>1, <3>2, <2>1
      <4> QED
        BY <4>1, <4>2, <3>2
    <3>3. CASE i = k + 1
      <4>1. f[i] = x /\ f[i - 1] = g[k] /\ i # 0
        BY <3>3
      <4> QED
        BY <4>1, <3>3 DEF x
    <3> QED
      BY <3>1, <3>2, <3>3
  <2>5. f = [i \in 0..(k + 1) |-> IF i = 0 THEN b ELSE F[i][f[i - 1]]]
    <3>1. f = [i \in 0..(k + 1) |-> f[i]]
      OBVIOUS
    <3> HIDE DEF f
    <3> QED
      BY <3>1, <2>4
  <2> QED
    BY <2>3, <2>5
<1>3. \A k \in Nat : k \in S
  <2> HIDE DEF S
  <2> QED
    BY <1>1, <1>2, Induction
<1>4. Upto(n)
  <2> HIDE DEF Upto
  <2> QED
    BY <1>3
<1> QED
  BY <1>4 DEF Loops
----------------------------------------------------------------------------
(***************************************************************************)
(* The types.                                                              *)
(***************************************************************************)
\* Partial functions: the tables of the database.
Tables(A, B) == UNION {[S -> B] : S \in SUBSET A}

Msgs == [store : Nat, dir : {"in", "out"}, qos : 0..2, retain : BOOLEAN]

Stored == [topic : Topics \cup {NULL}, qos : 0..2, retain : BOOLEAN,
           payload : BOOLEAN, ref : Nat]

States == {"new", "connected", "disconnecting", "expiring", "disconnected"}

Ctxs == [id : Clients \cup {NULL}, state : States, clean : BOOLEAN,
         sock : BOOLEAN, will : WillMessages \cup {NULL}, subs : SUBSET Topics,
         msgs : Seq(Msgs)]

Leaves == [ctx : Contexts, qos : 0..2]

StoreTables == Tables(Nat, Stored)
CtxTables == Tables(Contexts, Ctxs)

Dbs == [last : Nat, store : StoreTables, ctxs : CtxTables,
        leaves : [Topics -> Seq(Leaves)], retained : [Topics -> Nat \cup {NULL}],
        free : Seq(Contexts), changes : Nat]

\* A table is a function on its domain.
LEMMA TableIs ==
    ASSUME NEW A, NEW B, NEW f \in Tables(A, B)
    PROVE  f \in [DOMAIN f -> B] /\ DOMAIN f \subseteq A
  BY DEF Tables

\* What has the form of a table is one.
LEMMA IsTable ==
    ASSUME NEW A, NEW B, NEW S \in SUBSET A, NEW f \in [S -> B]
    PROVE  f \in Tables(A, B)
  BY DEF Tables

\* g is f with the entry v at x; f without the entry at x.
Entered(g, f, x, v) ==
    /\ DOMAIN g = DOMAIN f \cup {x} /\ g[x] = v
    /\ \A y \in DOMAIN f : y # x => g[y] = f[y]

Dropped(g, f, x) ==
    /\ DOMAIN g = DOMAIN f \ {x}
    /\ \A y \in DOMAIN f : y # x => g[y] = f[y]

LEMMA WithIs ==
    ASSUME NEW A, NEW B, NEW f \in Tables(A, B), NEW x \in A, NEW v \in B
    PROVE  /\ With(f, x, v) \in Tables(A, B)
           /\ Entered(With(f, x, v), f, x, v)
<1>1. f \in [DOMAIN f -> B] /\ DOMAIN f \subseteq A
  BY TableIs
<1>2. With(f, x, v) \in [DOMAIN f \cup {x} -> B]
  BY <1>1 DEF With
<1>3. With(f, x, v) \in Tables(A, B)
  BY <1>1, <1>2, IsTable, DOMAIN f \cup {x} \in SUBSET A
<1> QED
  BY <1>2, <1>3 DEF With, Entered

LEMMA WithoutIs ==
    ASSUME NEW A, NEW B, NEW f \in Tables(A, B), NEW x \in A
    PROVE  /\ Without(f, x) \in Tables(A, B)
           /\ Dropped(Without(f, x), f, x)
<1>1. f \in [DOMAIN f -> B] /\ DOMAIN f \subseteq A
  BY TableIs
<1>2. Without(f, x) \in [DOMAIN f \ {x} -> B]
  BY <1>1 DEF Without
<1>3. Without(f, x) \in Tables(A, B)
  BY <1>1, <1>2, IsTable, DOMAIN f \ {x} \in SUBSET A
<1> QED
  BY <1>2, <1>3 DEF Without, Dropped

LEMMA ChangedIs ==
    ASSUME NEW A, NEW B, NEW f \in Tables(A, B), NEW x \in DOMAIN f, NEW v \in B
    PROVE  /\ [f EXCEPT ![x] = v] \in Tables(A, B)
           /\ Entered([f EXCEPT ![x] = v], f, x, v)
           /\ DOMAIN [f EXCEPT ![x] = v] = DOMAIN f
<1>1. f \in [DOMAIN f -> B] /\ DOMAIN f \subseteq A
  BY TableIs
<1>2. [f EXCEPT ![x] = v] \in [DOMAIN f -> B]
  BY <1>1
<1>3. [f EXCEPT ![x] = v] \in Tables(A, B)
  BY <1>1, <1>2, IsTable, DOMAIN f \in SUBSET A
<1> QED
  BY <1>1, <1>2, <1>3 DEF Entered

LEMMA DbIs ==
    ASSUME NEW d \in Dbs
    PROVE  /\ d.last \in Nat /\ d.changes \in Nat
           /\ d.store \in StoreTables /\ DOMAIN d.store \subseteq Nat
           /\ d.ctxs \in CtxTables /\ DOMAIN d.ctxs \subseteq Contexts
           /\ d.leaves \in [Topics -> Seq(Leaves)]
           /\ d.retained \in [Topics -> Nat \cup {NULL}]
           /\ d.free \in Seq(Contexts)
           /\ \A u \in DOMAIN d.store : d.store[u] \in Stored
           /\ \A h \in DOMAIN d.ctxs : d.ctxs[h] \in Ctxs
<1>1. d.store \in StoreTables /\ d.ctxs \in CtxTables
  BY DEF Dbs
<1>2. d.store \in [DOMAIN d.store -> Stored] /\ DOMAIN d.store \subseteq Nat
  BY <1>1, TableIs DEF StoreTables
<1>3. d.ctxs \in [DOMAIN d.ctxs -> Ctxs] /\ DOMAIN d.ctxs \subseteq Contexts
  BY <1>1, TableIs DEF CtxTables
<1> QED
  BY <1>1, <1>2, <1>3 DEF Dbs

LEMMA CtxIs ==
    ASSUME NEW x \in Ctxs
    PROVE  /\ x.id \in Clients \cup {NULL} /\ x.state \in States
           /\ x.clean \in BOOLEAN /\ x.sock \in BOOLEAN
           /\ x.will \in WillMessages \cup {NULL}
           /\ x.subs \subseteq Topics /\ x.msgs \in Seq(Msgs)
  BY DEF Ctxs

LEMMA StoredIs ==
    ASSUME NEW m \in Stored
    PROVE  /\ m.topic \in Topics \cup {NULL} /\ m.qos \in 0..2 /\ m.ref \in Nat
           /\ m.retain \in BOOLEAN /\ m.payload \in BOOLEAN
  BY DEF Stored

\* Two databases that differ in the store only, in the contexts only, ...
OnlyStore(d, e) ==
    /\ e.last = d.last /\ e.ctxs = d.ctxs /\ e.leaves = d.leaves
    /\ e.retained = d.retained /\ e.free = d.free /\ e.changes = d.changes

OnlyCtxs(d, e) ==
    /\ e.last = d.last /\ e.store = d.store /\ e.leaves = d.leaves
    /\ e.retained = d.retained /\ e.free = d.free /\ e.changes = d.changes

OnlyLeaves(d, e) ==
    /\ e.last = d.last /\ e.store = d.store /\ e.ctxs = d.ctxs
    /\ e.retained = d.retained /\ e.free = d.free /\ e.changes = d.changes

LEMMA SetStore ==
    ASSUME NEW d \in Dbs, NEW x \in StoreTables
    PROVE  /\ [d EXCEPT !.store = x] \in Dbs
           /\ [d EXCEPT !.store = x].store = x
           /\ OnlyStore(d, [d EXCEPT !.store = x])
  BY DEF Dbs, OnlyStore

LEMMA SetCtxs ==
    ASSUME NEW d \in Dbs, NEW x \in CtxTables
    PROVE  /\ [d EXCEPT !.ctxs = x] \in Dbs
           /\ [d EXCEPT !.ctxs = x].ctxs = x
           /\ OnlyCtxs(d, [d EXCEPT !.ctxs = x])
  BY DEF Dbs, OnlyCtxs

LEMMA SetLeaves ==
    ASSUME NEW d \in Dbs, NEW x \in [Topics -> Seq(Leaves)]
    PROVE  /\ [d EXCEPT !.leaves = x] \in Dbs
           /\ [d EXCEPT !.leaves = x].leaves = x
           /\ OnlyLeaves(d, [d EXCEPT !.leaves = x])
  BY DEF Dbs, OnlyLeaves

LEMMA SetChanges ==
    ASSUME NEW d \in Dbs
    PROVE  /\ Changed(d) \in Dbs
           /\ Changed(d).last = d.last /\ Changed(d).ctxs = d.ctxs
           /\ Changed(d).leaves = d.leaves /\ Changed(d).retained = d.retained
           /\ Changed(d).free = d.free /\ Changed(d).store = d.store
<1>1. Saturated(d.changes) \in Nat
  BY StoreAssumption DEF Saturated, Dbs
<1> QED
  BY <1>1 DEF Changed, Dbs
----------------------------------------------------------------------------
(***************************************************************************)
(* Counting references.                                                    *)
(***************************************************************************)
\* The entries of lists that point to a stored message, as pairs of a context
\* and a position; the topics that retain it.
Entries(d, u) ==
    UNION {{h} \X {i \in DOMAIN d.ctxs[h].msgs : d.ctxs[h].msgs[i].store = u}
           : h \in DOMAIN d.ctxs}

Retaining(d, u) == {t \in Topics : d.retained[t] = u}

LEMMA RefsIs ==
    ASSUME NEW d, NEW u
    PROVE  Refs(d, u) = Cardinality(Entries(d, u)) + Cardinality(Retaining(d, u))
  BY DEF Refs, Entries, Retaining

LEMMA EntryIs ==
    ASSUME NEW d, NEW u, NEW x
    PROVE  x \in Entries(d, u) <=>
             \E h \in DOMAIN d.ctxs : \E i \in DOMAIN d.ctxs[h].msgs :
                x = <<h, i>> /\ d.ctxs[h].msgs[i].store = u
  BY DEF Entries

LEMMA RetainingFinite ==
    ASSUME NEW d, NEW u
    PROVE  IsFiniteSet(Retaining(d, u)) /\ Cardinality(Retaining(d, u)) \in Nat
<1>1. IsFiniteSet(Topics) /\ Retaining(d, u) \in SUBSET Topics
  BY StoreAssumption DEF Retaining
<1>2. IsFiniteSet(Retaining(d, u))
  BY <1>1, FS_Subset
<1> QED
  BY <1>2, FS_CardinalityType

EntriesFinite(d) == \A u \in Nat : IsFiniteSet(Entries(d, u))

One(u, a) == IF u = a THEN 1 ELSE 0

\* Lists that are the same, with or without contexts that have no messages.
SameLists(d, e) ==
    /\ \A h \in DOMAIN d.ctxs :
          \/ h \in DOMAIN e.ctxs /\ e.ctxs[h].msgs = d.ctxs[h].msgs
          \/ d.ctxs[h].msgs = <<>>
    /\ \A h \in DOMAIN e.ctxs :
          \/ h \in DOMAIN d.ctxs /\ e.ctxs[h].msgs = d.ctxs[h].msgs
          \/ e.ctxs[h].msgs = <<>>

LEMMA EntriesSame ==
    ASSUME NEW d, NEW e, SameLists(d, e), NEW u
    PROVE  Entries(e, u) = Entries(d, u)
<1>1. \A x : x \in Entries(d, u) => x \in Entries(e, u)
  <2> SUFFICES ASSUME NEW h \in DOMAIN d.ctxs, NEW i \in DOMAIN d.ctxs[h].msgs,
                      d.ctxs[h].msgs[i].store = u
               PROVE  <<h, i>> \in Entries(e, u)
    BY EntryIs
  <2>1. d.ctxs[h].msgs # <<>>
    OBVIOUS
  <2> QED
    BY <2>1, EntryIs DEF SameLists
<1>2. \A x : x \in Entries(e, u) => x \in Entries(d, u)
  <2> SUFFICES ASSUME NEW h \in DOMAIN e.ctxs, NEW i \in DOMAIN e.ctxs[h].msgs,
                      e.ctxs[h].msgs[i].store = u
               PROVE  <<h, i>> \in Entries(d, u)
    BY EntryIs
  <2>1. e.ctxs[h].msgs # <<>>
    OBVIOUS
  <2> QED
    BY <2>1, EntryIs DEF SameLists
<1> QED
  BY <1>1, <1>2

\* The same lists and the same retained messages: the same references.
LEMMA RefsSame ==
    ASSUME NEW d, NEW e, SameLists(d, e), e.retained = d.retained
    PROVE  /\ \A u : Refs(e, u) = Refs(d, u)
           /\ EntriesFinite(d) => EntriesFinite(e)
<1>1. \A u : Entries(e, u) = Entries(d, u) /\ Retaining(e, u) = Retaining(d, u)
  BY EntriesSame DEF Retaining
<1> QED
  BY <1>1, RefsIs DEF EntriesFinite

\* One list has changed.
OnlyList(d, e, h) ==
    /\ h \in DOMAIN d.ctxs /\ DOMAIN e.ctxs = DOMAIN d.ctxs
    /\ \A g \in DOMAIN d.ctxs : g # h => e.ctxs[g].msgs = d.ctxs[g].msgs
    /\ e.retained = d.retained

\* Positions in a list with one more entry.
LEMMA AppendIs ==
    ASSUME NEW T, NEW s \in Seq(T), NEW x \in T
    PROVE  /\ Append(s, x) \in Seq(T)
           /\ DOMAIN Append(s, x) = DOMAIN s \cup {Len(s) + 1}
           /\ Len(s) + 1 \notin DOMAIN s
           /\ Append(s, x)[Len(s) + 1] = x
           /\ \A i \in DOMAIN s : Append(s, x)[i] = s[i]
<1>1. /\ Append(s, x) \in Seq(T) /\ Len(Append(s, x)) = Len(s) + 1
      /\ \A i \in 1..Len(s) : Append(s, x)[i] = s[i]
      /\ Append(s, x)[Len(s) + 1] = x
  BY AppendProperties
<1>2. DOMAIN s = 1..Len(s) /\ Len(s) \in Nat
  BY LenProperties
<1>3. DOMAIN Append(s, x) = 1..(Len(s) + 1)
  BY <1>1, LenProperties
<1> QED
  BY <1>1, <1>2, <1>3

LEMMA RefsAppend ==
    ASSUME NEW d, NEW e, NEW h, NEW msg \in Msgs, EntriesFinite(d),
           OnlyList(d, e, h), d.ctxs[h].msgs \in Seq(Msgs),
           e.ctxs[h].msgs = Append(d.ctxs[h].msgs, msg)
    PROVE  /\ EntriesFinite(e)
           /\ \A u \in Nat : Refs(e, u) = Refs(d, u) + One(u, msg.store)
<1> DEFINE n == Len(d.ctxs[h].msgs) + 1
<1>1. /\ DOMAIN e.ctxs[h].msgs = DOMAIN d.ctxs[h].msgs \cup {n}
      /\ n \notin DOMAIN d.ctxs[h].msgs
      /\ e.ctxs[h].msgs[n] = msg
      /\ \A i \in DOMAIN d.ctxs[h].msgs : e.ctxs[h].msgs[i] = d.ctxs[h].msgs[i]
  <2> DEFINE old == d.ctxs[h].msgs
             new == Append(old, msg)
  <2>1. old \in Seq(Msgs)
    OBVIOUS
  <2> HIDE DEF old
  <2>2. /\ DOMAIN new = DOMAIN old \cup {Len(old) + 1}
        /\ Len(old) + 1 \notin DOMAIN old /\ new[Len(old) + 1] = msg
        /\ \A i \in DOMAIN old : new[i] = old[i]
    BY <2>1, AppendIs
  <2> HIDE DEF new
  <2>3. e.ctxs[h].msgs = new /\ d.ctxs[h].msgs = old /\ n = Len(old) + 1
    BY Zenon DEF old, new
  <2> QED
    BY <2>2, <2>3, Zenon
<1> HIDE DEF n
<1>2. ASSUME NEW u \in Nat
      PROVE  /\ IsFiniteSet(Entries(e, u))
             /\ Refs(e, u) = Refs(d, u) + One(u, msg.store)
  <2>1. <<h, n>> \notin Entries(d, u)
    BY <1>1, EntryIs
  <2>2. Entries(e, u) = IF u = msg.store THEN Entries(d, u) \cup {<<h, n>>}
                        ELSE Entries(d, u)
    <3>1. ASSUME NEW x, x \in Entries(d, u) PROVE x \in Entries(e, u)
      <4>1. PICK g \in DOMAIN d.ctxs : \E i \in DOMAIN d.ctxs[g].msgs :
                x = <<g, i>> /\ d.ctxs[g].msgs[i].store = u
        BY <3>1, EntryIs
      <4>2. PICK i \in DOMAIN d.ctxs[g].msgs :
                x = <<g, i>> /\ d.ctxs[g].msgs[i].store = u
        BY <4>1
      <4>3. /\ g \in DOMAIN e.ctxs /\ i \in DOMAIN e.ctxs[g].msgs
            /\ e.ctxs[g].msgs[i] = d.ctxs[g].msgs[i]
        BY <1>1 DEF OnlyList
      <4> QED
        BY <4>2, <4>3, EntryIs
    <3>2. u = msg.store => <<h, n>> \in Entries(e, u)
      BY <1>1, EntryIs DEF OnlyList
    <3>3. ASSUME NEW x, x \in Entries(e, u), x # <<h, n>>
          PROVE  x \in Entries(d, u)
      <4>1. PICK g \in DOMAIN e.ctxs : \E i \in DOMAIN e.ctxs[g].msgs :
                x = <<g, i>> /\ e.ctxs[g].msgs[i].store = u
        BY <3>3, EntryIs
      <4>2. PICK i \in DOMAIN e.ctxs[g].msgs :
                x = <<g, i>> /\ e.ctxs[g].msgs[i].store = u
        BY <4>1
      <4>3. g \in DOMAIN d.ctxs
        BY DEF OnlyList
      <4>4. i \in DOMAIN d.ctxs[g].msgs /\ d.ctxs[g].msgs[i].store = u
        <5>1. CASE g = h
          BY <5>1, <4>2, <3>3, <1>1
        <5>2. CASE g # h
          BY <5>2, <4>2, <4>3 DEF OnlyList
        <5> QED
          BY <5>1, <5>2
      <4> QED
        BY <4>2, <4>3, <4>4, EntryIs
    <3>4. <<h, n>> \in Entries(e, u) => u = msg.store
      <4>1. <<h, n>> \in Entries(e, u) =>
               \E g \in DOMAIN e.ctxs : \E i \in DOMAIN e.ctxs[g].msgs :
                  <<h, n>> = <<g, i>> /\ e.ctxs[g].msgs[i].store = u
        BY EntryIs
      <4> QED
        BY <4>1, <1>1
    <3>5. CASE u = msg.store
      BY <3>1, <3>2, <3>3, <3>5
    <3>6. CASE u # msg.store
      <4>1. \A x : x \in Entries(e, u) => x # <<h, n>>
        BY <3>4, <3>6
      <4>2. Entries(e, u) = Entries(d, u)
        BY <3>1, <3>3, <4>1
      <4> QED
        BY <4>2, <3>6
    <3> QED
      BY <3>5, <3>6
  <2>3. IsFiniteSet(Entries(d, u)) /\ Cardinality(Entries(d, u)) \in Nat
    BY FS_CardinalityType DEF EntriesFinite
  <2>4. /\ IsFiniteSet(Entries(e, u))
        /\ Cardinality(Entries(e, u)) = Cardinality(Entries(d, u)) + One(u, msg.store)
    <3>1. CASE u = msg.store
      <4>1. /\ IsFiniteSet(Entries(d, u) \cup {<<h, n>>})
            /\ Cardinality(Entries(d, u) \cup {<<h, n>>}) =
                  Cardinality(Entries(d, u)) + 1
        BY <2>1, <2>3, FS_AddElement
      <4> QED
        BY <3>1, <4>1, <2>2 DEF One
    <3>2. CASE u # msg.store
      BY <3>2, <2>2, <2>3 DEF One
    <3> QED
      BY <3>1, <3>2
  <2>5. Retaining(e, u) = Retaining(d, u) /\ Cardinality(Retaining(d, u)) \in Nat
    BY RetainingFinite DEF Retaining, OnlyList
  <2>6. One(u, msg.store) \in Nat
    BY DEF One
  <2> QED
    BY <2>3, <2>4, <2>5, <2>6, RefsIs
<1> QED
  BY <1>2 DEF EntriesFinite

\* A position k of what is left of a list of n entries, x of them before the
\* removed entry i and y of them behind it.
LEMMA PlaceBehind ==
    ASSUME NEW n \in Nat, NEW i \in 1..n, NEW k \in 1..(n - 1), ~(k < i),
           NEW x, x = i - 1, NEW y, y = n - i
    PROVE  /\ k - x \in 1..(n - i) /\ i + (k - x) = k + 1
           /\ ~(k <= x) /\ k \in 1..(x + y)
  OBVIOUS

\* Positions in a list from which the entry at i was taken.
LEMMA RemoveAtIs ==
    ASSUME NEW T, NEW s \in Seq(T), NEW i \in DOMAIN s
    PROVE  /\ RemoveAt(s, i) \in Seq(T) /\ Len(RemoveAt(s, i)) = Len(s) - 1
           /\ \A k \in 1..(Len(s) - 1) :
                 RemoveAt(s, i)[k] = IF k < i THEN s[k] ELSE s[k + 1]
<1> DEFINE a == SubSeq(s, 1, i - 1)
           b == SubSeq(s, i + 1, Len(s))
<1>1. Len(s) \in Nat /\ i \in 1..Len(s) /\ \A k \in 1..Len(s) : s[k] \in T
  BY LenProperties, ElementOfSeq
<1>2. /\ a \in Seq(T) /\ Len(a) = i - 1
      /\ \A k \in 1..(i - 1) : a[k] = s[k]
  <2>1. 1 \in Int /\ i - 1 \in Int /\ \A k \in 1..(i - 1) : s[k] \in T
    BY <1>1
  <2>2. /\ a \in Seq(T) /\ Len(a) = IF 1 <= i - 1 THEN (i - 1) - 1 + 1 ELSE 0
        /\ \A k \in 1..((i - 1) - 1 + 1) : a[k] = s[1 + k - 1]
    BY <2>1, SubSeqProperties
  <2> QED
    BY <2>2, <1>1
<1>3. /\ b \in Seq(T) /\ Len(b) = Len(s) - i
      /\ \A k \in 1..(Len(s) - i) : b[k] = s[i + k]
  <2>1. i + 1 \in Int /\ Len(s) \in Int /\ \A k \in (i + 1)..Len(s) : s[k] \in T
    BY <1>1
  <2>2. /\ b \in Seq(T)
        /\ Len(b) = IF i + 1 <= Len(s) THEN Len(s) - (i + 1) + 1 ELSE 0
        /\ \A k \in 1..(Len(s) - (i + 1) + 1) : b[k] = s[(i + 1) + k - 1]
    BY <2>1, SubSeqProperties
  <2> QED
    BY <2>2, <1>1
<1> HIDE DEF a, b
<1>4. /\ a \o b \in Seq(T) /\ Len(a \o b) = Len(a) + Len(b)
      /\ \A k \in 1..(Len(a) + Len(b)) :
            (a \o b)[k] = IF k <= Len(a) THEN a[k] ELSE b[k - Len(a)]
  BY <1>2, <1>3, ConcatProperties
<1>5. RemoveAt(s, i) = a \o b
  BY DEF RemoveAt, a, b
<1>6. ASSUME NEW k \in 1..(Len(s) - 1)
      PROVE  (a \o b)[k] = IF k < i THEN s[k] ELSE s[k + 1]
  <2>0. /\ Len(s) \in Nat /\ i \in 1..Len(s)
        /\ Len(a) = i - 1 /\ Len(b) = Len(s) - i
    BY <1>1, <1>2, <1>3
  <2>1. CASE k < i
    <3>1. /\ k \in 1..(Len(a) + Len(b)) /\ k <= Len(a) /\ k \in 1..(i - 1)
      BY <2>0, <2>1
    <3>2. (a \o b)[k] = a[k]
      BY <3>1, <1>4
    <3> QED
      BY <2>1, <3>1, <3>2, <1>2
  <2>2. CASE ~(k < i)
    <3>1. /\ k - Len(a) \in 1..(Len(s) - i) /\ i + (k - Len(a)) = k + 1
          /\ ~(k <= Len(a)) /\ k \in 1..(Len(a) + Len(b))
      BY <2>0, <2>2, PlaceBehind, Zenon
    <3>2. (a \o b)[k] = b[k - Len(a)]
      BY <3>1, <1>4
    <3>3. b[k - Len(a)] = s[i + (k - Len(a))]
      BY <3>1, <1>3
    <3> QED
      BY <2>2, <3>1, <3>2, <3>3
  <2> QED
    BY <2>1, <2>2
<1>7. Len(a \o b) = Len(s) - 1
  BY <1>1, <1>2, <1>3, <1>4
<1> QED
  BY <1>4, <1>5, <1>6, <1>7

\* d has one reference to v more than e.
OneMore(d, e, v) == \A u \in Nat : Refs(d, u) = Refs(e, u) + One(u, v)

LEMMA RefsRemove ==
    ASSUME NEW d, NEW e, NEW h, NEW i, EntriesFinite(d),
           OnlyList(d, e, h), d.ctxs[h].msgs \in Seq(Msgs),
           i \in DOMAIN d.ctxs[h].msgs,
           e.ctxs[h].msgs = RemoveAt(d.ctxs[h].msgs, i)
    PROVE  EntriesFinite(e) /\ OneMore(d, e, d.ctxs[h].msgs[i].store)
<1> DEFINE old == d.ctxs[h].msgs
           new == e.ctxs[h].msgs
<1>1. /\ new \in Seq(Msgs) /\ Len(new) = Len(old) - 1 /\ old \in Seq(Msgs)
      /\ i \in 1..Len(old)
      /\ \A k \in 1..Len(new) : new[k] = IF k < i THEN old[k] ELSE old[k + 1]
  <2>1. old \in Seq(Msgs) /\ i \in DOMAIN old /\ new = RemoveAt(old, i)
    OBVIOUS
  <2> HIDE DEF old, new
  <2>2. DOMAIN old = 1..Len(old)
    BY <2>1, LenProperties
  <2>3. /\ new \in Seq(Msgs) /\ Len(new) = Len(old) - 1
        /\ \A k \in 1..(Len(old) - 1) :
              new[k] = IF k < i THEN old[k] ELSE old[k + 1]
    BY <2>1, RemoveAtIs
  <2> QED
    BY <2>1, <2>2, <2>3
<1> HIDE DEF old, new
<1>2. ASSUME NEW u \in Nat
      PROVE  /\ IsFiniteSet(Entries(e, u))
             /\ Refs(d, u) = Refs(e, u) + One(u, old[i].store)
  <2> DEFINE S == Entries(d, u) \ {<<h, i>>}
             T == Entries(e, u)
             f == [x \in S |-> IF x[1] = h /\ x[2] > i THEN <<h, x[2] - 1>> ELSE x]
  <2>1. \A g, k : <<g, k>> \in S <=>
           /\ g \in DOMAIN d.ctxs /\ k \in DOMAIN d.ctxs[g].msgs
           /\ d.ctxs[g].msgs[k].store = u /\ (g # h \/ k # i)
    BY EntryIs
  <2>2. \A g, k : <<g, k>> \in T <=>
           /\ g \in DOMAIN d.ctxs /\ k \in DOMAIN e.ctxs[g].msgs
           /\ e.ctxs[g].msgs[k].store = u
    BY EntryIs DEF OnlyList
  <2>3. (\A x \in S : \E g, k : x = <<g, k>>) /\ (\A x \in T : \E g, k : x = <<g, k>>)
    BY EntryIs
  <2>4. \A k : <<h, k>> \in S <=> k \in 1..Len(old) /\ old[k].store = u /\ k # i
    BY <2>1, <1>1 DEF old, OnlyList
  <2>5. \A k : <<h, k>> \in T <=> k \in 1..Len(new) /\ new[k].store = u
    BY <2>2, <1>1 DEF new, OnlyList
  <2>6. \A g, k : g # h => (<<g, k>> \in S <=> <<g, k>> \in T)
    BY <2>1, <2>2 DEF OnlyList
  <2> HIDE DEF S, T
  <2>7. ASSUME NEW x \in S PROVE f[x] \in T
    <3>1. PICK g, k : x = <<g, k>>
      BY <2>3
    <3>2. CASE g # h
      BY <3>1, <3>2, <2>6
    <3>3. CASE g = h /\ k > i
      <4>1. k \in 1..Len(old) /\ old[k].store = u
        BY <3>1, <3>3, <2>4
      <4>2. k - 1 \in 1..Len(new) /\ new[k - 1] = old[k]
        BY <4>1, <3>3, <1>1, SMTT(60)
      <4> QED
        BY <3>1, <3>3, <4>1, <4>2, <2>5
    <3>4. CASE g = h /\ ~(k > i)
      <4>1. k \in 1..Len(old) /\ old[k].store = u /\ k # i
        BY <3>1, <3>4, <2>4
      <4>2. k \in 1..Len(new) /\ k < i
        BY <4>1, <3>4, <1>1
      <4>3. new[k] = old[k]
        BY <4>2, <1>1
      <4> QED
        BY <3>1, <3>4, <4>1, <4>2, <4>3, <2>5
    <3> QED
      BY <3>2, <3>3, <3>4
  <2>8. ASSUME NEW x \in S, NEW y \in S, f[x] = f[y] PROVE x = y
    <3>1. PICK g, k : x = <<g, k>>
      BY <2>3
    <3>2. PICK l, m : y = <<l, m>>
      BY <2>3
    <3>3. g = l
      BY <2>8, <3>1, <3>2
    <3>4. CASE g # h
      BY <2>8, <3>1, <3>2, <3>3, <3>4
    <3>5. CASE g = h
      <4>1. /\ k \in 1..Len(old) /\ k # i /\ m \in 1..Len(old) /\ m # i
            /\ i \in 1..Len(old) /\ Len(old) \in Nat
        BY <2>4, <3>1, <3>2, <3>3, <3>5, <1>1
      <4>2. (IF k > i THEN k - 1 ELSE k) = (IF m > i THEN m - 1 ELSE m)
        BY <2>8, <3>1, <3>2, <3>3, <3>5
      <4>3. k = m
        BY <4>1, <4>2
      <4> QED
        BY <4>3, <3>1, <3>2, <3>3
    <3> QED
      BY <3>4, <3>5
  <2>9. ASSUME NEW y \in T PROVE \E x \in S : f[x] = y
    <3>1. PICK g, k : y = <<g, k>>
      BY <2>3
    <3>2. CASE g # h
      BY <3>1, <3>2, <2>6
    <3>3. CASE g = h /\ k < i
      <4>1. k \in 1..Len(new) /\ new[k].store = u
        BY <3>1, <3>3, <2>5
      <4>2. k \in 1..Len(old) /\ new[k] = old[k] /\ k # i /\ ~(k > i)
        BY <4>1, <3>3, <1>1
      <4>3. <<h, k>> \in S
        BY <4>1, <4>2, <2>4
      <4> QED
        BY <4>2, <4>3, <3>1, <3>3
    <3>4. CASE g = h /\ ~(k < i)
      <4>1. k \in 1..Len(new) /\ new[k].store = u
        BY <3>1, <3>4, <2>5
      <4>2. /\ k + 1 \in 1..Len(old) /\ new[k] = old[k + 1] /\ k + 1 # i
            /\ k + 1 > i /\ (k + 1) - 1 = k
        BY <4>1, <3>4, <1>1
      <4>3. <<h, k + 1>> \in S
        BY <4>1, <4>2, <2>4
      <4> QED
        BY <4>2, <4>3, <3>1, <3>4
    <3> QED
      BY <3>2, <3>3, <3>4
  <2>10. f \in Bijection(S, T)
    <3>1. f \in [S -> T]
      BY <2>7
    <3> HIDE DEF f
    <3> QED
      BY <3>1, <2>8, <2>9 DEF Bijection, Injection, Surjection, IsInjective
  <2>11. IsFiniteSet(Entries(d, u)) /\ Cardinality(Entries(d, u)) \in Nat
    BY FS_CardinalityType DEF EntriesFinite
  <2>12. <<h, i>> \in Entries(d, u) <=> u = old[i].store
    BY EntryIs, <1>1 DEF old, OnlyList
  <2>13. /\ IsFiniteSet(S)
         /\ Cardinality(Entries(d, u)) = Cardinality(S) + One(u, old[i].store)
         /\ Cardinality(S) \in Nat
    <3>1. /\ IsFiniteSet(S)
          /\ Cardinality(S) = IF <<h, i>> \in Entries(d, u)
                              THEN Cardinality(Entries(d, u)) - 1
                              ELSE Cardinality(Entries(d, u))
      BY <2>11, FS_RemoveElement DEF S
    <3>2. Cardinality(S) \in Nat
      BY <3>1, FS_CardinalityType
    <3> QED
      BY <3>1, <3>2, <2>11, <2>12 DEF One
  <2>14. IsFiniteSet(T) /\ Cardinality(T) = Cardinality(S)
    BY <2>10, <2>13, FS_Bijection DEF ExistsBijection
  <2>15. Retaining(e, u) = Retaining(d, u) /\ Cardinality(Retaining(d, u)) \in Nat
    BY RetainingFinite DEF Retaining, OnlyList
  <2>16. One(u, old[i].store) \in Nat
    BY DEF One
  <2> QED
    BY <2>13, <2>14, <2>15, <2>16, RefsIs DEF T
<1> QED
  BY <1>2 DEF EntriesFinite, OneMore, old

\* A context hands its list over to one that has none.
LEMMA RefsMoved ==
    ASSUME NEW d, NEW e, NEW old \in DOMAIN d.ctxs, NEW h \in DOMAIN d.ctxs,
           old # h, DOMAIN e.ctxs = DOMAIN d.ctxs, EntriesFinite(d),
           d.ctxs[h].msgs = <<>>, e.ctxs[h].msgs = d.ctxs[old].msgs,
           e.ctxs[old].msgs = <<>>, e.retained = d.retained,
           \A g \in DOMAIN d.ctxs \ {old, h} : e.ctxs[g].msgs = d.ctxs[g].msgs
    PROVE  /\ EntriesFinite(e)
           /\ \A u \in Nat : Refs(e, u) = Refs(d, u)
<1>1. ASSUME NEW u \in Nat
      PROVE  IsFiniteSet(Entries(e, u)) /\ Refs(e, u) = Refs(d, u)
  <2> DEFINE S == Entries(d, u)
             T == Entries(e, u)
             f == [x \in S |-> IF x[1] = old THEN <<h, x[2]>> ELSE x]
  <2>1. \A g, k : <<g, k>> \in S <=>
           /\ g \in DOMAIN d.ctxs /\ k \in DOMAIN d.ctxs[g].msgs
           /\ d.ctxs[g].msgs[k].store = u
    BY EntryIs
  <2>2. \A g, k : <<g, k>> \in T <=>
           /\ g \in DOMAIN d.ctxs /\ k \in DOMAIN e.ctxs[g].msgs
           /\ e.ctxs[g].msgs[k].store = u
    BY EntryIs
  <2>3. (\A x \in S : \E g, k : x = <<g, k>>) /\ (\A x \in T : \E g, k : x = <<g, k>>)
    BY EntryIs
  <2>4. \A k : <<h, k>> \notin S /\ <<old, k>> \notin T
    BY <2>1, <2>2
  <2>5. \A k : <<old, k>> \in S <=> <<h, k>> \in T
    BY <2>1, <2>2
  <2>6. \A g, k : g \notin {old, h} => (<<g, k>> \in S <=> <<g, k>> \in T)
    BY <2>1, <2>2
  <2> HIDE DEF S, T
  <2>7. ASSUME NEW x \in S PROVE f[x] \in T
    <3>1. PICK g, k : x = <<g, k>>
      BY <2>3
    <3>2. CASE g = old
      BY <3>1, <3>2, <2>5
    <3>3. CASE g # old
      BY <3>1, <3>3, <2>4, <2>6
    <3> QED
      BY <3>2, <3>3
  <2>8. ASSUME NEW x \in S, NEW y \in S, f[x] = f[y] PROVE x = y
    <3>1. PICK g, k : x = <<g, k>>
      BY <2>3
    <3>2. PICK l, m : y = <<l, m>>
      BY <2>3
    <3>3. g # h /\ l # h
      BY <2>4, <3>1, <3>2
    <3> QED
      BY <2>8, <3>1, <3>2, <3>3
  <2>9. ASSUME NEW y \in T PROVE \E x \in S : f[x] = y
    <3>1. PICK g, k : y = <<g, k>>
      BY <2>3
    <3>2. CASE g = h
      <4>1. <<old, k>> \in S /\ f[<<old, k>>] = y
        BY <3>1, <3>2, <2>5
      <4> QED
        BY <4>1
    <3>3. CASE g # h
      <4>1. y \in S /\ f[y] = y
        BY <3>1, <3>3, <2>4, <2>6
      <4> QED
        BY <4>1
    <3> QED
      BY <3>2, <3>3
  <2>10. f \in Bijection(S, T)
    <3>1. f \in [S -> T]
      BY <2>7
    <3> HIDE DEF f
    <3> QED
      BY <3>1, <2>8, <2>9 DEF Bijection, Injection, Surjection, IsInjective
  <2>11. IsFiniteSet(S)
    BY DEF EntriesFinite, S
  <2>12. IsFiniteSet(T) /\ Cardinality(T) = Cardinality(S)
    BY <2>10, <2>11, FS_Bijection DEF ExistsBijection
  <2>13. Retaining(e, u) = Retaining(d, u)
    BY DEF Retaining
  <2> QED
    BY <2>12, <2>13, RefsIs DEF S, T
<1> QED
  BY <1>1 DEF EntriesFinite

\* e is d with v retained for the topic t.
OnlyRetained(d, e, t, v) ==
    /\ e.last = d.last /\ e.store = d.store /\ e.ctxs = d.ctxs
    /\ e.leaves = d.leaves /\ e.free = d.free /\ e.changes = d.changes
    /\ e.retained = [d.retained EXCEPT ![t] = v]

\* e has a reference to v where d has one to w.
OneInstead(d, e, v, w) ==
    \A u \in Nat : Refs(e, u) + One(u, w) = Refs(d, u) + One(u, v)

\* A topic retains v instead of what it retained.
LEMMA RefsRetained ==
    ASSUME NEW d, NEW e, NEW t \in Topics, NEW v, OnlyRetained(d, e, t, v),
           EntriesFinite(d), d.retained \in [Topics -> Nat \cup {NULL}]
    PROVE  EntriesFinite(e) /\ OneInstead(d, e, v, d.retained[t])
<1>1. \A u : Entries(e, u) = Entries(d, u)
  BY EntriesSame DEF SameLists, OnlyRetained
<1>2. ASSUME NEW u \in Nat
      PROVE  Refs(e, u) + One(u, d.retained[t]) = Refs(d, u) + One(u, v)
  <2> DEFINE S == Retaining(d, u)
             T == Retaining(e, u)
  <2>1. t \in S <=> u = d.retained[t]
    BY DEF Retaining
  <2>2. t \in T <=> u = v
    BY DEF Retaining, OnlyRetained
  <2>3. S \ {t} = T \ {t}
    BY DEF Retaining, OnlyRetained
  <2>4. IsFiniteSet(S) /\ IsFiniteSet(T) /\ Cardinality(S) \in Nat /\ Cardinality(T) \in Nat
    BY RetainingFinite
  <2> HIDE DEF S, T
  <2>5. Cardinality(S \ {t}) = Cardinality(S) - One(u, d.retained[t])
    <3>1. Cardinality(S \ {t}) =
             IF t \in S THEN Cardinality(S) - 1 ELSE Cardinality(S)
      BY <2>4, FS_RemoveElement
    <3> QED
      BY <3>1, <2>1, <2>4 DEF One
  <2>6. Cardinality(T \ {t}) = Cardinality(T) - One(u, v)
    <3>1. Cardinality(T \ {t}) =
             IF t \in T THEN Cardinality(T) - 1 ELSE Cardinality(T)
      BY <2>4, FS_RemoveElement
    <3> QED
      BY <3>1, <2>2, <2>4 DEF One
  <2>7. Cardinality(Entries(d, u)) \in Nat
    BY FS_CardinalityType DEF EntriesFinite
  <2>8. /\ Refs(d, u) = Cardinality(Entries(d, u)) + Cardinality(S)
        /\ Refs(e, u) = Cardinality(Entries(d, u)) + Cardinality(T)
    BY RefsIs, <1>1 DEF S, T
  <2>9. One(u, v) \in Nat /\ One(u, d.retained[t]) \in Nat
    BY DEF One
  <2>10. Cardinality(S) - One(u, d.retained[t]) = Cardinality(T) - One(u, v)
    BY <2>3, <2>5, <2>6
  <2> QED
    BY <2>4, <2>7, <2>8, <2>9, <2>10
<1> QED
  BY <1>1, <1>2 DEF EntriesFinite, OneInstead

LEMMA RefsNat ==
    ASSUME NEW d, NEW u \in Nat, EntriesFinite(d)
    PROVE  /\ Refs(d, u) \in Nat
           /\ Refs(d, u) = 0 => Entries(d, u) = {} /\ Retaining(d, u) = {}
<1>1. /\ IsFiniteSet(Entries(d, u)) /\ Cardinality(Entries(d, u)) \in Nat
      /\ IsFiniteSet(Retaining(d, u)) /\ Cardinality(Retaining(d, u)) \in Nat
  BY FS_CardinalityType, RetainingFinite DEF EntriesFinite
<1>2. Refs(d, u) = Cardinality(Entries(d, u)) + Cardinality(Retaining(d, u))
  BY RefsIs
<1>3. Refs(d, u) = 0 =>
         Cardinality(Entries(d, u)) = 0 /\ Cardinality(Retaining(d, u)) = 0
  BY <1>1, <1>2
<1>4. /\ Cardinality(Entries(d, u)) = 0 => Entries(d, u) = {}
      /\ Cardinality(Retaining(d, u)) = 0 => Retaining(d, u) = {}
  BY <1>1, FS_EmptySet
<1> QED
  BY <1>1, <1>2, <1>3, <1>4

\* Nothing refers to a message that no entry and no topic points to.
LEMMA RefsNone ==
    ASSUME NEW d, NEW u, Entries(d, u) = {}, Retaining(d, u) = {}
    PROVE  Refs(d, u) = 0
<1>1. Cardinality({}) = 0
  BY FS_EmptySet
<1> QED
  BY <1>1, RefsIs
----------------------------------------------------------------------------
(***************************************************************************)
(* The invariant of the database.  Its first half is about the stored      *)
(* messages.  While a message is routed or released its count is ahead of  *)
(* the references to it: a and b are the messages with one count more (0   *)
(* is no message).                                                         *)
(***************************************************************************)
IdsBounded(d) == \A u \in DOMAIN d.store : 1 <= u /\ u <= d.last

ListsValid(d) ==
    \A h \in DOMAIN d.ctxs : \A i \in DOMAIN d.ctxs[h].msgs :
        d.ctxs[h].msgs[i].store \in DOMAIN d.store

RetainedValid(d) ==
    \A t \in Topics : d.retained[t] # NULL =>
        /\ d.retained[t] \in DOMAIN d.store
        /\ d.store[d.retained[t]].topic = t
        /\ d.store[d.retained[t]].retain /\ d.store[d.retained[t]].payload

Counted(d, a, b) ==
    \A u \in DOMAIN d.store : d.store[u].ref = Refs(d, u) + One(u, a) + One(u, b)

StoreSound(d, a, b) ==
    /\ d \in Dbs /\ EntriesFinite(d)
    /\ IdsBounded(d) /\ ListsValid(d) /\ RetainedValid(d) /\ Counted(d, a, b)

\* Messages nobody refers to.
Zeros(d) == {u \in DOMAIN d.store : d.store[u].ref = 0}

\* What is stored of a message, but for the count.
SameStored(x, y) ==
    /\ x.topic = y.topic /\ x.qos = y.qos
    /\ x.retain = y.retain /\ x.payload = y.payload

\* e is d without one count of s.
Released(d, e, s) ==
    /\ OnlyStore(d, e) /\ DOMAIN e.store \subseteq DOMAIN d.store
    /\ \A u \in DOMAIN d.store : u # s => u \in DOMAIN e.store
    /\ \A u \in DOMAIN e.store : SameStored(e.store[u], d.store[u])
    /\ Zeros(e) \subseteq Zeros(d) \ {s}

\* One reference to s is given up.
LEMMA DerefSound ==
    ASSUME NEW d, NEW s \in DOMAIN d.store, NEW b, StoreSound(d, s, b),
           NEW e, e = mosquitto__db_msg_store_deref(d, s)
    PROVE  /\ StoreSound(e, 0, b)
           /\ Released(d, e, s)
           /\ Refs(d, s) + One(s, b) > 0 => s \in DOMAIN e.store
<1>1. /\ d \in Dbs /\ d.store \in StoreTables /\ DOMAIN d.store \subseteq Nat
      /\ \A u \in DOMAIN d.store : d.store[u] \in Stored
  BY DbIs DEF StoreSound
<1>2. /\ \A u \in DOMAIN d.store : Refs(d, u) \in Nat
      /\ \A u, x : One(u, x) \in Nat
  BY <1>1, RefsNat DEF StoreSound, One
<1>3. /\ \A u \in DOMAIN d.store : d.store[u].ref = Refs(d, u) + One(u, s) + One(u, b)
      /\ \A u \in DOMAIN d.store : d.store[u].ref \in Nat
      /\ s \in Nat /\ One(s, s) = 1 /\ s # 0
  BY <1>1, StoredIs DEF StoreSound, Counted, One, IdsBounded
<1>4. \A u \in DOMAIN d.store : One(u, 0) = 0 /\ (u # s => One(u, s) = 0)
  BY <1>1 DEF One, StoreSound, IdsBounded
<1>5. CASE d.store[s].ref = 1
  <2>1. e = [d EXCEPT !.store = Without(d.store, s)]
    BY <1>5 DEF mosquitto__db_msg_store_deref
  <2>2. /\ Without(d.store, s) \in StoreTables
        /\ DOMAIN Without(d.store, s) = DOMAIN d.store \ {s}
        /\ \A u \in DOMAIN d.store \ {s} : Without(d.store, s)[u] = d.store[u]
    <3>1. d.store \in Tables(Nat, Stored)
      BY <1>1 DEF StoreTables
    <3>2. /\ Without(d.store, s) \in Tables(Nat, Stored)
          /\ Dropped(Without(d.store, s), d.store, s)
      BY <3>1, <1>3, WithoutIs
    <3> QED
      BY <3>2 DEF StoreTables, Dropped
  <2>3. e \in Dbs /\ e.store = Without(d.store, s) /\ OnlyStore(d, e)
    BY <1>1, <2>1, <2>2, SetStore
  <2>4. /\ DOMAIN e.store = DOMAIN d.store \ {s}
        /\ \A u \in DOMAIN e.store : e.store[u] = d.store[u]
    BY <2>2, <2>3
  <2>5. Refs(d, s) = 0 /\ One(s, b) = 0
    BY <1>2, <1>3, <1>5
  <2>6. Entries(d, s) = {} /\ Retaining(d, s) = {}
    BY <2>5, <1>3, RefsNat DEF StoreSound
  <2>7. (\A u : Refs(e, u) = Refs(d, u)) /\ EntriesFinite(e)
    <3>1. SameLists(d, e) /\ e.retained = d.retained
      BY <2>3 DEF SameLists, OnlyStore
    <3> QED
      BY <3>1, RefsSame DEF StoreSound
  <2>8. ListsValid(e)
    <3> SUFFICES ASSUME NEW h \in DOMAIN d.ctxs, NEW i \in DOMAIN d.ctxs[h].msgs
                 PROVE  d.ctxs[h].msgs[i].store \in DOMAIN e.store
      BY <2>3 DEF ListsValid, OnlyStore
    <3>1. d.ctxs[h].msgs[i].store # s
      BY <2>6, EntryIs
    <3> QED
      BY <3>1, <2>4 DEF StoreSound, ListsValid
  <2>9. RetainedValid(e)
    <3> SUFFICES ASSUME NEW t \in Topics, d.retained[t] # NULL
                 PROVE  /\ d.retained[t] \in DOMAIN e.store
                        /\ e.store[d.retained[t]] = d.store[d.retained[t]]
                        /\ d.store[d.retained[t]].topic = t
                        /\ d.store[d.retained[t]].retain
                        /\ d.store[d.retained[t]].payload
      BY <2>3 DEF RetainedValid, OnlyStore
    <3>1. d.retained[t] # s
      BY <2>6 DEF Retaining
    <3> QED
      BY <3>1, <2>4 DEF StoreSound, RetainedValid
  <2>10. Counted(e, 0, b)
    BY <2>4, <2>7, <1>1, <1>2, <1>3, <1>4 DEF Counted
  <2>11. IdsBounded(e)
    BY <2>3, <2>4 DEF IdsBounded, StoreSound, OnlyStore
  <2>12. StoreSound(e, 0, b)
    BY <2>3, <2>7, <2>8, <2>9, <2>10, <2>11 DEF StoreSound
  <2>13. Zeros(e) \subseteq Zeros(d) \ {s}
    BY <2>4 DEF Zeros
  <2>14. \A u \in DOMAIN e.store : SameStored(e.store[u], d.store[u])
    BY <2>4 DEF SameStored
  <2>15. ~(Refs(d, s) + One(s, b) > 0)
    BY <2>5
  <2> QED
    BY <2>3, <2>4, <2>12, <2>13, <2>14, <2>15 DEF Released
<1>6. CASE d.store[s].ref # 1
  <2> DEFINE new == [d.store[s] EXCEPT !.ref = d.store[s].ref - 1]
  <2>1. e = [d EXCEPT !.store = [d.store EXCEPT ![s] = new]]
    <3>1. e = [d EXCEPT !.store[s].ref = @ - 1]
      BY <1>6 DEF mosquitto__db_msg_store_deref
    <3> QED
      BY <3>1
  <2>2. d.store[s].ref \in Nat /\ d.store[s].ref > 1 /\ d.store[s].ref - 1 \in Nat
    <3>1. /\ d.store[s].ref = Refs(d, s) + 1 + One(s, b)
          /\ Refs(d, s) \in Nat /\ One(s, b) \in Nat
      BY <1>2, <1>3
    <3> HIDE DEF new
    <3> QED
      BY <3>1, <1>6
  <2>3. new \in Stored /\ new.ref = d.store[s].ref - 1 /\ SameStored(new, d.store[s])
    BY <1>1, <2>2 DEF Stored, SameStored
  <2> HIDE DEF new
  <2>4. /\ [d.store EXCEPT ![s] = new] \in StoreTables
        /\ DOMAIN [d.store EXCEPT ![s] = new] = DOMAIN d.store
        /\ [d.store EXCEPT ![s] = new][s] = new
        /\ \A u \in DOMAIN d.store : u # s => [d.store EXCEPT ![s] = new][u] = d.store[u]
    BY <1>1, <2>3, ChangedIs DEF StoreTables
  <2>5. e \in Dbs /\ e.store = [d.store EXCEPT ![s] = new] /\ OnlyStore(d, e)
    BY <1>1, <2>1, <2>4, SetStore
  <2>6. /\ DOMAIN e.store = DOMAIN d.store /\ e.store[s] = new
        /\ \A u \in DOMAIN d.store : u # s => e.store[u] = d.store[u]
    BY <2>4, <2>5
  <2>7. (\A u : Refs(e, u) = Refs(d, u)) /\ EntriesFinite(e)
    <3>1. SameLists(d, e) /\ e.retained = d.retained
      BY <2>5 DEF SameLists, OnlyStore
    <3> QED
      BY <3>1, RefsSame DEF StoreSound
  <2>8. \A u \in DOMAIN e.store : SameStored(e.store[u], d.store[u])
    BY <2>3, <2>6 DEF SameStored
  <2>9. ListsValid(e) /\ IdsBounded(e)
    BY <2>5, <2>6 DEF ListsValid, IdsBounded, StoreSound, OnlyStore
  <2>10. RetainedValid(e)
    BY <2>5, <2>6, <2>8 DEF RetainedValid, StoreSound, OnlyStore, SameStored
  <2>11. Counted(e, 0, b)
    <3> SUFFICES ASSUME NEW u \in DOMAIN d.store
                 PROVE  e.store[u].ref = Refs(d, u) + One(u, 0) + One(u, b)
      BY <2>6, <2>7 DEF Counted
    <3>1. CASE u = s
      BY <3>1, <2>3, <2>6, <1>2, <1>3, <1>4
    <3>2. CASE u # s
      BY <3>2, <2>6, <1>2, <1>3, <1>4
    <3> QED
      BY <3>1, <3>2
  <2>12. StoreSound(e, 0, b)
    BY <2>5, <2>7, <2>9, <2>10, <2>11 DEF StoreSound
  <2>13. Zeros(e) \subseteq Zeros(d) \ {s}
    BY <2>2, <2>3, <2>6 DEF Zeros
  <2> QED
    BY <2>5, <2>6, <2>8, <2>12, <2>13 DEF Released
<1> QED
  BY <1>5, <1>6

\* e is d with one count more for s.
Counting(d, e, s) ==
    /\ OnlyStore(d, e) /\ DOMAIN e.store = DOMAIN d.store
    /\ e.store[s].ref = d.store[s].ref + 1
    /\ \A u \in DOMAIN d.store : u # s => e.store[u] = d.store[u]
    /\ \A u \in DOMAIN d.store : SameStored(e.store[u], d.store[u])

LEMMA RefFields ==
    ASSUME NEW d \in Dbs, NEW s \in DOMAIN d.store
    PROVE  Ref(d, s) \in Dbs /\ Counting(d, Ref(d, s), s)
<1> DEFINE new == [d.store[s] EXCEPT !.ref = d.store[s].ref + 1]
<1>1. Ref(d, s) = [d EXCEPT !.store = [d.store EXCEPT ![s] = new]]
  BY DEF Ref
<1>2. /\ d.store \in StoreTables /\ DOMAIN d.store \subseteq Nat
      /\ d.store[s] \in Stored /\ d.store[s].ref + 1 \in Nat
  <2>1. d.store \in StoreTables /\ DOMAIN d.store \subseteq Nat /\ d.store[s] \in Stored
    BY DbIs
  <2> QED
    BY <2>1, StoredIs
<1>3. new \in Stored /\ new.ref = d.store[s].ref + 1 /\ SameStored(new, d.store[s])
  BY <1>2 DEF Stored, SameStored
<1> HIDE DEF new
<1>4. /\ [d.store EXCEPT ![s] = new] \in StoreTables
      /\ DOMAIN [d.store EXCEPT ![s] = new] = DOMAIN d.store
      /\ [d.store EXCEPT ![s] = new][s] = new
      /\ \A u \in DOMAIN d.store : u # s => [d.store EXCEPT ![s] = new][u] = d.store[u]
  BY <1>2, <1>3, ChangedIs DEF StoreTables
<1>5. /\ Ref(d, s) \in Dbs /\ Ref(d, s).store = [d.store EXCEPT ![s] = new]
      /\ OnlyStore(d, Ref(d, s))
  BY <1>1, <1>4, SetStore
<1> QED
  BY <1>3, <1>4, <1>5 DEF SameStored, Counting

\* A database that differs in what the stored messages do not depend on.
SameStore(d, e) ==
    /\ e.store = d.store /\ e.retained = d.retained /\ e.last = d.last
    /\ SameLists(d, e)

LEMMA StoreSoundSame ==
    ASSUME NEW d, NEW e \in Dbs, NEW a, NEW b, StoreSound(d, a, b), SameStore(d, e)
    PROVE  StoreSound(e, a, b) /\ Zeros(e) = Zeros(d)
<1>1. (\A u : Refs(e, u) = Refs(d, u)) /\ EntriesFinite(e)
  BY RefsSame DEF SameStore, StoreSound
<1>2. ListsValid(e)
  <2> SUFFICES ASSUME NEW h \in DOMAIN e.ctxs, NEW i \in DOMAIN e.ctxs[h].msgs
               PROVE  e.ctxs[h].msgs[i].store \in DOMAIN d.store
    BY DEF ListsValid, SameStore
  <2>1. h \in DOMAIN d.ctxs /\ e.ctxs[h].msgs = d.ctxs[h].msgs
    BY DEF SameStore, SameLists
  <2> QED
    BY <2>1 DEF StoreSound, ListsValid
<1>3. IdsBounded(e) /\ RetainedValid(e)
  BY DEF IdsBounded, RetainedValid, SameStore, StoreSound
<1>4. Counted(e, a, b)
  BY <1>1 DEF Counted, SameStore, StoreSound
<1> QED
  BY <1>1, <1>2, <1>3, <1>4 DEF StoreSound, Zeros, SameStore

LEMMA StoreSoundSwap ==
    ASSUME NEW d, NEW a, NEW b, StoreSound(d, a, b)
    PROVE  StoreSound(d, b, a)
<1>1. Counted(d, b, a)
  <2> SUFFICES ASSUME NEW u \in DOMAIN d.store
               PROVE  d.store[u].ref = Refs(d, u) + One(u, b) + One(u, a)
    BY DEF Counted
  <2>1. u \in Nat
    BY DbIs DEF StoreSound
  <2>2. Refs(d, u) \in Nat /\ One(u, a) \in Nat /\ One(u, b) \in Nat
    BY <2>1, RefsNat DEF StoreSound, One
  <2>3. d.store[u].ref = Refs(d, u) + One(u, a) + One(u, b)
    BY DEF StoreSound, Counted
  <2> QED
    BY <2>2, <2>3
<1> QED
  BY <1>1 DEF StoreSound

LEMMA RefSound ==
    ASSUME NEW d, NEW s \in DOMAIN d.store, NEW b, StoreSound(d, 0, b)
    PROVE  /\ StoreSound(Ref(d, s), s, b) /\ Counting(d, Ref(d, s), s)
           /\ Zeros(Ref(d, s)) \subseteq Zeros(d)
<1> DEFINE e == Ref(d, s)
<1>1. e \in Dbs /\ Counting(d, e, s) /\ d \in Dbs
  BY RefFields DEF StoreSound
<1> HIDE DEF e
<1>2. /\ DOMAIN d.store \subseteq Nat
      /\ \A u \in DOMAIN d.store : d.store[u] \in Stored
  BY <1>1, DbIs
<1>3. SameLists(d, e) /\ e.retained = d.retained /\ e.last = d.last
  BY <1>1 DEF SameLists, Counting, OnlyStore
<1>4. (\A u : Refs(e, u) = Refs(d, u)) /\ EntriesFinite(e)
  BY <1>3, RefsSame DEF StoreSound
<1>5. ListsValid(e) /\ IdsBounded(e)
  BY <1>1 DEF ListsValid, IdsBounded, StoreSound, Counting, OnlyStore
<1>6. RetainedValid(e)
  BY <1>1 DEF RetainedValid, StoreSound, Counting, OnlyStore, SameStored
<1>7. Counted(e, s, b)
  <2> SUFFICES ASSUME NEW u \in DOMAIN d.store
               PROVE  e.store[u].ref = Refs(d, u) + One(u, s) + One(u, b)
    BY <1>1, <1>4 DEF Counted, Counting
  <2>1. Refs(d, u) \in Nat /\ One(u, b) \in Nat /\ u # 0 /\ One(u, 0) = 0
    BY <1>2, RefsNat DEF StoreSound, One, IdsBounded
  <2>2. d.store[u].ref = Refs(d, u) + One(u, 0) + One(u, b)
    BY DEF StoreSound, Counted
  <2>3. CASE u = s
    BY <2>1, <2>2, <2>3, <1>1 DEF Counting, One
  <2>4. CASE u # s
    BY <2>1, <2>2, <2>4, <1>1 DEF Counting, One
  <2> QED
    BY <2>3, <2>4
<1>8. Zeros(e) \subseteq Zeros(d)
  <2> SUFFICES ASSUME NEW u \in DOMAIN d.store, e.store[u].ref = 0
               PROVE  d.store[u].ref = 0
    BY <1>1 DEF Zeros, Counting
  <2>1. d.store[u].ref \in Nat
    BY <1>2, StoredIs
  <2> QED
    BY <2>1, <1>1 DEF Counting
<1> QED
  BY <1>1, <1>4, <1>5, <1>6, <1>7, <1>8 DEF StoreSound, e
----------------------------------------------------------------------------
(***************************************************************************)
(* Lists and retained messages that change by one entry.                   *)
(***************************************************************************)
\* What is known of a client but for its messages.
SameClient(x, y) ==
    /\ x.id = y.id /\ x.state = y.state /\ x.clean = y.clean /\ x.sock = y.sock
    /\ x.will = y.will /\ x.subs = y.subs

\* e is d with the list m for context h.
ListSet(d, e, h, m) ==
    /\ OnlyCtxs(d, e) /\ DOMAIN e.ctxs = DOMAIN d.ctxs /\ e.ctxs[h].msgs = m
    /\ SameClient(e.ctxs[h], d.ctxs[h])
    /\ \A g \in DOMAIN d.ctxs : g # h => e.ctxs[g] = d.ctxs[g]

LEMMA SetList ==
    ASSUME NEW d \in Dbs, NEW h \in DOMAIN d.ctxs, NEW m \in Seq(Msgs),
           NEW e, e = [d EXCEPT !.ctxs[h].msgs = m]
    PROVE  e \in Dbs /\ ListSet(d, e, h, m)
<1> DEFINE new == [d.ctxs[h] EXCEPT !.msgs = m]
<1>1. e = [d EXCEPT !.ctxs = [d.ctxs EXCEPT ![h] = new]]
  OBVIOUS
<1>2. d.ctxs \in CtxTables /\ d.ctxs[h] \in Ctxs
  BY DbIs
<1>3. new \in Ctxs /\ new.msgs = m /\ SameClient(new, d.ctxs[h])
  BY <1>2 DEF Ctxs, SameClient
<1> HIDE DEF new
<1>4. /\ [d.ctxs EXCEPT ![h] = new] \in CtxTables
      /\ Entered([d.ctxs EXCEPT ![h] = new], d.ctxs, h, new)
      /\ DOMAIN [d.ctxs EXCEPT ![h] = new] = DOMAIN d.ctxs
  BY <1>2, <1>3, ChangedIs DEF CtxTables
<1> DEFINE x == [d.ctxs EXCEPT ![h] = new]
<1>5. e \in Dbs /\ e.ctxs = x /\ OnlyCtxs(d, e)
  <2>1. x \in CtxTables /\ e = [d EXCEPT !.ctxs = x]
    BY <1>1, <1>4
  <2> HIDE DEF x
  <2>2. /\ [d EXCEPT !.ctxs = x] \in Dbs
        /\ [d EXCEPT !.ctxs = x].ctxs = x
        /\ OnlyCtxs(d, [d EXCEPT !.ctxs = x])
    BY <2>1, SetCtxs, Zenon
  <2> QED
    BY <2>1, <2>2, Zenon
<1> QED
  BY <1>3, <1>4, <1>5 DEF ListSet, Entered

LEMMA ListOnly ==
    ASSUME NEW d, NEW e, NEW h \in DOMAIN d.ctxs, NEW m, ListSet(d, e, h, m)
    PROVE  /\ OnlyList(d, e, h) /\ e.ctxs[h].msgs = m
           /\ e.store = d.store /\ e.last = d.last /\ e.retained = d.retained
  BY DEF ListSet, OnlyList, OnlyCtxs

\* The count that was ahead has its entry.
LEMMA AppendSound ==
    ASSUME NEW d, NEW b, NEW h \in DOMAIN d.ctxs, NEW msg \in Msgs,
           StoreSound(d, msg.store, b), msg.store \in DOMAIN d.store,
           NEW e, e = [d EXCEPT !.ctxs[h].msgs = Append(d.ctxs[h].msgs, msg)]
    PROVE  /\ StoreSound(e, 0, b)
           /\ ListSet(d, e, h, Append(d.ctxs[h].msgs, msg))
<1> DEFINE old == d.ctxs[h].msgs
           new == Append(old, msg)
<1>1. d \in Dbs /\ d.ctxs[h] \in Ctxs /\ old \in Seq(Msgs) /\ DOMAIN d.store \subseteq Nat
  BY DbIs, CtxIs DEF StoreSound
<1>2. /\ new \in Seq(Msgs) /\ DOMAIN new = DOMAIN old \cup {Len(old) + 1}
      /\ new[Len(old) + 1] = msg /\ \A i \in DOMAIN old : new[i] = old[i]
  BY <1>1, AppendIs
<1>3. e \in Dbs /\ ListSet(d, e, h, new)
  BY <1>1, <1>2, SetList
<1>4. /\ OnlyList(d, e, h) /\ e.ctxs[h].msgs = new
      /\ e.store = d.store /\ e.last = d.last /\ e.retained = d.retained
  BY <1>3, ListOnly
<1>5. /\ EntriesFinite(e)
      /\ \A u \in Nat : Refs(e, u) = Refs(d, u) + One(u, msg.store)
  <2>1. EntriesFinite(d)
    BY DEF StoreSound
  <2> QED
    BY <2>1, <1>1, <1>4, RefsAppend, ZenonT(60)
<1> HIDE DEF new, old
<1>6. ListsValid(e)
  <2> SUFFICES ASSUME NEW g \in DOMAIN d.ctxs, NEW i \in DOMAIN e.ctxs[g].msgs
               PROVE  e.ctxs[g].msgs[i].store \in DOMAIN d.store
    BY <1>3, <1>4 DEF ListsValid, ListSet
  <2>1. CASE g # h
    BY <2>1, <1>4 DEF StoreSound, ListsValid, OnlyList
  <2>2. CASE g = h
    BY <2>2, <1>2, <1>4 DEF StoreSound, ListsValid, old
  <2> QED
    BY <2>1, <2>2
<1>7. IdsBounded(e) /\ RetainedValid(e)
  BY <1>4 DEF StoreSound, IdsBounded, RetainedValid
<1>8. Counted(e, 0, b)
  <2> SUFFICES ASSUME NEW u \in DOMAIN d.store
               PROVE  d.store[u].ref = Refs(e, u) + One(u, 0) + One(u, b)
    BY <1>4 DEF Counted
  <2>1. /\ u \in Nat /\ Refs(d, u) \in Nat /\ One(u, b) \in Nat
        /\ One(u, msg.store) \in Nat /\ One(u, 0) = 0
    BY <1>1, RefsNat DEF One, StoreSound, IdsBounded
  <2>2. d.store[u].ref = Refs(d, u) + One(u, msg.store) + One(u, b)
    BY DEF StoreSound, Counted
  <2>3. Refs(e, u) = Refs(d, u) + One(u, msg.store)
    BY <1>5, <2>1
  <2> QED
    BY <2>1, <2>2, <2>3
<1> QED
  BY <1>3, <1>5, <1>6, <1>7, <1>8 DEF StoreSound, new, old

\* An entry is taken out of a list: its count is ahead.
LEMMA RemoveSound ==
    ASSUME NEW d, NEW b, NEW h \in DOMAIN d.ctxs, NEW i \in DOMAIN d.ctxs[h].msgs,
           StoreSound(d, 0, b),
           NEW e, e = [d EXCEPT !.ctxs[h].msgs = RemoveAt(d.ctxs[h].msgs, i)]
    PROVE  /\ StoreSound(e, d.ctxs[h].msgs[i].store, b)
           /\ ListSet(d, e, h, RemoveAt(d.ctxs[h].msgs, i))
<1> DEFINE old == d.ctxs[h].msgs
           new == RemoveAt(old, i)
           s == old[i].store
<1>1. d \in Dbs /\ d.ctxs[h] \in Ctxs /\ old \in Seq(Msgs) /\ DOMAIN d.store \subseteq Nat
  BY DbIs, CtxIs DEF StoreSound
<1>2. /\ new \in Seq(Msgs) /\ Len(new) = Len(old) - 1
      /\ \A k \in 1..(Len(old) - 1) : new[k] = IF k < i THEN old[k] ELSE old[k + 1]
  BY <1>1, RemoveAtIs
<1>3. e \in Dbs /\ ListSet(d, e, h, new)
  BY <1>1, <1>2, SetList
<1>4. /\ OnlyList(d, e, h) /\ e.ctxs[h].msgs = new
      /\ e.store = d.store /\ e.last = d.last /\ e.retained = d.retained
  BY <1>3, ListOnly
<1>5. EntriesFinite(e) /\ OneMore(d, e, s)
  <2>1. EntriesFinite(d)
    BY DEF StoreSound
  <2> QED
    BY <1>1, <1>4, <2>1, RefsRemove
<1>6. DOMAIN old = 1..Len(old) /\ DOMAIN new = 1..Len(new) /\ Len(old) \in Nat
  BY <1>1, <1>2, LenProperties
<1> HIDE DEF new, old, s
<1>7. \A k \in DOMAIN new : \E j \in DOMAIN old : new[k] = old[j]
  <2> SUFFICES ASSUME NEW k \in DOMAIN new
               PROVE  \E j \in DOMAIN old : new[k] = old[j]
    OBVIOUS
  <2>1. k \in 1..(Len(old) - 1) /\ k \in DOMAIN old /\ k + 1 \in DOMAIN old
    BY <1>2, <1>6
  <2> QED
    BY <2>1, <1>2
<1>8. ListsValid(e)
  <2> SUFFICES ASSUME NEW g \in DOMAIN d.ctxs, NEW j \in DOMAIN e.ctxs[g].msgs
               PROVE  e.ctxs[g].msgs[j].store \in DOMAIN d.store
    BY <1>3, <1>4 DEF ListsValid, ListSet
  <2>1. CASE g # h
    BY <2>1, <1>4 DEF StoreSound, ListsValid, OnlyList
  <2>2. CASE g = h
    BY <2>2, <1>7, <1>4 DEF StoreSound, ListsValid, old
  <2> QED
    BY <2>1, <2>2
<1>9. IdsBounded(e) /\ RetainedValid(e)
  BY <1>4 DEF StoreSound, IdsBounded, RetainedValid
<1>10. Counted(e, s, b)
  <2> SUFFICES ASSUME NEW u \in DOMAIN d.store
               PROVE  d.store[u].ref = Refs(e, u) + One(u, s) + One(u, b)
    BY <1>4 DEF Counted
  <2>1. /\ u \in Nat /\ Refs(e, u) \in Nat /\ One(u, b) \in Nat
        /\ One(u, s) \in Nat /\ One(u, 0) = 0
    BY <1>1, <1>5, RefsNat DEF One, StoreSound, IdsBounded
  <2>2. d.store[u].ref = Refs(d, u) + One(u, 0) + One(u, b)
    BY DEF StoreSound, Counted
  <2>3. Refs(d, u) = Refs(e, u) + One(u, s)
    BY <1>5, <2>1 DEF OneMore
  <2> QED
    BY <2>1, <2>2, <2>3
<1> QED
  BY <1>3, <1>5, <1>8, <1>9, <1>10 DEF StoreSound, new, old, s

LEMMA SetRetainedOf ==
    ASSUME NEW d \in Dbs, NEW t \in Topics, NEW v \in Nat \cup {NULL}
    PROVE  /\ [d EXCEPT !.retained[t] = v] \in Dbs
           /\ OnlyRetained(d, [d EXCEPT !.retained[t] = v], t, v)
  BY DEF Dbs, OnlyRetained

\* A topic retains nothing any more: the count of what it had is ahead.
LEMMA ClearedSound ==
    ASSUME NEW d, NEW b, NEW t \in Topics, StoreSound(d, 0, b), d.retained[t] # NULL,
           NEW e, e \in Dbs, OnlyRetained(d, e, t, NULL)
    PROVE  StoreSound(e, d.retained[t], b)
<1> DEFINE s == d.retained[t]
<1>1. /\ d \in Dbs /\ DOMAIN d.store \subseteq Nat
      /\ d.retained \in [Topics -> Nat \cup {NULL}] /\ EntriesFinite(d)
  BY DbIs DEF StoreSound
<1>2. e \in Dbs /\ OnlyRetained(d, e, t, NULL)
  OBVIOUS
<1>3. EntriesFinite(e) /\ OneInstead(d, e, NULL, s)
  BY <1>1, <1>2, RefsRetained
<1>4. ListsValid(e) /\ IdsBounded(e)
  BY <1>2 DEF ListsValid, IdsBounded, OnlyRetained, StoreSound
<1>5. RetainedValid(e)
  BY <1>1, <1>2 DEF RetainedValid, OnlyRetained, StoreSound
<1> HIDE DEF s
<1>6. Counted(e, s, b)
  <2> SUFFICES ASSUME NEW u \in DOMAIN d.store
               PROVE  d.store[u].ref = Refs(e, u) + One(u, s) + One(u, b)
    BY <1>2 DEF Counted, OnlyRetained
  <2>1. u \in Nat /\ u # NULL /\ u # 0
    BY <1>1, StoreAssumption DEF StoreSound, IdsBounded
  <2>2. /\ Refs(d, u) \in Nat /\ Refs(e, u) \in Nat /\ One(u, s) \in Nat
        /\ One(u, b) \in Nat /\ One(u, NULL) = 0 /\ One(u, 0) = 0
    BY <2>1, <1>3, RefsNat DEF One, StoreSound
  <2>3. d.store[u].ref = Refs(d, u) + One(u, 0) + One(u, b)
    BY DEF StoreSound, Counted
  <2>4. Refs(e, u) + One(u, s) = Refs(d, u) + One(u, NULL)
    BY <1>3, <2>1 DEF OneInstead
  <2> QED
    BY <2>2, <2>3, <2>4
<1> QED
  BY <1>2, <1>3, <1>4, <1>5, <1>6 DEF StoreSound, s

LEMMA ClearSound ==
    ASSUME NEW d, NEW b, NEW t \in Topics, StoreSound(d, 0, b), d.retained[t] # NULL,
           NEW e, e = [d EXCEPT !.retained[t] = NULL]
    PROVE  StoreSound(e, d.retained[t], b) /\ OnlyRetained(d, e, t, NULL)
<1>1. e \in Dbs /\ OnlyRetained(d, e, t, NULL)
  BY SetRetainedOf DEF StoreSound
<1> QED
  BY <1>1, ClearedSound

\* The count that was ahead has its topic.
LEMMA RetainedSound ==
    ASSUME NEW d, NEW b, NEW t \in Topics, NEW s \in DOMAIN d.store,
           StoreSound(d, s, b), d.retained[t] = NULL, d.store[s].topic = t,
           d.store[s].retain, d.store[s].payload,
           NEW e, e \in Dbs, OnlyRetained(d, e, t, s)
    PROVE  StoreSound(e, 0, b)
<1>1. /\ d \in Dbs /\ DOMAIN d.store \subseteq Nat
      /\ d.retained \in [Topics -> Nat \cup {NULL}] /\ EntriesFinite(d)
  BY DbIs DEF StoreSound
<1>2. e \in Dbs /\ OnlyRetained(d, e, t, s)
  OBVIOUS
<1>3. EntriesFinite(e) /\ OneInstead(d, e, s, NULL)
  <2>1. EntriesFinite(e) /\ OneInstead(d, e, s, d.retained[t])
    BY <1>1, <1>2, RefsRetained, Zenon
  <2> QED
    BY <2>1, Zenon
<1>4. ListsValid(e) /\ IdsBounded(e)
  BY <1>2 DEF ListsValid, IdsBounded, OnlyRetained, StoreSound
<1>5. RetainedValid(e)
  BY <1>1, <1>2 DEF RetainedValid, OnlyRetained, StoreSound
<1>6. Counted(e, 0, b)
  <2> SUFFICES ASSUME NEW u \in DOMAIN d.store
               PROVE  d.store[u].ref = Refs(e, u) + One(u, 0) + One(u, b)
    BY <1>2 DEF Counted, OnlyRetained
  <2>1. u \in Nat /\ u # NULL /\ u # 0
    BY <1>1, StoreAssumption DEF StoreSound, IdsBounded
  <2>2. /\ Refs(d, u) \in Nat /\ Refs(e, u) \in Nat /\ One(u, s) \in Nat
        /\ One(u, b) \in Nat /\ One(u, NULL) = 0 /\ One(u, 0) = 0
    BY <2>1, <1>3, RefsNat DEF One, StoreSound
  <2>3. d.store[u].ref = Refs(d, u) + One(u, s) + One(u, b)
    BY DEF StoreSound, Counted
  <2>4. Refs(e, u) + One(u, NULL) = Refs(d, u) + One(u, s)
    BY <1>3, <2>1 DEF OneInstead
  <2> QED
    BY <2>2, <2>3, <2>4
<1> QED
  BY <1>2, <1>3, <1>4, <1>5, <1>6 DEF StoreSound

LEMMA RetainSound ==
    ASSUME NEW d, NEW b, NEW t \in Topics, NEW s \in DOMAIN d.store,
           StoreSound(d, s, b), d.retained[t] = NULL, d.store[s].topic = t,
           d.store[s].retain, d.store[s].payload,
           NEW e, e = [d EXCEPT !.retained[t] = s]
    PROVE  StoreSound(e, 0, b) /\ OnlyRetained(d, e, t, s)
<1>1. d \in Dbs /\ s \in Nat
  BY DbIs DEF StoreSound
<1>2. e \in Dbs /\ OnlyRetained(d, e, t, s)
  BY <1>1, SetRetainedOf
<1> QED
  BY <1>2, RetainedSound
----------------------------------------------------------------------------
(***************************************************************************)
(* Routing.  Whatever is routed or released, clients stay as they are and  *)
(* their lists only grow.                                                  *)
(***************************************************************************)
Grown(x, y) == \A i \in DOMAIN x : i \in DOMAIN y /\ y[i] = x[i]

Routed(d, e) ==
    /\ e.last = d.last /\ e.leaves = d.leaves /\ e.free = d.free
    /\ DOMAIN e.store \subseteq DOMAIN d.store
    /\ \A u \in DOMAIN e.store : SameStored(e.store[u], d.store[u])
    /\ Zeros(e) \subseteq Zeros(d)
    /\ DOMAIN e.ctxs = DOMAIN d.ctxs
    /\ \A h \in DOMAIN d.ctxs : /\ SameClient(e.ctxs[h], d.ctxs[h])
                                /\ Grown(d.ctxs[h].msgs, e.ctxs[h].msgs)

LEMMA RoutedSelf ==
    ASSUME NEW d
    PROVE  Routed(d, d)
  BY DEF Routed, SameStored, SameClient, Grown

LEMMA RoutedTrans ==
    ASSUME NEW d, NEW e, NEW f, Routed(d, e), Routed(e, f)
    PROVE  Routed(d, f)
<1>1. \A u \in DOMAIN f.store : SameStored(f.store[u], d.store[u])
  BY DEF Routed, SameStored
<1>2. \A h \in DOMAIN d.ctxs : SameClient(f.ctxs[h], d.ctxs[h])
  BY DEF Routed, SameClient
<1>3. \A h \in DOMAIN d.ctxs : Grown(d.ctxs[h].msgs, f.ctxs[h].msgs)
  <2> SUFFICES ASSUME NEW h \in DOMAIN d.ctxs, NEW i \in DOMAIN d.ctxs[h].msgs
               PROVE  /\ i \in DOMAIN f.ctxs[h].msgs
                      /\ f.ctxs[h].msgs[i] = d.ctxs[h].msgs[i]
    BY DEF Grown
  <2>1. i \in DOMAIN e.ctxs[h].msgs /\ e.ctxs[h].msgs[i] = d.ctxs[h].msgs[i]
    BY DEF Routed, Grown
  <2> QED
    BY <2>1 DEF Routed, Grown
<1> QED
  BY <1>1, <1>2, <1>3 DEF Routed

\* Releasing, counting, a change of what is retained: no list changes.
LEMMA RoutedStore ==
    ASSUME NEW d, NEW e, e.last = d.last, e.leaves = d.leaves, e.free = d.free,
           e.ctxs = d.ctxs, DOMAIN e.store \subseteq DOMAIN d.store,
           \A u \in DOMAIN e.store : SameStored(e.store[u], d.store[u]),
           Zeros(e) \subseteq Zeros(d)
    PROVE  Routed(d, e)
  BY DEF Routed, SameClient, Grown

LEMMA RoutedReleased ==
    ASSUME NEW d, NEW e, NEW s, Released(d, e, s)
    PROVE  Routed(d, e)
  BY RoutedStore DEF Released, OnlyStore

\* There is an entry for s in the list of h.
Holds(d, h, s, dir) ==
    \E i \in DOMAIN d.ctxs[h].msgs :
        d.ctxs[h].msgs[i].store = s /\ d.ctxs[h].msgs[i].dir = dir

LEMMA HoldsRouted ==
    ASSUME NEW d, NEW e, Routed(d, e), NEW h \in DOMAIN d.ctxs, NEW s, NEW dir,
           Holds(d, h, s, dir)
    PROVE  Holds(e, h, s, dir)
  BY DEF Holds, Routed, Grown

LEMMA HeldCounts ==
    ASSUME NEW d, NEW a, NEW b, StoreSound(d, a, b), NEW h \in DOMAIN d.ctxs,
           NEW s, NEW dir, Holds(d, h, s, dir)
    PROVE  s \in DOMAIN d.store /\ Refs(d, s) > 0 /\ s \notin Zeros(d)
<1>1. PICK i \in DOMAIN d.ctxs[h].msgs : d.ctxs[h].msgs[i].store = s
  BY DEF Holds
<1>2. s \in DOMAIN d.store /\ s \in Nat
  BY <1>1, DbIs DEF StoreSound, ListsValid
<1>3. <<h, i>> \in Entries(d, s)
  BY <1>1, EntryIs
<1>4. Refs(d, s) \in Nat /\ Refs(d, s) # 0
  BY <1>2, <1>3, RefsNat DEF StoreSound
<1>5. d.store[s].ref = Refs(d, s) + One(s, a) + One(s, b)
  BY <1>2 DEF StoreSound, Counted
<1>6. One(s, a) \in Nat /\ One(s, b) \in Nat
  BY DEF One
<1>7. d.store[s].ref # 0
  BY <1>4, <1>5, <1>6
<1> QED
  BY <1>2, <1>4, <1>7 DEF Zeros

\* Inserted(d, e, h, s, dir): the result of mqtt3_db_message_insert.
Inserted(d, e, h, s, dir, qos) ==
    /\ Routed(d, e) /\ DOMAIN e.store = DOMAIN d.store /\ e.retained = d.retained
    /\ d.ctxs[h].id # NULL /\ (d.ctxs[h].sock \/ qos > 0) => Holds(e, h, s, dir)

LEMMA InsertSound ==
    ASSUME NEW d, NEW b, NEW h \in DOMAIN d.ctxs, NEW s \in DOMAIN d.store,
           NEW dir \in {"in", "out"}, NEW qos \in 0..2, NEW retain \in BOOLEAN,
           StoreSound(d, 0, b),
           NEW e, e = mqtt3_db_message_insert(d, h, dir, qos, retain, s)
    PROVE  StoreSound(e, 0, b) /\ Inserted(d, e, h, s, dir, qos)
<1> DEFINE msg == [store |-> s, dir |-> dir, qos |-> qos, retain |-> retain]
           r == Ref(d, s)
           in == [r EXCEPT !.ctxs[h].msgs = Append(r.ctxs[h].msgs, msg)]
<1>1. CASE d.ctxs[h].id = NULL \/ (~d.ctxs[h].sock /\ qos = 0)
  <2>1. e = d
    BY <1>1 DEF mqtt3_db_message_insert
  <2> QED
    BY <1>1, <2>1, RoutedSelf DEF Inserted
<1>2. CASE ~(d.ctxs[h].id = NULL \/ (~d.ctxs[h].sock /\ qos = 0))
  <2>1. e = IF d.ctxs[h].sock THEN in ELSE Changed(in)
    BY <1>2 DEF mqtt3_db_message_insert
  <2>2. s \in Nat /\ msg \in Msgs /\ msg.store = s /\ msg.dir = dir
    <3>1. s \in Nat
      BY DbIs DEF StoreSound
    <3> QED
      BY <3>1 DEF Msgs
  <2> HIDE DEF msg
  <2>3. StoreSound(r, s, b) /\ Counting(d, r, s) /\ Zeros(r) \subseteq Zeros(d)
    BY RefSound
  <2> HIDE DEF r
  <2>4. h \in DOMAIN r.ctxs /\ s \in DOMAIN r.store /\ r.ctxs = d.ctxs
    BY <2>3 DEF Counting, OnlyStore
  <2>5. StoreSound(in, 0, b) /\ ListSet(r, in, h, Append(r.ctxs[h].msgs, msg))
    BY <2>2, <2>3, <2>4, AppendSound
  <2> HIDE DEF in
  <2>6. /\ in.last = d.last /\ in.leaves = d.leaves /\ in.free = d.free
        /\ in.store = r.store /\ in.retained = d.retained
        /\ DOMAIN in.ctxs = DOMAIN d.ctxs /\ SameClient(in.ctxs[h], d.ctxs[h])
        /\ in.ctxs[h].msgs = Append(d.ctxs[h].msgs, msg)
        /\ \A g \in DOMAIN d.ctxs : g # h => in.ctxs[g] = d.ctxs[g]
    BY <2>3, <2>4, <2>5 DEF Counting, OnlyStore, ListSet, OnlyCtxs
  <2>7. d.ctxs[h].msgs \in Seq(Msgs)
    BY DbIs, CtxIs DEF StoreSound
  <2>8. /\ Grown(d.ctxs[h].msgs, in.ctxs[h].msgs)
        /\ Len(d.ctxs[h].msgs) + 1 \in DOMAIN in.ctxs[h].msgs
        /\ in.ctxs[h].msgs[Len(d.ctxs[h].msgs) + 1] = msg
    BY <2>2, <2>6, <2>7, AppendIs DEF Grown
  <2>9. \A g \in DOMAIN d.ctxs : /\ SameClient(in.ctxs[g], d.ctxs[g])
                                 /\ Grown(d.ctxs[g].msgs, in.ctxs[g].msgs)
    <3> SUFFICES ASSUME NEW g \in DOMAIN d.ctxs
                 PROVE  /\ SameClient(in.ctxs[g], d.ctxs[g])
                        /\ Grown(d.ctxs[g].msgs, in.ctxs[g].msgs)
      OBVIOUS
    <3>1. CASE g = h
      BY <3>1, <2>6, <2>8
    <3>2. CASE g # h
      BY <3>2, <2>6 DEF SameClient, Grown
    <3> QED
      BY <3>1, <3>2
  <2>10. Zeros(in) \subseteq Zeros(d)
    BY <2>3, <2>6 DEF Zeros
  <2>11. Routed(d, in)
    BY <2>3, <2>6, <2>9, <2>10 DEF Routed, Counting
  <2>12. Holds(in, h, s, dir)
    BY <2>2, <2>8 DEF Holds
  <2>13. Inserted(d, in, h, s, dir, qos)
    BY <2>3, <2>6, <2>11, <2>12 DEF Inserted, Counting
  <2>14. CASE d.ctxs[h].sock
    BY <2>14, <2>1, <2>5, <2>13
  <2>15. CASE ~d.ctxs[h].sock
    <3>1. /\ e = Changed(in) /\ e \in Dbs /\ e.last = in.last /\ e.ctxs = in.ctxs
          /\ e.leaves = in.leaves /\ e.retained = in.retained
          /\ e.free = in.free /\ e.store = in.store
      BY <2>1, <2>5, <2>15, SetChanges DEF StoreSound
    <3>2. SameStore(in, e)
      BY <3>1 DEF SameStore, SameLists
    <3>3. StoreSound(e, 0, b)
      BY <3>1, <3>2, <2>5, StoreSoundSame
    <3>4. Inserted(d, e, h, s, dir, qos)
      BY <3>1, <2>13 DEF Inserted, Routed, Holds, Zeros
    <3> QED
      BY <3>3, <3>4
  <2> QED
    BY <2>14, <2>15
<1> QED
  BY <1>1, <1>2
\* What releasing and counting do to the store alone.
StoreReleased(st, s) ==
    IF st[s].ref = 1 THEN Without(st, s) ELSE [st EXCEPT ![s].ref = @ - 1]

LEMMA DerefStore ==
    ASSUME NEW d \in Dbs, NEW s
    PROVE  /\ mosquitto__db_msg_store_deref(d, s).store = StoreReleased(d.store, s)
           /\ OnlyStore(d, mosquitto__db_msg_store_deref(d, s))
  BY DEF mosquitto__db_msg_store_deref, StoreReleased, Dbs, OnlyStore

LEMMA RefStore ==
    ASSUME NEW d \in Dbs, NEW s
    PROVE  /\ Ref(d, s).store = [d.store EXCEPT ![s].ref = @ + 1]
           /\ OnlyStore(d, Ref(d, s))
  BY DEF Ref, Dbs, OnlyStore

\* c is d after the retained message of topic t was released, y is c with
\* nothing retained for t.
Cleared(d, c, y, t, s) ==
    /\ c \in Dbs /\ OnlyStore(d, c) /\ StoreSound(y, 0, s) /\ s \in DOMAIN y.store
    /\ y.store = c.store /\ y.ctxs = d.ctxs /\ y.leaves = d.leaves
    /\ y.last = d.last /\ y.free = d.free
    /\ y.retained = [d.retained EXCEPT ![t] = NULL]
    /\ DOMAIN y.store \subseteq DOMAIN d.store
    /\ \A u \in DOMAIN d.store : u # d.retained[t] => u \in DOMAIN y.store
    /\ \A u \in DOMAIN y.store : SameStored(y.store[u], d.store[u])
    /\ Zeros(y) \subseteq Zeros(d)

LEMMA Clearing ==
    ASSUME NEW d, NEW s \in DOMAIN d.store, NEW t \in Topics, StoreSound(d, 0, s),
           NEW c, c = IF d.retained[t] = NULL THEN d
                      ELSE mosquitto__db_msg_store_deref(d, d.retained[t])
    PROVE  \E y : Cleared(d, c, y, t, s)
<1>1. d \in Dbs /\ d.retained \in [Topics -> Nat \cup {NULL}] /\ DOMAIN d.store \subseteq Nat
  BY DbIs DEF StoreSound
<1>2. CASE d.retained[t] = NULL
  <2>1. c = d /\ d.retained = [d.retained EXCEPT ![t] = NULL]
    BY <1>1, <1>2
  <2>2. Cleared(d, c, d, t, s)
    BY <1>1, <2>1 DEF Cleared, OnlyStore, SameStored
  <2> QED
    BY <2>2
<1>3. CASE d.retained[t] # NULL
  <2> DEFINE old == d.retained[t]
             x == [d EXCEPT !.retained[t] = NULL]
             y == mosquitto__db_msg_store_deref(x, old)
  <2>1. StoreSound(x, old, s) /\ OnlyRetained(d, x, t, NULL)
    BY <1>3, ClearSound
  <2>2. old \in DOMAIN d.store /\ old \in Nat
    BY <1>1, <1>3 DEF StoreSound, RetainedValid
  <2>3. c = mosquitto__db_msg_store_deref(d, old)
    BY <1>3
  <2> HIDE DEF x, old
  <2>4. old \in DOMAIN x.store /\ s \in DOMAIN x.store /\ x \in Dbs
    BY <2>1, <2>2 DEF OnlyRetained, StoreSound
  <2>5. /\ StoreSound(y, 0, s) /\ Released(x, y, old)
        /\ Refs(x, old) + One(old, s) > 0 => old \in DOMAIN y.store
    BY <2>1, <2>4, DerefSound
  <2>6. /\ y.store = StoreReleased(x.store, old) /\ OnlyStore(x, y)
        /\ c.store = StoreReleased(d.store, old) /\ OnlyStore(d, c)
    BY <1>1, <2>3, <2>4, DerefStore
  <2> HIDE DEF y
  <2>7. y.store = c.store /\ x.store = d.store
    BY <2>1, <2>6 DEF OnlyRetained
  <2>8. s \in DOMAIN y.store
    <3>1. CASE old = s
      <4>1. Refs(x, old) \in Nat /\ One(old, s) = 1
        BY <2>1, <2>2, <3>1, RefsNat DEF StoreSound, One
      <4>2. Refs(x, old) + One(old, s) > 0
        BY <4>1
      <4> QED
        BY <2>5, <3>1, <4>2
    <3>2. CASE old # s
      BY <3>2, <2>4, <2>5 DEF Released
    <3> QED
      BY <3>1, <3>2
  <2>9. c \in Dbs
    <3>1. /\ y \in Dbs /\ y.store \in StoreTables
      BY <2>5, DbIs DEF StoreSound
    <3>2. c.store \in StoreTables
      BY <3>1, <2>7
    <3>3. c = [d EXCEPT !.store = c.store]
      BY <1>1, <2>3 DEF mosquitto__db_msg_store_deref, Dbs
    <3> QED
      BY <1>1, <3>2, <3>3, SetStore
  <2>10. Zeros(y) \subseteq Zeros(d) /\ DOMAIN y.store \subseteq DOMAIN d.store
    BY <2>5, <2>7 DEF Released, Zeros
  <2>11. /\ \A u \in DOMAIN d.store : u # d.retained[t] => u \in DOMAIN y.store
         /\ \A u \in DOMAIN y.store : SameStored(y.store[u], d.store[u])
    BY <2>5, <2>7 DEF Released, old
  <2>12. /\ y.ctxs = d.ctxs /\ y.leaves = d.leaves /\ y.last = d.last
         /\ y.free = d.free /\ y.retained = [d.retained EXCEPT ![t] = NULL]
    BY <2>1, <2>6 DEF OnlyStore, OnlyRetained
  <2>13. Cleared(d, c, y, t, s)
    BY <2>5, <2>6, <2>7, <2>8, <2>9, <2>10, <2>11, <2>12 DEF Cleared
  <2> QED
    BY <2>13
<1> QED
  BY <1>2, <1>3

\* The result of SetRetained.
NowRetained(d, e, s) ==
    LET t == d.store[s].topic
    IN  /\ Routed(d, e) /\ s \in DOMAIN e.store /\ e.ctxs = d.ctxs
        /\ \A u \in DOMAIN d.store : u # d.retained[t] => u \in DOMAIN e.store
        /\ e.retained = [d.retained EXCEPT ![t] = IF d.store[s].payload THEN s ELSE NULL]

LEMMA SetRetainedSound ==
    ASSUME NEW d, NEW s \in DOMAIN d.store, StoreSound(d, 0, s),
           d.store[s].topic \in Topics, d.store[s].retain, NEW e, e = SetRetained(d, s)
    PROVE  StoreSound(e, 0, s) /\ NowRetained(d, e, s)
<1> DEFINE t == d.store[s].topic
           c == IF d.retained[t] = NULL THEN d
                ELSE mosquitto__db_msg_store_deref(d, d.retained[t])
<1>1. PICK y : Cleared(d, c, y, t, s)
  BY Clearing
<1>2. e = IF d.store[s].payload THEN [Changed(Ref(c, s)) EXCEPT !.retained[t] = s]
          ELSE [Changed(c) EXCEPT !.retained[t] = NULL]
  BY DEF SetRetained
<1>3. t \in Topics
  OBVIOUS
<1>4. d \in Dbs /\ d.retained \in [Topics -> Nat \cup {NULL}] /\ s \in Nat
  BY DbIs DEF StoreSound
<1>5. d.store[s].payload \in BOOLEAN
  BY DbIs, StoredIs DEF StoreSound
<1> HIDE DEF c
<1>6. c \in Dbs /\ OnlyStore(d, c) /\ y \in Dbs /\ s \in DOMAIN y.store /\ y.store = c.store
  BY <1>1 DEF Cleared, StoreSound
<1>7. y.retained = [d.retained EXCEPT ![t] = NULL] /\ y.retained[t] = NULL
  BY <1>1, <1>3, <1>4 DEF Cleared
<1>8. CASE d.store[s].payload
  <2> DEFINE z == Ref(y, s)
             w == [z EXCEPT !.retained[t] = s]
  <2>1. StoreSound(z, s, s) /\ Counting(y, z, s) /\ Zeros(z) \subseteq Zeros(y)
    <3>1. StoreSound(y, 0, s)
      BY <1>1 DEF Cleared
    <3> QED
      BY <3>1, <1>6, RefSound
  <2>2. z.store = [y.store EXCEPT ![s].ref = @ + 1]
    BY <1>6, RefStore
  <2> HIDE DEF z
  <2>3. /\ s \in DOMAIN z.store /\ z.retained[t] = NULL /\ z.store[s].topic = t
        /\ z.store[s].retain /\ z.store[s].payload
    BY <1>1, <1>6, <1>7, <1>8, <2>1 DEF Counting, Cleared, OnlyStore, SameStored
  <2>4. StoreSound(w, 0, s) /\ OnlyRetained(z, w, t, s)
    BY <2>1, <2>3, <1>3, RetainSound
  <2> HIDE DEF w
  <2> DEFINE q == Ref(c, s)
             r == Changed(q)
  <2>5. q \in Dbs /\ OnlyStore(c, q) /\ q.store = [c.store EXCEPT ![s].ref = @ + 1]
    BY <1>6, RefFields, RefStore DEF Counting
  <2> HIDE DEF q
  <2>6. /\ r \in Dbs /\ r.last = q.last /\ r.ctxs = q.ctxs /\ r.leaves = q.leaves
        /\ r.retained = q.retained /\ r.free = q.free /\ r.store = q.store
    BY <2>5, SetChanges
  <2>7. e = [r EXCEPT !.retained[t] = s]
    BY <1>2, <1>8 DEF q
  <2> HIDE DEF r
  <2>8. e \in Dbs /\ OnlyRetained(r, e, t, s)
    BY <2>6, <2>7, <1>3, <1>4, SetRetainedOf
  <2>9. e.store = w.store /\ e.ctxs = d.ctxs /\ e.last = d.last /\ e.leaves = d.leaves
        /\ e.free = d.free
    BY <1>6, <2>2, <2>4, <2>5, <2>6, <2>8 DEF OnlyRetained, OnlyStore
  <2>10. w.ctxs = d.ctxs /\ w.last = d.last /\ w.retained = [z.retained EXCEPT ![t] = s]
         /\ z.retained = [d.retained EXCEPT ![t] = NULL]
    BY <1>1, <1>7, <2>1, <2>4 DEF OnlyRetained, OnlyStore, Cleared, Counting
  <2>11. e.retained = [d.retained EXCEPT ![t] = s]
    BY <1>6, <2>5, <2>6, <2>8 DEF OnlyRetained, OnlyStore
  <2>12. w.retained = e.retained
    BY <2>10, <2>11, <1>4, <1>3
  <2>13. SameStore(w, e)
    BY <2>9, <2>10, <2>12 DEF SameStore, SameLists
  <2>14. StoreSound(e, 0, s) /\ Zeros(e) = Zeros(w)
    BY <2>4, <2>8, <2>13, StoreSoundSame
  <2>15. Zeros(w) = Zeros(z) /\ e.store = z.store
    BY <2>4, <2>9 DEF Zeros, OnlyRetained
  <2>16. Zeros(e) \subseteq Zeros(d)
    BY <1>1, <2>1, <2>14, <2>15 DEF Cleared
  <2>17. /\ DOMAIN e.store = DOMAIN y.store
         /\ \A u \in DOMAIN e.store : SameStored(e.store[u], d.store[u])
    BY <1>1, <2>1, <2>15 DEF Counting, Cleared, SameStored
  <2>18. Routed(d, e)
    BY <1>1, <2>9, <2>16, <2>17, RoutedStore DEF Cleared
  <2>19. NowRetained(d, e, s)
    BY <1>1, <1>6, <1>8, <2>9, <2>11, <2>17, <2>18 DEF NowRetained, Cleared
  <2> QED
    BY <2>14, <2>19
<1>9. CASE ~d.store[s].payload
  <2> DEFINE r == Changed(c)
  <2>1. /\ r \in Dbs /\ r.last = c.last /\ r.ctxs = c.ctxs /\ r.leaves = c.leaves
        /\ r.retained = c.retained /\ r.free = c.free /\ r.store = c.store
    BY <1>6, SetChanges
  <2>2. e = [r EXCEPT !.retained[t] = NULL]
    BY <1>2, <1>9
  <2> HIDE DEF r
  <2>3. e \in Dbs /\ OnlyRetained(r, e, t, NULL)
    BY <2>1, <2>2, <1>3, SetRetainedOf, SMTT(60)
  <2>4. /\ e.store = y.store /\ e.ctxs = d.ctxs /\ e.last = d.last
        /\ e.leaves = d.leaves /\ e.free = d.free
        /\ e.retained = [d.retained EXCEPT ![t] = NULL]
    BY <1>6, <2>1, <2>3 DEF OnlyRetained, OnlyStore
  <2>5. SameStore(y, e)
    BY <1>1, <1>7, <2>4 DEF SameStore, SameLists, Cleared
  <2>6. StoreSound(e, 0, s) /\ Zeros(e) = Zeros(y)
    <3>1. StoreSound(y, 0, s)
      BY <1>1 DEF Cleared
    <3> QED
      BY <3>1, <2>3, <2>5, StoreSoundSame
  <2>7. Routed(d, e)
    BY <1>1, <2>4, <2>6, RoutedStore DEF Cleared
  <2>8. NowRetained(d, e, s)
    BY <1>1, <1>6, <1>9, <2>4, <2>7 DEF NowRetained, Cleared
  <2> QED
    BY <2>6, <2>8
<1> QED
  BY <1>5, <1>8, <1>9
\* The client of a leaf, if it has not lost its name, has what both the
\* message and the subscription want delivered for sure.
Reached(d, e, leaf, qos, s) ==
    d.ctxs[leaf.ctx].id # NULL /\ qos > 0 /\ leaf.qos > 0
        => Holds(e, leaf.ctx, s, "out")

LEMMA ServedRouted ==
    ASSUME NEW d, NEW e, NEW f, NEW leaf, NEW qos, NEW s, Routed(e, f),
           leaf.ctx \in DOMAIN e.ctxs, Reached(d, e, leaf, qos, s)
    PROVE  Reached(d, f, leaf, qos, s)
  BY HoldsRouted DEF Reached

\* Nothing was released while s was sent to the first k leaves.
Sent(d, e, leaves, k, qos, s) ==
    /\ StoreSound(e, 0, s) /\ Routed(d, e)
    /\ DOMAIN e.store = DOMAIN d.store /\ e.retained = d.retained
    /\ \A j \in 1..k : Reached(d, e, leaves[j], qos, s)

LEMMA ToLeafSound ==
    ASSUME NEW d, NEW e, NEW leaves \in Seq(Leaves), NEW k \in 1..Len(leaves),
           NEW qos \in 0..2, NEW s \in DOMAIN d.store,
           \A j \in 1..Len(leaves) : leaves[j].ctx \in DOMAIN d.ctxs,
           Sent(d, e, leaves, k - 1, qos, s), NEW f, f = ToLeaf(e, leaves[k], qos, s)
    PROVE  Sent(d, f, leaves, k, qos, s)
<1> DEFINE leaf == leaves[k]
           q == MinQos(qos, leaf.qos)
<1>1. leaf \in Leaves /\ leaf.ctx \in DOMAIN e.ctxs /\ leaf.qos \in 0..2
  <2>1. leaf \in Leaves
    BY ElementOfSeq
  <2> QED
    BY <2>1 DEF Sent, Routed, Leaves
<1>2. q \in 0..2 /\ (qos > 0 /\ leaf.qos > 0 => q > 0)
  BY <1>1 DEF MinQos
<1> HIDE DEF q
<1>3. s \in DOMAIN e.store /\ StoreSound(e, 0, s)
  BY DEF Sent
<1>4. f = mqtt3_db_message_insert(e, leaf.ctx, "out", q, FALSE, s)
  BY DEF ToLeaf, q
<1> HIDE DEF leaf
<1>5. StoreSound(f, 0, s) /\ Inserted(e, f, leaf.ctx, s, "out", q)
  BY <1>1, <1>2, <1>3, <1>4, InsertSound
<1>6. Routed(e, f) /\ Routed(d, f)
  BY <1>5, RoutedTrans DEF Inserted, Sent
<1>7. Reached(d, f, leaf, qos, s)
  <2> SUFFICES ASSUME d.ctxs[leaf.ctx].id # NULL, qos > 0, leaf.qos > 0
               PROVE  Holds(f, leaf.ctx, s, "out")
    BY DEF Reached
  <2>1. e.ctxs[leaf.ctx].id = d.ctxs[leaf.ctx].id
    BY <1>1 DEF Sent, Routed, SameClient
  <2> QED
    BY <2>1, <1>2, <1>5 DEF Inserted
<1>8. \A j \in 1..k : Reached(d, f, leaves[j], qos, s)
  <2> SUFFICES ASSUME NEW j \in 1..k PROVE Reached(d, f, leaves[j], qos, s)
    OBVIOUS
  <2>1. CASE j = k
    BY <2>1, <1>7 DEF leaf
  <2>2. CASE j # k
    <3>1. j \in 1..(k - 1) /\ j \in 1..Len(leaves)
      BY <2>2, LenProperties
    <3>2. Reached(d, e, leaves[j], qos, s) /\ leaves[j].ctx \in DOMAIN e.ctxs
      BY <3>1 DEF Sent, Routed
    <3> QED
      BY <3>2, <1>6, ServedRouted
  <2> QED
    BY <2>1, <2>2
<1> QED
  BY <1>5, <1>6, <1>8 DEF Sent, Inserted

LEMMA ToLeavesSound ==
    ASSUME NEW d, NEW leaves \in Seq(Leaves), NEW qos \in 0..2,
           NEW s \in DOMAIN d.store, StoreSound(d, 0, s),
           \A j \in 1..Len(leaves) : leaves[j].ctx \in DOMAIN d.ctxs
    PROVE  Sent(d, ToLeaves(d, leaves, qos, s), leaves, Len(leaves), qos, s)
<1> DEFINE n == Len(leaves)
           D == [k \in 0..n |-> {e \in Dbs : Sent(d, e, leaves, k, qos, s)}]
           F == [k \in 1..n |-> [e \in Dbs |-> ToLeaf(e, leaves[k], qos, s)]]
           P(g) == g = [k \in 0..n |-> IF k = 0 THEN d
                                       ELSE ToLeaf(g[k - 1], leaves[k], qos, s)]
<1>1. n \in Nat
  BY LenProperties
<1>2. d \in D[0]
  <2>1. Sent(d, d, leaves, 0, qos, s)
    BY RoutedSelf DEF Sent
  <2> QED
    BY <2>1, <1>1 DEF StoreSound
<1>3. ASSUME NEW k \in 1..n, NEW e \in D[k - 1]
      PROVE  ToLeaf(e, leaves[k], qos, s) \in D[k] /\ e \in Dbs
  <2>1. e \in Dbs /\ Sent(d, e, leaves, k - 1, qos, s) /\ k \in 0..n
    BY <1>1
  <2>2. Sent(d, ToLeaf(e, leaves[k], qos, s), leaves, k, qos, s)
    BY <2>1, ToLeafSound
  <2> QED
    BY <2>1, <2>2 DEF Sent, StoreSound
<1> HIDE DEF n, D
<1>4. \A k \in 1..n : \A e \in D[k - 1] : F[k][e] \in D[k]
  BY <1>3
<1>5. \E g : P(g)
  <2> HIDE DEF F
  <2>1. PICK g : Loops(g, n, d, F, D)
    BY <1>1, <1>2, <1>4, LoopExists
  <2>2. \A k \in 1..n : k - 1 \in 0..n /\ F[k][g[k - 1]] = ToLeaf(g[k - 1], leaves[k], qos, s)
    <3> SUFFICES ASSUME NEW k \in 1..n
                 PROVE  k - 1 \in 0..n /\ F[k][g[k - 1]] = ToLeaf(g[k - 1], leaves[k], qos, s)
      OBVIOUS
    <3>1. k - 1 \in 0..n
      BY <1>1
    <3>2. g[k - 1] \in Dbs
      BY <3>1, <2>1, <1>3 DEF Loops
    <3> QED
      BY <3>1, <3>2 DEF F
  <2>3. P(g)
    BY <2>1, <2>2, <1>1 DEF Loops
  <2> QED
    BY <2>3
<1> DEFINE a == CHOOSE g : P(g)
<1>6. P(a)
  BY <1>5
<1>7. ToLeaves(d, leaves, qos, s) = a[n]
  BY DEF ToLeaves, n
<1> HIDE DEF a, P
<1>8. a[0] = d /\ \A k \in 1..n : a[k] = ToLeaf(a[k - 1], leaves[k], qos, s)
  BY <1>6, <1>1 DEF P
<1>9. \A k \in 0..n : a[k] \in D[k]
  <2>1. n \in Nat /\ a[0] \in D[0]
    BY <1>1, <1>2, <1>8
  <2>2. \A k \in 1..n : a[k - 1] \in D[k - 1] => a[k] \in D[k]
    BY <1>3, <1>8
  <2> QED
    BY <2>1, <2>2, LoopKeeps, Zenon
<1>10. a[n] \in D[n]
  BY <1>1, <1>9
<1> QED
  BY <1>7, <1>10, <1>1 DEF D, n
LeavesValid(d) ==
    \A t \in Topics : \A i \in DOMAIN d.leaves[t] :
        d.leaves[t][i].ctx \in DOMAIN d.ctxs

\* Every client that has a leaf for the topic has got s.
AllServed(d, e, t, qos, s) ==
    \A i \in DOMAIN d.leaves[t] : Reached(d, e, d.leaves[t][i], qos, s)

\* The result of subs_process and of mqtt3_db_messages_queue.  What comes from
\* the file reaches no list and, if it is what is retained already or the
\* first to be, releases nothing.
Routes(d, e, s, fromClient) ==
    LET m == d.store[s]
    IN  /\ Routed(d, e)
        /\ fromClient => AllServed(d, e, m.topic, m.qos, s)
        /\ ~fromClient => e.ctxs = d.ctxs
        /\ m.retain /\ m.payload => e.retained = [d.retained EXCEPT ![m.topic] = s]
        /\ ~fromClient /\ m.retain /\ m.payload /\ d.retained[m.topic] \in {NULL, s}
              => DOMAIN e.store = DOMAIN d.store

LEMMA SubsProcessSound ==
    ASSUME NEW d, NEW s \in DOMAIN d.store, NEW fromClient \in BOOLEAN,
           StoreSound(d, 0, s), LeavesValid(d), d.store[s].topic \in Topics,
           NEW e, e = subs_process(d, s, fromClient)
    PROVE  StoreSound(e, 0, s) /\ Routes(d, e, s, fromClient) /\ s \in DOMAIN e.store
<1> DEFINE m == d.store[s]
           t == m.topic
           held == IF m.retain THEN SetRetained(d, s) ELSE d
           leaves == d.leaves[t]
<1>1. /\ d \in Dbs /\ m \in Stored /\ leaves \in Seq(Leaves) /\ m.qos \in 0..2
      /\ m.retain \in BOOLEAN
  <2>1. d \in Dbs /\ m \in Stored /\ leaves \in Seq(Leaves)
    BY DbIs DEF StoreSound
  <2> QED
    BY <2>1, StoredIs
<1>2. e = IF fromClient THEN ToLeaves(held, leaves, m.qos, s) ELSE held
  BY DEF subs_process
<1>3. /\ StoreSound(held, 0, s) /\ Routed(d, held) /\ s \in DOMAIN held.store
      /\ held.ctxs = d.ctxs
      /\ m.retain => NowRetained(d, held, s)
  <2>1. CASE m.retain
    <3>1. StoreSound(held, 0, s) /\ NowRetained(d, held, s)
      BY <2>1, SetRetainedSound
    <3> QED
      BY <3>1 DEF NowRetained
  <2>2. CASE ~m.retain
    BY <2>2, RoutedSelf
  <2> QED
    BY <2>1, <2>2, <1>1
<1>4. m.retain /\ m.payload => held.retained = [d.retained EXCEPT ![t] = s]
  BY <1>3 DEF NowRetained
<1>5. m.retain /\ d.retained[t] \in {NULL, s} => DOMAIN held.store = DOMAIN d.store
  <2> SUFFICES ASSUME m.retain, d.retained[t] \in {NULL, s}
               PROVE  DOMAIN held.store = DOMAIN d.store
    OBVIOUS
  <2>1. /\ DOMAIN held.store \subseteq DOMAIN d.store /\ s \in DOMAIN held.store
        /\ \A u \in DOMAIN d.store : u # d.retained[t] => u \in DOMAIN held.store
    BY <1>3 DEF NowRetained, Routed
  <2>2. \A u \in DOMAIN d.store : u # NULL
    BY <1>1, DbIs, StoreAssumption
  <2> QED
    BY <2>1, <2>2
<1> HIDE DEF held
<1>6. CASE fromClient
  <2>1. \A j \in 1..Len(leaves) : leaves[j].ctx \in DOMAIN held.ctxs
    BY <1>1, <1>3, LenProperties DEF LeavesValid
  <2>2. Sent(held, e, leaves, Len(leaves), m.qos, s)
    BY <1>1, <1>2, <1>3, <1>6, <2>1, ToLeavesSound
  <2>3. Routed(d, e) /\ StoreSound(e, 0, s) /\ s \in DOMAIN e.store
    BY <1>3, <2>2, RoutedTrans DEF Sent
  <2>4. AllServed(d, e, t, m.qos, s)
    BY <1>1, <1>3, <2>2, LenProperties DEF AllServed, Sent, Reached
  <2> QED
    BY <1>4, <1>6, <2>2, <2>3, <2>4 DEF Routes, Sent
<1>7. CASE ~fromClient
  <2>1. e = held
    BY <1>2, <1>7
  <2>2. Routes(d, e, s, fromClient)
    BY <1>3, <1>4, <1>5, <1>7, <2>1 DEF Routes
  <2> QED
    BY <1>3, <2>1, <2>2
<1> QED
  BY <1>6, <1>7

LEMMA AllServedRouted ==
    ASSUME NEW d, NEW e, NEW f, NEW t \in Topics, NEW qos, NEW s, Routed(e, f),
           DOMAIN e.ctxs = DOMAIN d.ctxs, LeavesValid(d), AllServed(d, e, t, qos, s)
    PROVE  AllServed(d, f, t, qos, s)
<1> SUFFICES ASSUME NEW i \in DOMAIN d.leaves[t]
             PROVE  Reached(d, f, d.leaves[t][i], qos, s)
  BY DEF AllServed
<1>1. Reached(d, e, d.leaves[t][i], qos, s) /\ d.leaves[t][i].ctx \in DOMAIN e.ctxs
  BY DEF AllServed, LeavesValid
<1> QED
  BY <1>1, ServedRouted

LEMMA QueueSound ==
    ASSUME NEW d, NEW s \in DOMAIN d.store, NEW fromClient \in BOOLEAN,
           StoreSound(d, 0, 0), LeavesValid(d), d.store[s].topic \in Topics,
           NEW e, e = mqtt3_db_messages_queue(d, s, fromClient)
    PROVE  /\ StoreSound(e, 0, 0) /\ Routes(d, e, s, fromClient)
           /\ s \notin Zeros(e)
<1> DEFINE x == Ref(d, s)
           y == subs_process(x, s, fromClient)
           t == d.store[s].topic
<1>1. StoreSound(x, s, 0) /\ Counting(d, x, s) /\ Zeros(x) \subseteq Zeros(d)
  BY RefSound
<1>2. e = mosquitto__db_msg_store_deref(y, s)
  BY DEF mqtt3_db_messages_queue
<1> HIDE DEF x
<1>3. /\ StoreSound(x, 0, s) /\ s \in DOMAIN x.store /\ x.ctxs = d.ctxs
      /\ x.leaves = d.leaves /\ x.retained = d.retained
      /\ DOMAIN x.store = DOMAIN d.store
      /\ SameStored(x.store[s], d.store[s])
  BY <1>1, StoreSoundSwap DEF Counting, OnlyStore
<1>4. Routed(d, x)
  BY <1>1, RoutedStore DEF Counting, OnlyStore
<1>5. /\ StoreSound(y, 0, s) /\ Routes(x, y, s, fromClient) /\ s \in DOMAIN y.store
  BY <1>3, SubsProcessSound DEF LeavesValid, SameStored
<1> HIDE DEF y
<1>6. StoreSound(y, s, 0)
  BY <1>5, StoreSoundSwap
<1>7. /\ StoreSound(e, 0, 0) /\ Released(y, e, s)
      /\ Refs(y, s) + One(s, 0) > 0 => s \in DOMAIN e.store
  BY <1>2, <1>5, <1>6, DerefSound
<1>8. Routed(y, e)
  BY <1>7, RoutedReleased
<1>9. Routed(d, y) /\ Routed(d, e) /\ Routed(x, y)
  BY <1>4, <1>5, <1>8, RoutedTrans DEF Routes
<1>10. fromClient => AllServed(d, e, t, d.store[s].qos, s)
  <2> SUFFICES ASSUME fromClient PROVE AllServed(d, e, t, d.store[s].qos, s)
    OBVIOUS
  <2>1. AllServed(x, y, t, d.store[s].qos, s)
    BY <1>3, <1>5 DEF Routes, SameStored
  <2>2. AllServed(d, y, t, d.store[s].qos, s)
    BY <2>1, <1>3 DEF AllServed, Reached
  <2>3. DOMAIN y.ctxs = DOMAIN d.ctxs
    BY <1>9 DEF Routed
  <2> QED
    BY <2>2, <2>3, <1>8, AllServedRouted
<1>11. ~fromClient => e.ctxs = d.ctxs
  BY <1>3, <1>5, <1>7 DEF Routes, Released, OnlyStore
<1>12. d.store[s].retain /\ d.store[s].payload
          => e.retained = [d.retained EXCEPT ![t] = s] /\ y.retained = e.retained
  BY <1>3, <1>5, <1>7 DEF Routes, Released, OnlyStore, SameStored
<1>13. ASSUME d.store[s].retain, d.store[s].payload PROVE s \in DOMAIN e.store
  <2>1. d.retained \in [Topics -> Nat \cup {NULL}] /\ s \in Nat
    BY DbIs DEF StoreSound
  <2>2. t \in Retaining(y, s)
    BY <1>12, <1>13, <2>1 DEF Retaining
  <2>3. Refs(y, s) \in Nat /\ Refs(y, s) # 0
    BY <1>5, <2>1, <2>2, RefsNat DEF StoreSound
  <2>4. One(s, 0) \in Nat
    BY DEF One
  <2>5. Refs(y, s) + One(s, 0) > 0
    BY <2>3, <2>4
  <2> QED
    BY <1>7, <2>5
<1>14. ~fromClient /\ d.store[s].retain /\ d.store[s].payload
         /\ d.retained[t] \in {NULL, s} => DOMAIN e.store = DOMAIN d.store
  <2> SUFFICES ASSUME ~fromClient, d.store[s].retain, d.store[s].payload,
                      d.retained[t] \in {NULL, s}
               PROVE  DOMAIN e.store = DOMAIN d.store
    OBVIOUS
  <2>1. DOMAIN y.store = DOMAIN d.store
    BY <1>3, <1>5 DEF Routes, SameStored
  <2> QED
    BY <2>1, <1>7, <1>13 DEF Released
<1>15. s \notin Zeros(e)
  BY <1>7 DEF Released
<1> QED
  BY <1>7, <1>9, <1>10, <1>11, <1>12, <1>14, <1>15 DEF Routes

\* Clients stay as they are and their lists only grow, whatever is stored.
ClientsKept(d, e) ==
    /\ e.leaves = d.leaves /\ e.free = d.free /\ DOMAIN e.ctxs = DOMAIN d.ctxs
    /\ \A h \in DOMAIN d.ctxs : /\ SameClient(e.ctxs[h], d.ctxs[h])
                                /\ Grown(d.ctxs[h].msgs, e.ctxs[h].msgs)

LEMMA RoutedKept ==
    ASSUME NEW d, NEW e, Routed(d, e)
    PROVE  ClientsKept(d, e)
  BY DEF Routed, ClientsKept

\* The result of mqtt3_db_message_store.
Storing(d, e, s, t, qos) ==
    /\ e.last = d.last + 1 /\ s = d.last + 1 /\ DOMAIN e.store = DOMAIN d.store \cup {s}
    /\ e.store[s].topic = t /\ e.store[s].qos = qos
    /\ e.ctxs = d.ctxs /\ e.leaves = d.leaves /\ e.retained = d.retained
    /\ e.free = d.free /\ Zeros(e) = Zeros(d) \cup {s}

LEMMA StoreOneSound ==
    ASSUME NEW d, StoreSound(d, 0, 0), NEW t \in Topics \cup {NULL},
           NEW qos \in 0..2, NEW retain \in BOOLEAN, NEW payload \in BOOLEAN,
           NEW e, e = mqtt3_db_message_store(d, t, qos, retain, payload)
    PROVE  StoreSound(e, 0, 0) /\ Storing(d, e, d.last + 1, t, qos)
<1> DEFINE s == d.last + 1
           m == [topic |-> t, qos |-> qos, retain |-> retain, payload |-> payload,
                 ref |-> 0]
           st == With(d.store, s, m)
<1>1. d \in Dbs /\ d.last \in Nat /\ d.store \in Tables(Nat, Stored) /\ s \in Nat
  BY DbIs DEF StoreSound, StoreTables
<1>2. m \in Stored /\ m.topic = t /\ m.qos = qos /\ m.ref = 0
  BY DEF Stored
<1> HIDE DEF m
<1>3. st \in Tables(Nat, Stored) /\ Entered(st, d.store, s, m)
  BY <1>1, <1>2, WithIs
<1>4. /\ e \in Dbs /\ e.last = s /\ e.store = st /\ e.ctxs = d.ctxs
      /\ e.leaves = d.leaves /\ e.retained = d.retained /\ e.free = d.free
  <2>1. e = [d EXCEPT !.last = s, !.store = st]
    BY DEF mqtt3_db_message_store, m
  <2> HIDE DEF st, s
  <2> QED
    BY <2>1, <1>1, <1>3 DEF Dbs, StoreTables
<1> HIDE DEF st
<1>5. /\ s \notin DOMAIN d.store /\ DOMAIN e.store = DOMAIN d.store \cup {s}
      /\ e.store[s] = m /\ \A u \in DOMAIN d.store : e.store[u] = d.store[u]
  <2>1. s \notin DOMAIN d.store
    BY <1>1 DEF StoreSound, IdsBounded
  <2> QED
    BY <2>1, <1>3, <1>4 DEF Entered
<1>6. (\A u : Refs(e, u) = Refs(d, u)) /\ EntriesFinite(e)
  <2>1. SameLists(d, e) /\ e.retained = d.retained
    BY <1>4 DEF SameLists
  <2> QED
    BY <2>1, RefsSame DEF StoreSound
<1>7. Refs(e, s) = 0
  <2>1. Entries(e, s) = {}
    <3>1. \A x : x \notin Entries(e, s)
      BY <1>4, <1>5, EntryIs DEF StoreSound, ListsValid
    <3> QED
      BY <3>1
  <2>2. Retaining(e, s) = {}
    <3>1. s # NULL
      BY <1>1, StoreAssumption
    <3>2. \A y \in Topics : d.retained[y] # s
      BY <3>1, <1>5 DEF StoreSound, RetainedValid
    <3> QED
      BY <3>2, <1>4 DEF Retaining
  <2> QED
    BY <2>1, <2>2, RefsNone
<1>8. ListsValid(e)
  BY <1>4, <1>5 DEF StoreSound, ListsValid
<1>9. IdsBounded(e)
  <2> SUFFICES ASSUME NEW u \in DOMAIN e.store PROVE 1 <= u /\ u <= s
    BY <1>4 DEF IdsBounded
  <2>1. CASE u \in DOMAIN d.store
    <3>1. 1 <= u /\ u <= d.last /\ u \in Nat
      BY <2>1, DbIs DEF StoreSound, IdsBounded
    <3> QED
      BY <3>1, <1>1
  <2>2. CASE u = s
    BY <2>2, <1>1
  <2> QED
    BY <2>1, <2>2, <1>5
<1>10. RetainedValid(e)
  BY <1>4, <1>5 DEF StoreSound, RetainedValid
<1>11. Counted(e, 0, 0)
  <2> SUFFICES ASSUME NEW u \in DOMAIN e.store
               PROVE  e.store[u].ref = Refs(e, u) + One(u, 0) + One(u, 0)
    BY DEF Counted
  <2>1. CASE u = s
    BY <2>1, <1>1, <1>2, <1>5, <1>7 DEF One
  <2>2. CASE u \in DOMAIN d.store
    BY <2>2, <1>5, <1>6 DEF StoreSound, Counted
  <2> QED
    BY <2>1, <2>2, <1>5
<1>12. StoreSound(e, 0, 0)
  BY <1>4, <1>6, <1>8, <1>9, <1>10, <1>11 DEF StoreSound
<1>13. Zeros(e) = Zeros(d) \cup {s}
  BY <1>2, <1>5 DEF Zeros
<1> QED
  BY <1>2, <1>4, <1>5, <1>12, <1>13 DEF Storing

\* A message was stored and routed, or kept for its sender.
Published(d, e) ==
    /\ ClientsKept(d, e) /\ Zeros(e) \subseteq Zeros(d) /\ e.last = d.last + 1

LEMMA QueueNewSound ==
    ASSUME NEW d, StoreSound(d, 0, 0), LeavesValid(d), NEW t \in Topics,
           NEW qos \in 0..2, NEW retain \in BOOLEAN, NEW payload \in BOOLEAN,
           NEW e, e = mqtt3_db_messages_queue(
                          mqtt3_db_message_store(d, t, qos, retain, payload),
                          d.last + 1, TRUE)
    PROVE  /\ StoreSound(e, 0, 0) /\ Published(d, e)
           /\ AllServed(d, e, t, qos, d.last + 1)
<1> DEFINE s == d.last + 1
           x == mqtt3_db_message_store(d, t, qos, retain, payload)
<1>1. StoreSound(x, 0, 0) /\ Storing(d, x, s, t, qos)
  BY StoreOneSound
<1> HIDE DEF x, s
<1>2. s \in DOMAIN x.store /\ x.store[s].topic \in Topics /\ LeavesValid(x)
  BY <1>1 DEF Storing, LeavesValid
<1>3. e = mqtt3_db_messages_queue(x, s, TRUE)
  BY DEF x, s
<1>4. StoreSound(e, 0, 0) /\ Routes(x, e, s, TRUE) /\ s \notin Zeros(e)
  BY <1>1, <1>2, <1>3, QueueSound
<1>5. ClientsKept(x, e) /\ Zeros(e) \subseteq Zeros(x) /\ e.last = x.last
  BY <1>4, RoutedKept DEF Routes, Routed
<1>6. Published(d, e)
  BY <1>1, <1>4, <1>5 DEF Published, ClientsKept, Storing
<1>7. AllServed(d, e, t, qos, s)
  BY <1>1, <1>4, ZenonT(60) DEF Routes, AllServed, Reached, Storing
<1> QED
  BY <1>4, <1>6, <1>7 DEF s

LEMMA AcceptedSound ==
    ASSUME NEW d, StoreSound(d, 0, 0), LeavesValid(d), NEW h \in DOMAIN d.ctxs,
           d.ctxs[h].id # NULL, NEW t \in Topics \cup {NULL},
           NEW qos \in 0..2, NEW retain \in BOOLEAN, NEW payload \in BOOLEAN,
           t = NULL => qos = 2,
           NEW e, e = Accepted(d, h, t, qos, retain, payload)
    PROVE  /\ StoreSound(e, 0, 0) /\ Published(d, e)
           /\ qos # 2 => AllServed(d, e, t, qos, d.last + 1)
<1> DEFINE s == d.last + 1
           x == mqtt3_db_message_store(d, t, qos, retain, payload)
<1>1. CASE qos = 2
  <2>1. StoreSound(x, 0, 0) /\ Storing(d, x, s, t, qos)
    BY StoreOneSound
  <2>2. e = mqtt3_db_message_insert(x, h, "in", qos, retain, s)
    BY <1>1 DEF Accepted
  <2> HIDE DEF x, s
  <2>3. s \in DOMAIN x.store /\ h \in DOMAIN x.ctxs /\ x.ctxs[h].id # NULL
    BY <2>1 DEF Storing
  <2>4. StoreSound(e, 0, 0) /\ Inserted(x, e, h, s, "in", qos)
    BY <2>1, <2>2, <2>3, InsertSound
  <2>5. Holds(e, h, s, "in") /\ Routed(x, e)
    BY <1>1, <2>3, <2>4 DEF Inserted
  <2>6. ClientsKept(x, e) /\ Zeros(e) \subseteq Zeros(x) /\ e.last = x.last
    BY <2>5, RoutedKept DEF Routed
  <2>7. s \notin Zeros(e)
    BY <2>3, <2>4, <2>5, <2>6, HeldCounts DEF ClientsKept
  <2>8. Published(d, e)
    BY <2>1, <2>6, <2>7 DEF Published, ClientsKept, Storing
  <2> QED
    BY <1>1, <2>4, <2>8
<1>2. CASE qos # 2
  <2>1. t \in Topics /\ e = mqtt3_db_messages_queue(x, s, TRUE)
    BY <1>2 DEF Accepted
  <2> QED
    BY <2>1, QueueNewSound
<1> QED
  BY <1>1, <1>2
----------------------------------------------------------------------------
(***************************************************************************)
(* The second half of the invariant: clients, their leaves in the tree and *)
(* the contexts that wait to be freed.                                     *)
(***************************************************************************)
\* Among the leaves of a topic there is one with a QoS for context h.
Has(leaves, h, q) == \E i \in DOMAIN leaves : leaves[i].ctx = h /\ leaves[i].qos = q

Once(leaves) ==
    \A i, j \in DOMAIN leaves : leaves[i].ctx = leaves[j].ctx => i = j

\* new has the leaves of old, but those of context h.
Pruned(new, old, h) ==
    /\ new \in Seq(Leaves) /\ Once(new)
    /\ \A g, q : Has(new, g, q) <=> Has(old, g, q) /\ g # h

LEMMA DropLeafIs ==
    ASSUME NEW leaves \in Seq(Leaves), Once(leaves), NEW h
    PROVE  Pruned(DropLeaf(leaves, h), leaves, h)
<1> DEFINE at == LeafAt(leaves, h)
           new == DropLeaf(leaves, h)
<1>1. DOMAIN leaves = 1..Len(leaves) /\ Len(leaves) \in Nat /\ at \subseteq Nat
  BY LenProperties DEF LeafAt
<1>2. \A i : i \in at <=> i \in DOMAIN leaves /\ leaves[i].ctx = h
  BY DEF LeafAt
<1>3. CASE at = {}
  <2>1. new = leaves
    BY <1>3 DEF DropLeaf
  <2>2. \A q : ~Has(leaves, h, q)
    BY <1>2, <1>3 DEF Has
  <2> QED
    BY <2>1, <2>2 DEF Pruned
<1>4. CASE at # {}
  <2> DEFINE i == CHOOSE i \in at : \A j \in at : i <= j
  <2>1. new = RemoveAt(leaves, i)
    BY <1>4 DEF DropLeaf
  <2>2. i \in at
    <3>1. \E k \in at : \A j \in at : k <= j
      BY <1>1, <1>4, Least
    <3> QED
      BY <3>1
  <2>3. i \in DOMAIN leaves /\ leaves[i].ctx = h
    BY <1>2, <2>2
  <2> HIDE DEF i, new, at
  <2>4. /\ new \in Seq(Leaves) /\ Len(new) = Len(leaves) - 1
        /\ \A k \in 1..(Len(leaves) - 1) :
              new[k] = IF k < i THEN leaves[k] ELSE leaves[k + 1]
    BY <2>1, <2>3, RemoveAtIs
  <2>5. DOMAIN new = 1..(Len(leaves) - 1)
    BY <2>4, LenProperties
  <2> DEFINE from(k) == IF k < i THEN k ELSE k + 1
  <2>6. \A k \in DOMAIN new : from(k) \in DOMAIN leaves /\ from(k) # i /\ new[k] = leaves[from(k)]
    BY <1>1, <2>3, <2>4, <2>5
  <2>7. \A k, l \in DOMAIN new : from(k) = from(l) => k = l
    BY <1>1, <2>3, <2>5
  <2>8. \A j \in DOMAIN leaves : j # i => \E k \in DOMAIN new : from(k) = j
    <3> SUFFICES ASSUME NEW j \in DOMAIN leaves, j # i
                 PROVE  \E k \in DOMAIN new : from(k) = j
      OBVIOUS
    <3>1. CASE j < i
      <4>1. j \in DOMAIN new /\ from(j) = j
        BY <3>1, <1>1, <2>3, <2>5
      <4> QED
        BY <4>1
    <3>2. CASE ~(j < i)
      <4>1. j - 1 \in DOMAIN new /\ from(j - 1) = j
        BY <3>2, <1>1, <2>3, <2>5
      <4> QED
        BY <4>1
    <3> QED
      BY <3>1, <3>2
  <2> HIDE DEF from
  <2>9. Once(new)
    BY <2>6, <2>7 DEF Once
  <2>10. ASSUME NEW g, NEW q PROVE Has(new, g, q) <=> Has(leaves, g, q) /\ g # h
    <3>1. ASSUME Has(new, g, q) PROVE Has(leaves, g, q) /\ g # h
      <4>1. PICK k \in DOMAIN new : new[k].ctx = g /\ new[k].qos = q
        BY <3>1 DEF Has
      <4>2. from(k) \in DOMAIN leaves /\ from(k) # i /\ new[k] = leaves[from(k)]
        BY <2>6
      <4>3. g # h
        BY <4>1, <4>2, <2>3 DEF Once
      <4> QED
        BY <4>1, <4>2, <4>3 DEF Has
    <3>2. ASSUME Has(leaves, g, q), g # h PROVE Has(new, g, q)
      <4>1. PICK j \in DOMAIN leaves : leaves[j].ctx = g /\ leaves[j].qos = q
        BY <3>2 DEF Has
      <4>2. j # i
        BY <4>1, <3>2, <2>3
      <4>3. PICK k \in DOMAIN new : from(k) = j
        BY <4>2, <2>8
      <4>4. new[k] = leaves[j]
        BY <4>3, <2>6
      <4> QED
        BY <4>1, <4>4 DEF Has
    <3> QED
      BY <3>1, <3>2
  <2> QED
    BY <2>4, <2>9, <2>10 DEF Pruned, new
<1> QED
  BY <1>3, <1>4

\* new has the leaves of old, but for context h it has the QoS q.
Set(new, old, h, q) ==
    /\ new \in Seq(Leaves) /\ Once(new)
    /\ \A g, p : Has(new, g, p) <=> (Has(old, g, p) /\ g # h) \/ (g = h /\ p = q)

LEMMA AppendLeaf ==
    ASSUME NEW leaves \in Seq(Leaves), Once(leaves), NEW h \in Contexts,
           NEW q \in 0..2, \A i \in DOMAIN leaves : leaves[i].ctx # h
    PROVE  Set(Append(leaves, [ctx |-> h, qos |-> q]), leaves, h, q)
<1> DEFINE leaf == [ctx |-> h, qos |-> q]
           new == Append(leaves, leaf)
           n == Len(leaves) + 1
<1>1. leaf \in Leaves /\ leaf.ctx = h /\ leaf.qos = q
  BY DEF Leaves
<1> HIDE DEF leaf
<1>2. /\ new \in Seq(Leaves) /\ DOMAIN new = DOMAIN leaves \cup {n}
      /\ n \notin DOMAIN leaves /\ new[n] = leaf
      /\ \A i \in DOMAIN leaves : new[i] = leaves[i]
  BY <1>1, AppendIs
<1> HIDE DEF new, n
<1>3. Once(new)
  BY <1>1, <1>2 DEF Once
<1>4. ASSUME NEW g, NEW p
      PROVE  Has(new, g, p) <=> (Has(leaves, g, p) /\ g # h) \/ (g = h /\ p = q)
  <2>1. Has(leaves, g, p) => g # h
    BY DEF Has
  <2>2. Has(leaves, g, p) => Has(new, g, p)
    BY <1>2 DEF Has
  <2>3. Has(new, h, q)
    BY <1>1, <1>2 DEF Has
  <2>4. Has(new, g, p) => Has(leaves, g, p) \/ (g = h /\ p = q)
    BY <1>1, <1>2 DEF Has
  <2> QED
    BY <2>1, <2>2, <2>3, <2>4
<1> QED
  BY <1>2, <1>3, <1>4 DEF Set, new, leaf

LEMMA ChangeLeaf ==
    ASSUME NEW leaves \in Seq(Leaves), Once(leaves), NEW h \in Contexts,
           NEW q \in 0..2, NEW k \in DOMAIN leaves, leaves[k].ctx = h, NEW new,
           new = [i \in DOMAIN leaves |->
                     IF leaves[i].ctx = h THEN [leaves[i] EXCEPT !.qos = q]
                     ELSE leaves[i]]
    PROVE  Set(new, leaves, h, q)
<1>1. /\ DOMAIN leaves = 1..Len(leaves) /\ Len(leaves) \in Nat
      /\ \A i \in DOMAIN leaves : leaves[i] \in Leaves
  BY LenProperties, ElementOfSeq
<1>2. \A i \in DOMAIN leaves : /\ new[i] \in Leaves /\ new[i].ctx = leaves[i].ctx
                               /\ new[i].qos = IF leaves[i].ctx = h THEN q ELSE leaves[i].qos
  BY <1>1 DEF Leaves
<1>3. DOMAIN new = DOMAIN leaves /\ new = [i \in DOMAIN leaves |-> new[i]]
  OBVIOUS
<1>4. new \in Seq(Leaves)
  <2>1. new \in [1..Len(leaves) -> Leaves]
    BY <1>1, <1>2, <1>3
  <2> QED
    BY <2>1, <1>1
<1>5. Once(new)
  BY <1>2, <1>3 DEF Once
<1>6. ASSUME NEW g, NEW p
      PROVE  Has(new, g, p) <=> (Has(leaves, g, p) /\ g # h) \/ (g = h /\ p = q)
  BY <1>2, <1>3 DEF Has
<1> QED
  BY <1>4, <1>5, <1>6 DEF Set

\* new has the leaves of old, with h in the place of context o.
Handed(new, old, o, h) ==
    /\ new \in Seq(Leaves) /\ Once(new)
    /\ \A g, q : Has(new, g, q) <=> \/ Has(old, g, q) /\ g # o
                                    \/ Has(old, o, q) /\ g = h

LEMMA HandLeaf ==
    ASSUME NEW leaves \in Seq(Leaves), Once(leaves), NEW h \in Contexts, NEW o,
           o # h, \A i \in DOMAIN leaves : leaves[i].ctx # h, NEW new,
           new = [i \in DOMAIN leaves |->
                     IF leaves[i].ctx = o THEN [leaves[i] EXCEPT !.ctx = h]
                     ELSE leaves[i]]
    PROVE  Handed(new, leaves, o, h)
<1>1. /\ DOMAIN leaves = 1..Len(leaves) /\ Len(leaves) \in Nat
      /\ \A i \in DOMAIN leaves : leaves[i] \in Leaves
  BY LenProperties, ElementOfSeq
<1>2. \A i \in DOMAIN leaves : /\ new[i] \in Leaves /\ new[i].qos = leaves[i].qos
                               /\ new[i].ctx = IF leaves[i].ctx = o THEN h ELSE leaves[i].ctx
  BY <1>1 DEF Leaves
<1>3. DOMAIN new = DOMAIN leaves /\ new = [i \in DOMAIN leaves |-> new[i]]
  OBVIOUS
<1>4. new \in Seq(Leaves)
  <2>1. new \in [1..Len(leaves) -> Leaves]
    BY <1>1, <1>2, <1>3
  <2> QED
    BY <2>1, <1>1
<1>5. Once(new)
  BY <1>2, <1>3 DEF Once
<1>6. ASSUME NEW g, NEW q
      PROVE  Has(new, g, q) <=> \/ Has(leaves, g, q) /\ g # o
                                \/ Has(leaves, o, q) /\ g = h
  BY <1>2, <1>3 DEF Has
<1> QED
  BY <1>4, <1>5, <1>6 DEF Handed
LeavesOnce(d) == \A t \in Topics : Once(d.leaves[t])

SubsMatch(d) ==
    \A h \in DOMAIN d.ctxs, t \in Topics :
        t \in d.ctxs[h].subs <=> \E q : Has(d.leaves[t], h, q)

FreeValid(d) ==
    /\ \A k \in DOMAIN d.free : /\ d.free[k] \in DOMAIN d.ctxs
                                /\ d.ctxs[d.free[k]].id = NULL
                                /\ ~d.ctxs[d.free[k]].sock
    /\ \A k, l \in DOMAIN d.free : d.free[k] = d.free[l] => k = l

OneHome(d) ==
    \A g, h \in DOMAIN d.ctxs :
        d.ctxs[g].id = d.ctxs[h].id /\ d.ctxs[g].id # NULL => g = h

\* A context without a name is not a durable session.
NoName(d) == \A h \in DOMAIN d.ctxs : d.ctxs[h].id = NULL => d.ctxs[h].clean

ClientsSound(d) ==
    /\ LeavesValid(d) /\ LeavesOnce(d) /\ SubsMatch(d) /\ FreeValid(d)
    /\ OneHome(d) /\ NoName(d)

\* Who has a socket has sent its CONNECT.
Settled(d) ==
    \A h \in DOMAIN d.ctxs :
        d.ctxs[h].sock => d.ctxs[h].id # NULL /\ d.ctxs[h].state = "connected"

\* Clients are as they were, whatever their messages.
ClientsSame(d, e) ==
    /\ e.leaves = d.leaves /\ e.free = d.free /\ DOMAIN e.ctxs = DOMAIN d.ctxs
    /\ \A h \in DOMAIN d.ctxs : SameClient(e.ctxs[h], d.ctxs[h])

LEMMA ClientsSameSound ==
    ASSUME NEW d, NEW e, ClientsSound(d), ClientsSame(d, e)
    PROVE  ClientsSound(e) /\ (Settled(d) => Settled(e))
<1>1. LeavesValid(e) /\ LeavesOnce(e) /\ SubsMatch(e)
  BY DEF ClientsSound, ClientsSame, SameClient, LeavesValid, LeavesOnce, SubsMatch
<1>2. FreeValid(e)
  BY DEF ClientsSound, ClientsSame, SameClient, FreeValid
<1>3. OneHome(e)
  BY DEF ClientsSound, ClientsSame, SameClient, OneHome
<1>4. NoName(e) /\ (Settled(d) => Settled(e))
  BY DEF ClientsSound, ClientsSame, SameClient, NoName, Settled
<1> QED
  BY <1>1, <1>2, <1>3, <1>4 DEF ClientsSound

LEMMA KeptSound ==
    ASSUME NEW d, NEW e, ClientsSound(d), ClientsKept(d, e)
    PROVE  ClientsSound(e) /\ (Settled(d) => Settled(e))
<1>1. ClientsSame(d, e)
  BY DEF ClientsKept, ClientsSame
<1> QED
  BY <1>1, ClientsSameSound

(***************************************************************************)
(* The durable sessions: who wants what, and what is owed to whom.  A      *)
(* context g of e is the heir of the context h of d if it has its name,    *)
(* its subscriptions and its messages.                                     *)
(***************************************************************************)
Wants(d, w) ==
    \A c \in Clients, t \in Topics : w[c][t] # NULL =>
        \E h \in DOMAIN d.ctxs : /\ d.ctxs[h].id = c /\ ~d.ctxs[h].clean
                                 /\ Has(d.leaves[t], h, w[c][t])

Owes(d, o) ==
    \A c \in Clients : \A s \in o[c] :
        \E h \in DOMAIN d.ctxs : /\ d.ctxs[h].id = c /\ ~d.ctxs[h].clean
                                 /\ Holds(d, h, s, "out")

Heir(d, h, e, g) ==
    /\ g \in DOMAIN e.ctxs /\ e.ctxs[g].id = d.ctxs[h].id /\ ~e.ctxs[g].clean
    /\ \A s : Holds(d, h, s, "out") => Holds(e, g, s, "out")
    /\ \A t \in Topics : \A q : Has(d.leaves[t], h, q) => Has(e.leaves[t], g, q)

Inherited(d, e, C) ==
    \A h \in DOMAIN d.ctxs : d.ctxs[h].id \in C /\ ~d.ctxs[h].clean
        => \E g : Heir(d, h, e, g)

\* The sessions of the clients in C go on, the others are over.
LEMMA InheritWants ==
    ASSUME NEW d, NEW e, NEW C, Inherited(d, e, C), NEW w, NEW v, Wants(d, w),
           \A c \in C : v[c] = w[c],
           \A c \in Clients \ C : \A t \in Topics : v[c][t] = NULL
    PROVE  Wants(e, v)
<1> SUFFICES ASSUME NEW c \in Clients, NEW t \in Topics, v[c][t] # NULL
             PROVE  \E h \in DOMAIN e.ctxs : /\ e.ctxs[h].id = c /\ ~e.ctxs[h].clean
                                             /\ Has(e.leaves[t], h, v[c][t])
  BY DEF Wants
<1>1. c \in C /\ v[c] = w[c]
  OBVIOUS
<1>2. PICK h \in DOMAIN d.ctxs : /\ d.ctxs[h].id = c /\ ~d.ctxs[h].clean
                                 /\ Has(d.leaves[t], h, w[c][t])
  BY <1>1 DEF Wants
<1>3. PICK g : Heir(d, h, e, g)
  BY <1>1, <1>2 DEF Inherited
<1> QED
  BY <1>1, <1>2, <1>3 DEF Heir

LEMMA InheritOwes ==
    ASSUME NEW d, NEW e, NEW C, Inherited(d, e, C), NEW o, NEW v, Owes(d, o),
           \A c \in C : v[c] = o[c],
           \A c \in Clients \ C : \A s : s \notin v[c]
    PROVE  Owes(e, v)
<1> SUFFICES ASSUME NEW c \in Clients, NEW s \in v[c]
             PROVE  \E h \in DOMAIN e.ctxs : /\ e.ctxs[h].id = c /\ ~e.ctxs[h].clean
                                             /\ Holds(e, h, s, "out")
  BY DEF Owes
<1>1. c \in C /\ v[c] = o[c]
  OBVIOUS
<1>2. PICK h \in DOMAIN d.ctxs : /\ d.ctxs[h].id = c /\ ~d.ctxs[h].clean
                                 /\ Holds(d, h, s, "out")
  BY <1>1 DEF Owes
<1>3. PICK g : Heir(d, h, e, g)
  BY <1>1, <1>2 DEF Inherited
<1> QED
  BY <1>1, <1>2, <1>3 DEF Heir

\* Every durable session stays in its context.
Stay(d, e) == \A h \in DOMAIN d.ctxs : ~d.ctxs[h].clean => Heir(d, h, e, h)

\* Sessions that stay where they are keep what they want and what they are
\* owed.
LEMMA StaySessions ==
    ASSUME NEW d, NEW e, Stay(d, e), NEW w, NEW o
    PROVE  (Wants(d, w) => Wants(e, w)) /\ (Owes(d, o) => Owes(e, o))
<1>1. Inherited(d, e, Clients)
  BY DEF Stay, Inherited
<1> QED
  BY <1>1, InheritWants, InheritOwes

LEMMA KeptStay ==
    ASSUME NEW d, NEW e, ClientsKept(d, e)
    PROVE  Stay(d, e)
<1> SUFFICES ASSUME NEW h \in DOMAIN d.ctxs, ~d.ctxs[h].clean PROVE Heir(d, h, e, h)
  BY DEF Stay
<1>1. \A s : Holds(d, h, s, "out") => Holds(e, h, s, "out")
  BY DEF Holds, ClientsKept, Grown
<1> QED
  BY <1>1 DEF Heir, ClientsKept, SameClient

\* What is owed when the message s was routed to a topic.
Owed(w, o, s, t, qos) ==
    [c \in Clients |-> IF w[c][t] # NULL /\ qos > 0 /\ w[c][t] > 0
                       THEN o[c] \cup {s} ELSE o[c]]

\* What routing adds to the sessions is what it puts in their lists.
LEMMA ServedOwes ==
    ASSUME NEW d, NEW e, Stay(d, e), NoName(d), NEW t \in Topics,
           NEW qos \in 0..2, NEW s, AllServed(d, e, t, qos, s), NEW w,
           w \in [Clients -> [Topics -> 0..2 \cup {NULL}]], Wants(d, w),
           NEW o, Owes(d, o), NEW v, v = Owed(w, o, s, t, qos)
    PROVE  Owes(e, v)
<1>1. Owes(e, o)
  BY StaySessions
<1> SUFFICES ASSUME NEW c \in Clients, NEW u \in v[c]
             PROVE  \E h \in DOMAIN e.ctxs : /\ e.ctxs[h].id = c /\ ~e.ctxs[h].clean
                                             /\ Holds(e, h, u, "out")
  BY DEF Owes
<1>2. CASE u \in o[c]
  BY <1>1, <1>2 DEF Owes
<1>3. CASE u \notin o[c]
  <2>1. u = s /\ w[c][t] # NULL /\ qos > 0 /\ w[c][t] > 0
    BY <1>3 DEF Owed
  <2>2. PICK h \in DOMAIN d.ctxs : /\ d.ctxs[h].id = c /\ ~d.ctxs[h].clean
                                   /\ Has(d.leaves[t], h, w[c][t])
    BY <2>1 DEF Wants
  <2>3. PICK i \in DOMAIN d.leaves[t] : /\ d.leaves[t][i].ctx = h
                                        /\ d.leaves[t][i].qos = w[c][t]
    BY <2>2 DEF Has
  <2>4. d.ctxs[h].id # NULL
    BY <2>2 DEF NoName
  <2>5. Holds(e, h, s, "out")
    BY <2>1, <2>3, <2>4 DEF AllServed, Reached
  <2> QED
    BY <2>1, <2>2, <2>5 DEF Stay, Heir
<1> QED
  BY <1>2, <1>3
----------------------------------------------------------------------------
(***************************************************************************)
(* Subscribing and unsubscribing.                                          *)
(***************************************************************************)
\* e is d with x for context h.
CtxSet(d, e, h, x) ==
    /\ DOMAIN e.ctxs = DOMAIN d.ctxs /\ e.ctxs[h] = x
    /\ \A g \in DOMAIN d.ctxs : g # h => e.ctxs[g] = d.ctxs[g]

LEMMA SetCtx ==
    ASSUME NEW d \in Dbs, NEW h \in DOMAIN d.ctxs, NEW x \in Ctxs,
           NEW e, e = [d EXCEPT !.ctxs = [d.ctxs EXCEPT ![h] = x]]
    PROVE  e \in Dbs /\ OnlyCtxs(d, e) /\ CtxSet(d, e, h, x)
<1> DEFINE y == [d.ctxs EXCEPT ![h] = x]
<1>1. d.ctxs \in Tables(Contexts, Ctxs)
  BY DbIs DEF CtxTables
<1>2. y \in Tables(Contexts, Ctxs) /\ Entered(y, d.ctxs, h, x) /\ DOMAIN y = DOMAIN d.ctxs
  BY <1>1, ChangedIs
<1>3. y \in CtxTables /\ e = [d EXCEPT !.ctxs = y]
  BY <1>2 DEF CtxTables
<1> HIDE DEF y
<1>4. e \in Dbs /\ e.ctxs = y /\ OnlyCtxs(d, e)
  <2>1. /\ [d EXCEPT !.ctxs = y] \in Dbs
        /\ [d EXCEPT !.ctxs = y].ctxs = y
        /\ OnlyCtxs(d, [d EXCEPT !.ctxs = y])
    BY <1>3, SetCtxs, Zenon
  <2> QED
    BY <1>3, <2>1, Zenon
<1> QED
  BY <1>2, <1>4 DEF CtxSet, Entered

\* The same context but for its subscriptions.
SameButSubs(x, y) ==
    /\ x.id = y.id /\ x.state = y.state /\ x.clean = y.clean /\ x.sock = y.sock
    /\ x.will = y.will /\ x.msgs = y.msgs

\* e is d with other leaves and other subscriptions of h.
Replanted(d, e, h) ==
    /\ e.last = d.last /\ e.store = d.store /\ e.retained = d.retained
    /\ e.free = d.free /\ DOMAIN e.ctxs = DOMAIN d.ctxs
    /\ SameButSubs(e.ctxs[h], d.ctxs[h])
    /\ \A g \in DOMAIN d.ctxs : g # h => e.ctxs[g] = d.ctxs[g]

IsReplanted(d, e, h, leaves, subs) ==
    e = [d EXCEPT !.leaves = leaves, !.ctxs[h].subs = subs]

LEMMA Replant ==
    ASSUME NEW d \in Dbs, NEW h \in DOMAIN d.ctxs, NEW leaves, NEW subs,
           leaves \in [Topics -> Seq(Leaves)], subs \in SUBSET Topics,
           NEW e, IsReplanted(d, e, h, leaves, subs)
    PROVE  /\ e \in Dbs /\ Replanted(d, e, h)
           /\ e.leaves = leaves /\ e.ctxs[h].subs = subs
<1> DEFINE x == [d.ctxs[h] EXCEPT !.subs = subs]
           c == [d EXCEPT !.ctxs = [d.ctxs EXCEPT ![h] = x]]
<1>1. d.ctxs[h] \in Ctxs
  BY DbIs
<1>2. x \in Ctxs /\ x.subs = subs /\ SameButSubs(x, d.ctxs[h])
  BY <1>1 DEF Ctxs, SameButSubs
<1>3. e = [d EXCEPT !.leaves = leaves, !.ctxs = [d.ctxs EXCEPT ![h] = x]]
  BY DEF IsReplanted
<1> HIDE DEF x
<1>4. c \in Dbs /\ OnlyCtxs(d, c) /\ CtxSet(d, c, h, x)
  BY <1>2, SetCtx
<1>5. e = [c EXCEPT !.leaves = leaves]
  BY <1>3 DEF Dbs
<1> HIDE DEF c
<1>6. e \in Dbs /\ e.leaves = leaves /\ OnlyLeaves(c, e)
  BY <1>4, <1>5, SetLeaves
<1> QED
  BY <1>2, <1>4, <1>6 DEF Replanted, OnlyLeaves, OnlyCtxs, CtxSet

LEMMA ReplantedStore ==
    ASSUME NEW d, NEW e \in Dbs, NEW h \in DOMAIN d.ctxs, StoreSound(d, 0, 0),
           Replanted(d, e, h)
    PROVE  StoreSound(e, 0, 0) /\ Zeros(e) = Zeros(d)
<1>1. SameStore(d, e)
  BY DEF Replanted, SameStore, SameLists, SameButSubs
<1> QED
  BY <1>1, StoreSoundSame

LEMMA ReplantedClients ==
    ASSUME NEW d, NEW e, NEW h \in DOMAIN d.ctxs, ClientsSound(d), Replanted(d, e, h),
           LeavesValid(e), LeavesOnce(e), SubsMatch(e)
    PROVE  ClientsSound(e) /\ (Settled(d) => Settled(e))
<1>1. \A g \in DOMAIN d.ctxs : SameButSubs(e.ctxs[g], d.ctxs[g])
  BY DEF Replanted, SameButSubs
<1>2. FreeValid(e)
  BY <1>1 DEF ClientsSound, Replanted, SameButSubs, FreeValid
<1>3. OneHome(e)
  BY <1>1 DEF ClientsSound, Replanted, SameButSubs, OneHome
<1>4. NoName(e) /\ (Settled(d) => Settled(e))
  BY <1>1 DEF ClientsSound, Replanted, SameButSubs, NoName, Settled
<1> QED
  BY <1>2, <1>3, <1>4 DEF ClientsSound

\* Leaves point to contexts.
LEMMA HasValid ==
    ASSUME NEW d \in Dbs
    PROVE  LeavesValid(d) <=> \A t \in Topics : \A h, q :
               Has(d.leaves[t], h, q) => h \in DOMAIN d.ctxs
  BY DEF LeavesValid, Has

\* The result of DropLeaves.
Dropping(d, e, h, ts) ==
    /\ Replanted(d, e, h) /\ e.ctxs[h].subs = d.ctxs[h].subs \ ts
    /\ \A t \in Topics : t \notin ts => e.leaves[t] = d.leaves[t]
    /\ \A t \in ts : Pruned(e.leaves[t], d.leaves[t], h)

LEMMA DropLeavesSound ==
    ASSUME NEW d, NEW h \in DOMAIN d.ctxs, NEW ts \in SUBSET Topics,
           StoreSound(d, 0, 0), ClientsSound(d), NEW e, e = DropLeaves(d, h, ts)
    PROVE  /\ StoreSound(e, 0, 0) /\ Zeros(e) = Zeros(d) /\ Dropping(d, e, h, ts)
           /\ ClientsSound(e) /\ (Settled(d) => Settled(e))
<1> DEFINE leaves == [t \in Topics |-> IF t \in ts THEN DropLeaf(d.leaves[t], h)
                                       ELSE d.leaves[t]]
           subs == d.ctxs[h].subs \ ts
<1>1. d \in Dbs /\ d.leaves \in [Topics -> Seq(Leaves)] /\ d.ctxs[h].subs \subseteq Topics
  BY DbIs, CtxIs DEF StoreSound
<1>2. \A t \in Topics : Once(d.leaves[t]) /\ d.leaves[t] \in Seq(Leaves)
  BY <1>1 DEF ClientsSound, LeavesOnce
<1>3. \A t \in ts : Pruned(DropLeaf(d.leaves[t], h), d.leaves[t], h)
  BY <1>2, DropLeafIs
<1>4. leaves \in [Topics -> Seq(Leaves)] /\ subs \in SUBSET Topics
  <2>1. \A t \in Topics : leaves[t] \in Seq(Leaves)
    BY <1>2, <1>3 DEF Pruned
  <2> QED
    BY <2>1, <1>1
<1>5. /\ \A t \in ts : Pruned(leaves[t], d.leaves[t], h)
      /\ \A t \in Topics : t \notin ts => leaves[t] = d.leaves[t]
  BY <1>3
<1>6. IsReplanted(d, e, h, leaves, subs)
  BY DEF DropLeaves, IsReplanted
<1> HIDE DEF leaves, subs
<1>7. e \in Dbs /\ Replanted(d, e, h) /\ e.leaves = leaves /\ e.ctxs[h].subs = subs
  BY <1>1, <1>4, <1>6, Replant
<1>8. Dropping(d, e, h, ts)
  BY <1>5, <1>7 DEF Dropping, subs
<1>9. StoreSound(e, 0, 0) /\ Zeros(e) = Zeros(d)
  BY <1>7, ReplantedStore
<1>10. ASSUME NEW t \in Topics, NEW g, NEW q
       PROVE  Has(e.leaves[t], g, q) <=> Has(d.leaves[t], g, q) /\ (t \in ts => g # h)
  BY <1>5, <1>7 DEF Pruned
<1>11. LeavesValid(e)
  BY <1>1, <1>7, <1>10, HasValid DEF ClientsSound, Replanted
<1>12. LeavesOnce(e)
  BY <1>2, <1>5, <1>7 DEF LeavesOnce, Pruned
<1>13. SubsMatch(e)
  <2> SUFFICES ASSUME NEW g \in DOMAIN d.ctxs, NEW t \in Topics
               PROVE  t \in e.ctxs[g].subs <=> \E q : Has(e.leaves[t], g, q)
    BY <1>7 DEF SubsMatch, Replanted
  <2>1. t \in d.ctxs[g].subs <=> \E q : Has(d.leaves[t], g, q)
    BY DEF ClientsSound, SubsMatch
  <2>2. CASE g = h
    <3>1. t \in e.ctxs[g].subs <=> t \in d.ctxs[g].subs /\ t \notin ts
      BY <2>2, <1>7 DEF subs
    <3> QED
      BY <2>1, <2>2, <3>1, <1>10
  <2>3. CASE g # h
    <3>1. e.ctxs[g].subs = d.ctxs[g].subs
      BY <2>3, <1>7 DEF Replanted
    <3> QED
      BY <2>1, <2>3, <3>1, <1>10
  <2> QED
    BY <2>2, <2>3
<1>14. ClientsSound(e) /\ (Settled(d) => Settled(e))
  BY <1>7, <1>11, <1>12, <1>13, ReplantedClients
<1> QED
  BY <1>8, <1>9, <1>14

\* The result of mqtt3_sub_add.
Adding(d, e, h, t, qos) ==
    /\ Replanted(d, e, h) /\ e.ctxs[h].subs = d.ctxs[h].subs \cup {t}
    /\ \A u \in Topics : u # t => e.leaves[u] = d.leaves[u]
    /\ Set(e.leaves[t], d.leaves[t], h, qos)

LEMMA SubAddSound ==
    ASSUME NEW d, NEW h \in DOMAIN d.ctxs, NEW t \in Topics, NEW qos \in 0..2,
           d.ctxs[h].id # NULL, StoreSound(d, 0, 0), ClientsSound(d),
           NEW e, e = mqtt3_sub_add(d, h, t, qos)
    PROVE  /\ StoreSound(e, 0, 0) /\ Zeros(e) = Zeros(d) /\ Adding(d, e, h, t, qos)
           /\ ClientsSound(e) /\ (Settled(d) => Settled(e))
<1> DEFINE old == d.leaves[t]
           mine(leaf) == d.ctxs[leaf.ctx].id = d.ctxs[h].id
           changed == [i \in DOMAIN old |->
                          IF old[i].ctx = h THEN [old[i] EXCEPT !.qos = qos] ELSE old[i]]
           longer == Append(old, [ctx |-> h, qos |-> qos])
           subs == d.ctxs[h].subs \cup {t}
<1>1. /\ d \in Dbs /\ d.leaves \in [Topics -> Seq(Leaves)] /\ h \in Contexts
      /\ d.ctxs[h] \in Ctxs /\ d.ctxs[h].subs \subseteq Topics /\ old \in Seq(Leaves)
  BY DbIs, CtxIs DEF StoreSound
<1>2. Once(old) /\ \A i \in DOMAIN old : old[i].ctx \in DOMAIN d.ctxs
  BY DEF ClientsSound, LeavesOnce, LeavesValid
<1>3. \A i \in DOMAIN old : mine(old[i]) <=> old[i].ctx = h
  BY <1>2 DEF ClientsSound, OneHome
<1>4. t \in d.ctxs[h].subs <=> \E i \in DOMAIN old : old[i].ctx = h
  BY DEF ClientsSound, SubsMatch, Has
<1>5. \E new : /\ Set(new, old, h, qos)
               /\ e = [d EXCEPT !.leaves = [d.leaves EXCEPT ![t] = new],
                                !.ctxs[h].subs = subs]
  <2>1. CASE \E i \in DOMAIN old : mine(old[i])
    <3>1. PICK k \in DOMAIN old : old[k].ctx = h
      BY <2>1, <1>3
    <3>2. Set(changed, old, h, qos)
      BY <1>1, <1>2, <3>1, ChangeLeaf
    <3>3. e = [d EXCEPT !.leaves = [d.leaves EXCEPT ![t] =
                   [i \in DOMAIN old |->
                      IF mine(old[i]) THEN [old[i] EXCEPT !.qos = qos] ELSE old[i]]]]
      BY <2>1 DEF mqtt3_sub_add
    <3>4. changed = [i \in DOMAIN old |->
                        IF mine(old[i]) THEN [old[i] EXCEPT !.qos = qos] ELSE old[i]]
      BY <1>3
    <3>5. e = [d EXCEPT !.leaves = [d.leaves EXCEPT ![t] = changed]]
      BY <3>3, <3>4
    <3>6. subs = d.ctxs[h].subs
      BY <3>1, <1>4
    <3> HIDE DEF changed, subs
    <3>7. d = [d EXCEPT !.ctxs[h].subs = subs]
      <4>1. d.ctxs[h] = [d.ctxs[h] EXCEPT !.subs = subs]
        BY <1>1, <3>6 DEF Ctxs
      <4>2. d.ctxs = [d.ctxs EXCEPT ![h] = [d.ctxs[h] EXCEPT !.subs = subs]]
        <5>1. d.ctxs \in [DOMAIN d.ctxs -> Ctxs]
          BY <1>1, DbIs, TableIs DEF CtxTables
        <5> QED
          BY <5>1, <4>1
      <4> QED
        BY <1>1, <4>2 DEF Dbs
    <3>8. e = [d EXCEPT !.leaves = [d.leaves EXCEPT ![t] = changed],
                        !.ctxs[h].subs = subs]
      BY <1>1, <3>5, <3>7 DEF Dbs
    <3> QED
      BY <3>2, <3>8
  <2>2. CASE ~\E i \in DOMAIN old : mine(old[i])
    <3>1. \A i \in DOMAIN old : old[i].ctx # h
      BY <2>2, <1>3
    <3>2. Set(longer, old, h, qos)
      BY <1>1, <1>2, <3>1, AppendLeaf
    <3>3. e = [d EXCEPT !.leaves = [d.leaves EXCEPT ![t] = longer],
                        !.ctxs[h].subs = subs]
      BY <2>2 DEF mqtt3_sub_add
    <3> QED
      BY <3>2, <3>3
  <2> QED
    BY <2>1, <2>2
<1>6. PICK new : /\ Set(new, old, h, qos)
                 /\ e = [d EXCEPT !.leaves = [d.leaves EXCEPT ![t] = new],
                                  !.ctxs[h].subs = subs]
  BY <1>5
<1> DEFINE leaves == [d.leaves EXCEPT ![t] = new]
<1>7. leaves \in [Topics -> Seq(Leaves)] /\ subs \in SUBSET Topics
  BY <1>1, <1>6 DEF Set
<1>8. leaves[t] = new /\ \A u \in Topics : u # t => leaves[u] = d.leaves[u]
  BY <1>1
<1>9. IsReplanted(d, e, h, leaves, subs)
  BY <1>6 DEF IsReplanted
<1> HIDE DEF leaves, subs
<1>10. e \in Dbs /\ Replanted(d, e, h) /\ e.leaves = leaves /\ e.ctxs[h].subs = subs
  BY <1>1, <1>7, <1>9, Replant
<1>11. Adding(d, e, h, t, qos)
  BY <1>6, <1>8, <1>10 DEF Adding, subs
<1>12. StoreSound(e, 0, 0) /\ Zeros(e) = Zeros(d)
  BY <1>10, ReplantedStore
<1>13. /\ \A g, p : Has(e.leaves[t], g, p) <=>
             (Has(d.leaves[t], g, p) /\ g # h) \/ (g = h /\ p = qos)
       /\ \A u \in Topics : u # t => e.leaves[u] = d.leaves[u]
  BY <1>6, <1>8, <1>10 DEF Set
<1>14. LeavesValid(e)
  <2>1. \A u \in Topics : \A g, p : Has(d.leaves[u], g, p) => g \in DOMAIN d.ctxs
    BY <1>1, HasValid DEF ClientsSound
  <2>2. \A u \in Topics : \A g, p : Has(e.leaves[u], g, p) => g \in DOMAIN e.ctxs
    <3> SUFFICES ASSUME NEW u \in Topics, NEW g, NEW p, Has(e.leaves[u], g, p)
                 PROVE  g \in DOMAIN d.ctxs
      BY <1>10 DEF Replanted
    <3>1. CASE u = t
      BY <3>1, <2>1, <1>13
    <3>2. CASE u # t
      BY <3>2, <2>1, <1>13
    <3> QED
      BY <3>1, <3>2
  <2> QED
    BY <2>2, <1>10, HasValid
<1>15. LeavesOnce(e)
  <2> SUFFICES ASSUME NEW u \in Topics PROVE Once(e.leaves[u])
    BY DEF LeavesOnce
  <2>1. CASE u = t
    BY <2>1, <1>6, <1>8, <1>10 DEF Set
  <2>2. CASE u # t
    BY <2>2, <1>13 DEF ClientsSound, LeavesOnce
  <2> QED
    BY <2>1, <2>2
<1>16. SubsMatch(e)
  <2> SUFFICES ASSUME NEW g \in DOMAIN d.ctxs, NEW u \in Topics
               PROVE  u \in e.ctxs[g].subs <=> \E q : Has(e.leaves[u], g, q)
    BY <1>10 DEF SubsMatch, Replanted
  <2>1. u \in d.ctxs[g].subs <=> \E q : Has(d.leaves[u], g, q)
    BY DEF ClientsSound, SubsMatch
  <2>2. u # t => e.leaves[u] = d.leaves[u]
    BY <1>13
  <2>3. CASE g = h
    <3>1. u \in e.ctxs[g].subs <=> u \in d.ctxs[g].subs \/ u = t
      BY <2>3, <1>10 DEF subs
    <3>2. CASE u = t
      BY <3>1, <3>2, <2>3, <1>13
    <3>3. CASE u # t
      BY <3>1, <3>3, <2>1, <2>2
    <3> QED
      BY <3>2, <3>3
  <2>4. CASE g # h
    <3>1. e.ctxs[g].subs = d.ctxs[g].subs
      BY <2>4, <1>10 DEF Replanted
    <3>2. CASE u = t
      BY <3>1, <3>2, <2>1, <2>4, <1>13
    <3>3. CASE u # t
      BY <3>1, <3>3, <2>1, <2>2
    <3> QED
      BY <3>2, <3>3
  <2> QED
    BY <2>3, <2>4
<1>17. ClientsSound(e) /\ (Settled(d) => Settled(e))
  BY <1>10, <1>14, <1>15, <1>16, ReplantedClients
<1> QED
  BY <1>11, <1>12, <1>17
----------------------------------------------------------------------------
(***************************************************************************)
(* Messages that are done with and contexts that are freed.                *)
(***************************************************************************)
\* e is d with the list m for context h and without what it released.
Trimmed(d, e, h, m) ==
    /\ e.last = d.last /\ e.leaves = d.leaves /\ e.free = d.free
    /\ e.retained = d.retained /\ DOMAIN e.ctxs = DOMAIN d.ctxs
    /\ SameClient(e.ctxs[h], d.ctxs[h]) /\ e.ctxs[h].msgs = m
    /\ \A g \in DOMAIN d.ctxs : g # h => e.ctxs[g] = d.ctxs[g]
    /\ Zeros(e) \subseteq Zeros(d)

LEMMA FinishedSound ==
    ASSUME NEW d, NEW h \in DOMAIN d.ctxs, NEW i \in DOMAIN d.ctxs[h].msgs,
           StoreSound(d, 0, 0), NEW e, e = Finished(d, h, i)
    PROVE  StoreSound(e, 0, 0) /\ Trimmed(d, e, h, RemoveAt(d.ctxs[h].msgs, i))
<1> DEFINE s == d.ctxs[h].msgs[i].store
           m == RemoveAt(d.ctxs[h].msgs, i)
           x == [d EXCEPT !.ctxs[h].msgs = m]
<1>1. StoreSound(x, s, 0) /\ ListSet(d, x, h, m)
  BY RemoveSound
<1>2. e = mosquitto__db_msg_store_deref(x, s)
  BY DEF Finished
<1>3. s \in DOMAIN d.store
  BY DEF StoreSound, ListsValid
<1> HIDE DEF x, s, m
<1>4. s \in DOMAIN x.store
  BY <1>1, <1>3 DEF ListSet, OnlyCtxs
<1>5. StoreSound(e, 0, 0) /\ Released(x, e, s)
  BY <1>1, <1>2, <1>4, DerefSound
<1>6. Zeros(e) \subseteq Zeros(d)
  BY <1>1, <1>5 DEF Released, ListSet, OnlyCtxs, Zeros
<1>7. Trimmed(d, e, h, m)
  BY <1>1, <1>5, <1>6 DEF Trimmed, Released, ListSet, OnlyCtxs, OnlyStore
<1> QED
  BY <1>5, <1>7 DEF m

LEMMA TrimmedSame ==
    ASSUME NEW d, NEW e, NEW h, NEW m, Trimmed(d, e, h, m)
    PROVE  ClientsSame(d, e)
  BY DEF Trimmed, ClientsSame, SameClient

\* k messages of the list of h are gone.
Shorter(d, e, h, k) ==
    /\ StoreSound(e, 0, 0) /\ Trimmed(d, e, h, e.ctxs[h].msgs)
    /\ Len(e.ctxs[h].msgs) = Len(d.ctxs[h].msgs) - k

LEMMA ShorterStep ==
    ASSUME NEW d, NEW e, NEW h \in DOMAIN d.ctxs, NEW k \in 1..Len(d.ctxs[h].msgs),
           Len(d.ctxs[h].msgs) \in Nat, Shorter(d, e, h, k - 1),
           NEW f, f = Finished(e, h, 1)
    PROVE  Shorter(d, f, h, k)
<1>1. h \in DOMAIN e.ctxs /\ StoreSound(e, 0, 0)
  BY DEF Shorter, Trimmed
<1>2. e.ctxs[h].msgs \in Seq(Msgs)
  BY <1>1, DbIs, CtxIs DEF StoreSound
<1>3. /\ DOMAIN e.ctxs[h].msgs = 1..Len(e.ctxs[h].msgs)
      /\ Len(e.ctxs[h].msgs) \in Nat
  BY <1>2, LenProperties
<1>4. Len(e.ctxs[h].msgs) = Len(d.ctxs[h].msgs) - (k - 1)
  BY DEF Shorter
<1>5. 1 \in DOMAIN e.ctxs[h].msgs
  BY <1>3, <1>4
<1> DEFINE m == RemoveAt(e.ctxs[h].msgs, 1)
<1>6. Len(m) = Len(e.ctxs[h].msgs) - 1
  BY <1>2, <1>5, RemoveAtIs
<1>7. StoreSound(f, 0, 0) /\ Trimmed(e, f, h, m)
  BY <1>1, <1>5, FinishedSound
<1> HIDE DEF m
<1>8. f.ctxs[h].msgs = m
  BY <1>7 DEF Trimmed
<1>9. Len(f.ctxs[h].msgs) = Len(d.ctxs[h].msgs) - k
  <2>1. Len(f.ctxs[h].msgs) = (Len(d.ctxs[h].msgs) - (k - 1)) - 1
    BY <1>4, <1>6, <1>8
  <2>2. k \in Int /\ Len(d.ctxs[h].msgs) \in Int
    OBVIOUS
  <2>3. \A n, j \in Int : (n - (j - 1)) - 1 = n - j
    OBVIOUS
  <2> QED
    BY <2>1, <2>2, <2>3
<1>10. Trimmed(d, f, h, f.ctxs[h].msgs)
  BY <1>7 DEF Shorter, Trimmed, SameClient
<1> QED
  BY <1>7, <1>9, <1>10 DEF Shorter

LEMMA MessagesDeleteSound ==
    ASSUME NEW d, NEW h \in DOMAIN d.ctxs, StoreSound(d, 0, 0),
           NEW e, e = mqtt3_db_messages_delete(d, h)
    PROVE  StoreSound(e, 0, 0) /\ Trimmed(d, e, h, <<>>)
<1> DEFINE n == Len(d.ctxs[h].msgs)
           D == [k \in 0..n |-> {x \in Dbs : Shorter(d, x, h, k)}]
           F == [k \in 1..n |-> [x \in Dbs |-> Finished(x, h, 1)]]
           P(g) == g = [k \in 0..n |-> IF k = 0 THEN d ELSE Finished(g[k - 1], h, 1)]
<1>1. n \in Nat
  BY DbIs, CtxIs, LenProperties DEF StoreSound
<1>2. d \in D[0]
  <2>1. Shorter(d, d, h, 0)
    BY <1>1 DEF Shorter, Trimmed, SameClient
  <2> QED
    BY <2>1, <1>1 DEF StoreSound
<1>3. ASSUME NEW k \in 1..n, NEW x \in D[k - 1]
      PROVE  Finished(x, h, 1) \in D[k] /\ x \in Dbs
  <2>1. x \in Dbs /\ Shorter(d, x, h, k - 1) /\ k \in 0..n
    BY <1>1
  <2>2. Shorter(d, Finished(x, h, 1), h, k)
    BY <1>1, <2>1, ShorterStep
  <2> QED
    BY <2>1, <2>2 DEF Shorter, StoreSound
<1>4. mqtt3_db_messages_delete(d, h) = (CHOOSE g : P(g))[n]
  BY DEF mqtt3_db_messages_delete
<1> HIDE DEF n, D
<1>5. \A k \in 1..n : \A x \in D[k - 1] : F[k][x] \in D[k]
  BY <1>3
<1>6. \E g : P(g)
  <2> HIDE DEF F
  <2>1. PICK g : Loops(g, n, d, F, D)
    BY <1>1, <1>2, <1>5, LoopExists
  <2>2. \A k \in 1..n : k - 1 \in 0..n /\ F[k][g[k - 1]] = Finished(g[k - 1], h, 1)
    <3> SUFFICES ASSUME NEW k \in 1..n
                 PROVE  k - 1 \in 0..n /\ F[k][g[k - 1]] = Finished(g[k - 1], h, 1)
      OBVIOUS
    <3>1. k - 1 \in 0..n
      BY <1>1
    <3>2. g[k - 1] \in Dbs
      BY <3>1, <2>1, <1>3 DEF Loops
    <3> QED
      BY <3>1, <3>2 DEF F
  <2>3. P(g)
    BY <2>1, <2>2, <1>1 DEF Loops
  <2> QED
    BY <2>3
<1> DEFINE a == CHOOSE g : P(g)
<1>7. P(a)
  BY <1>6
<1>8. e = a[n]
  BY <1>4
<1> HIDE DEF a, P
<1>9. a[0] = d /\ \A k \in 1..n : a[k] = Finished(a[k - 1], h, 1)
  BY <1>7, <1>1 DEF P
<1>10. \A k \in 0..n : a[k] \in D[k]
  BY <1>1, <1>2, <1>3, <1>9, LoopKeeps
<1>11. Shorter(d, e, h, n)
  BY <1>1, <1>8, <1>10 DEF D
<1>12. e.ctxs[h].msgs = <<>>
  <2>1. h \in DOMAIN e.ctxs /\ e \in Dbs
    BY <1>11 DEF Shorter, Trimmed, StoreSound
  <2>2. e.ctxs[h].msgs \in Seq(Msgs)
    BY <2>1, DbIs, CtxIs
  <2>3. Len(e.ctxs[h].msgs) = 0
    BY <1>1, <1>11 DEF Shorter, n
  <2> QED
    BY <2>2, <2>3, EmptySeq
<1> QED
  BY <1>11, <1>12 DEF Shorter

\* The result of mqtt3_context_cleanup.
CleanedUp(d, e, h) ==
    /\ e.last = d.last /\ e.free = d.free /\ e.retained = d.retained
    /\ DOMAIN e.ctxs = DOMAIN d.ctxs \ {h}
    /\ \A g \in DOMAIN d.ctxs : g # h => e.ctxs[g] = d.ctxs[g]
    /\ \A t \in Topics : Pruned(e.leaves[t], d.leaves[t], h)
    /\ Zeros(e) \subseteq Zeros(d)

LEMMA CleanupSound ==
    ASSUME NEW d, NEW h \in DOMAIN d.ctxs, StoreSound(d, 0, 0), ClientsSound(d),
           NEW e, e = mqtt3_context_cleanup(d, h)
    PROVE  StoreSound(e, 0, 0) /\ CleanedUp(d, e, h)
<1> DEFINE ts == d.ctxs[h].subs
           x == DropLeaves(d, h, ts)
           y == mqtt3_db_messages_delete(x, h)
           z == Without(y.ctxs, h)
<1>1. ts \in SUBSET Topics /\ d \in Dbs /\ d.leaves \in [Topics -> Seq(Leaves)]
  BY DbIs, CtxIs DEF StoreSound
<1>2. StoreSound(x, 0, 0) /\ Zeros(x) = Zeros(d) /\ Dropping(d, x, h, ts)
  BY <1>1, DropLeavesSound
<1>3. e = [y EXCEPT !.ctxs = z]
  BY DEF mqtt3_context_cleanup, mqtt3_subs_clean_session
<1> HIDE DEF x
<1>4. h \in DOMAIN x.ctxs
  BY <1>2 DEF Dropping, Replanted
<1>5. StoreSound(y, 0, 0) /\ Trimmed(x, y, h, <<>>)
  BY <1>2, <1>4, MessagesDeleteSound
<1> HIDE DEF y
<1>6. h \in DOMAIN y.ctxs /\ y \in Dbs /\ y.ctxs \in Tables(Contexts, Ctxs) /\ h \in Contexts
  <2>1. h \in DOMAIN y.ctxs /\ y \in Dbs
    BY <1>4, <1>5 DEF Trimmed, StoreSound
  <2> QED
    BY <2>1, DbIs DEF CtxTables
<1>7. z \in Tables(Contexts, Ctxs) /\ Dropped(z, y.ctxs, h)
  BY <1>6, WithoutIs
<1> HIDE DEF z
<1>8. e \in Dbs /\ e.ctxs = z /\ OnlyCtxs(y, e)
  BY <1>3, <1>6, <1>7, SetCtxs DEF CtxTables
<1>9. SameStore(y, e)
  <2>1. SameLists(y, e)
    BY <1>5, <1>7, <1>8 DEF SameLists, Dropped, Trimmed
  <2> QED
    BY <2>1, <1>8 DEF SameStore, OnlyCtxs
<1>10. StoreSound(e, 0, 0) /\ Zeros(e) = Zeros(y)
  BY <1>5, <1>8, <1>9, StoreSoundSame
<1>11. \A t \in Topics : Pruned(x.leaves[t], d.leaves[t], h)
  <2> SUFFICES ASSUME NEW t \in Topics PROVE Pruned(x.leaves[t], d.leaves[t], h)
    OBVIOUS
  <2>1. CASE t \in ts
    BY <2>1, <1>2 DEF Dropping
  <2>2. CASE t \notin ts
    <3>1. x.leaves[t] = d.leaves[t] /\ d.leaves[t] \in Seq(Leaves) /\ Once(d.leaves[t])
      BY <2>2, <1>1, <1>2 DEF Dropping, ClientsSound, LeavesOnce
    <3>2. \A q : ~Has(d.leaves[t], h, q)
      BY <2>2 DEF ClientsSound, SubsMatch
    <3> QED
      BY <3>1, <3>2 DEF Pruned
  <2> QED
    BY <2>1, <2>2
<1>12. e.leaves = x.leaves /\ e.free = d.free /\ e.last = d.last /\ e.retained = d.retained
  BY <1>2, <1>5, <1>8 DEF Trimmed, OnlyCtxs, Dropping, Replanted
<1>13. /\ DOMAIN e.ctxs = DOMAIN d.ctxs \ {h}
       /\ \A g \in DOMAIN d.ctxs : g # h => e.ctxs[g] = d.ctxs[g]
  BY <1>2, <1>5, <1>7, <1>8 DEF Trimmed, Dropping, Replanted, Dropped
<1>14. Zeros(e) \subseteq Zeros(d)
  BY <1>2, <1>5, <1>10 DEF Trimmed
<1> QED
  BY <1>10, <1>11, <1>12, <1>13, <1>14 DEF CleanedUp

\* Contexts that had lost their names are gone, with their leaves.
Freed(d, e) ==
    /\ e.last = d.last /\ Zeros(e) \subseteq Zeros(d)
    /\ \A h \in DOMAIN e.ctxs : h \in DOMAIN d.ctxs /\ e.ctxs[h] = d.ctxs[h]
    /\ \A h \in DOMAIN d.ctxs : d.ctxs[h].id # NULL => h \in DOMAIN e.ctxs
    /\ \A t \in Topics : \A h, q :
          Has(d.leaves[t], h, q) /\ h \in DOMAIN e.ctxs => Has(e.leaves[t], h, q)

LEMMA FreedTrans ==
    ASSUME NEW d, NEW e, NEW f, Freed(d, e), Freed(e, f)
    PROVE  Freed(d, f)
<1>1. /\ f.last = d.last /\ Zeros(f) \subseteq Zeros(d)
      /\ \A h \in DOMAIN f.ctxs : /\ h \in DOMAIN e.ctxs /\ h \in DOMAIN d.ctxs
                                  /\ f.ctxs[h] = d.ctxs[h]
      /\ \A h \in DOMAIN d.ctxs : d.ctxs[h].id # NULL => h \in DOMAIN f.ctxs
  BY DEF Freed
<1>2. \A t \in Topics : \A h, q :
          Has(d.leaves[t], h, q) /\ h \in DOMAIN f.ctxs => Has(f.leaves[t], h, q)
  BY <1>1 DEF Freed
<1> QED
  BY <1>1, <1>2 DEF Freed

LEMMA FreeFirstSound ==
    ASSUME NEW d, StoreSound(d, 0, 0), ClientsSound(d), d.free # <<>>,
           NEW e, e = FreeFirst(d)
    PROVE  /\ StoreSound(e, 0, 0) /\ ClientsSound(e) /\ Freed(d, e)
           /\ Len(e.free) = Len(d.free) - 1
<1> DEFINE h == Head(d.free)
           x == mqtt3_context_cleanup(d, h)
           rest == Tail(d.free)
<1>1. d.free \in Seq(Contexts) /\ d \in Dbs
  BY DbIs DEF StoreSound
<1>2. /\ Len(d.free) \in Nat /\ DOMAIN d.free = 1..Len(d.free) /\ Len(d.free) # 0
      /\ h = d.free[1] /\ rest \in Seq(Contexts) /\ Len(rest) = Len(d.free) - 1
      /\ DOMAIN rest = 1..(Len(d.free) - 1)
      /\ \A k \in 1..(Len(d.free) - 1) : rest[k] = d.free[k + 1]
  BY <1>1
<1>3. 1 \in DOMAIN d.free /\ h \in DOMAIN d.ctxs /\ d.ctxs[h].id = NULL
  <2>1. 1 \in DOMAIN d.free
    BY <1>2
  <2> QED
    BY <2>1, <1>2 DEF ClientsSound, FreeValid
<1> HIDE DEF h
<1>4. StoreSound(x, 0, 0) /\ CleanedUp(d, x, h)
  BY <1>3, CleanupSound
<1>5. e = [x EXCEPT !.free = Tail(x.free)]
  BY DEF FreeFirst, h
<1> HIDE DEF x
<1>6. e = [x EXCEPT !.free = rest] /\ x \in Dbs
  BY <1>4, <1>5 DEF CleanedUp, StoreSound
<1> HIDE DEF rest
<1>7. /\ e \in Dbs /\ e.free = rest /\ e.last = x.last /\ e.store = x.store
      /\ e.ctxs = x.ctxs /\ e.leaves = x.leaves /\ e.retained = x.retained
  BY <1>2, <1>6 DEF Dbs
<1>8. StoreSound(e, 0, 0) /\ Zeros(e) = Zeros(x)
  <2>1. SameStore(x, e)
    BY <1>7 DEF SameStore, SameLists
  <2> QED
    BY <2>1, <1>4, <1>7, StoreSoundSame
<1>9. /\ DOMAIN e.ctxs = DOMAIN d.ctxs \ {h}
      /\ \A g \in DOMAIN e.ctxs : e.ctxs[g] = d.ctxs[g]
      /\ \A t \in Topics : Pruned(e.leaves[t], d.leaves[t], h)
      /\ e.last = d.last /\ Zeros(e) \subseteq Zeros(d)
  BY <1>4, <1>7, <1>8 DEF CleanedUp
<1>10. \A t \in Topics : \A g, q : Has(e.leaves[t], g, q) <=> Has(d.leaves[t], g, q) /\ g # h
  BY <1>9 DEF Pruned
<1>11. Freed(d, e)
  BY <1>3, <1>9, <1>10 DEF Freed
<1>12. LeavesValid(e)
  BY <1>1, <1>7, <1>9, <1>10, HasValid DEF ClientsSound
<1>13. LeavesOnce(e)
  BY <1>9 DEF LeavesOnce, Pruned
<1>14. SubsMatch(e)
  <2> SUFFICES ASSUME NEW g \in DOMAIN e.ctxs, NEW t \in Topics
               PROVE  t \in e.ctxs[g].subs <=> \E q : Has(e.leaves[t], g, q)
    BY DEF SubsMatch
  <2>1. g \in DOMAIN d.ctxs /\ g # h /\ e.ctxs[g] = d.ctxs[g]
    BY <1>9
  <2>2. t \in d.ctxs[g].subs <=> \E q : Has(d.leaves[t], g, q)
    BY <2>1 DEF ClientsSound, SubsMatch
  <2> QED
    BY <2>1, <2>2, <1>10
<1>15. FreeValid(e)
  <2>1. \A k \in DOMAIN rest : /\ k + 1 \in DOMAIN d.free /\ rest[k] = d.free[k + 1]
                               /\ k + 1 # 1 /\ k \in Nat
    BY <1>2
  <2>2. ASSUME NEW k \in DOMAIN rest
        PROVE  /\ rest[k] \in DOMAIN e.ctxs /\ e.ctxs[rest[k]].id = NULL
               /\ ~e.ctxs[rest[k]].sock
    <3>1. rest[k] # h
      BY <2>1, <1>2, <1>3 DEF ClientsSound, FreeValid
    <3>2. /\ rest[k] \in DOMAIN d.ctxs /\ d.ctxs[rest[k]].id = NULL
          /\ ~d.ctxs[rest[k]].sock
      BY <2>1 DEF ClientsSound, FreeValid
    <3> QED
      BY <3>1, <3>2, <1>9
  <2>3. ASSUME NEW k \in DOMAIN rest, NEW l \in DOMAIN rest, rest[k] = rest[l]
        PROVE  k = l
    <3>1. k + 1 = l + 1
      BY <2>1, <2>3 DEF ClientsSound, FreeValid
    <3> QED
      BY <3>1, <2>1
  <2> QED
    BY <2>2, <2>3, <1>7 DEF FreeValid
<1>16. OneHome(e) /\ NoName(e)
  BY <1>9 DEF ClientsSound, OneHome, NoName
<1> QED
  BY <1>2, <1>7, <1>8, <1>11, <1>12, <1>13, <1>14, <1>15, <1>16 DEF ClientsSound

\* The first k contexts of the list are freed.
FreedUpTo(d, e, k) ==
    /\ StoreSound(e, 0, 0) /\ ClientsSound(e) /\ Freed(d, e)
    /\ Len(e.free) = Len(d.free) - k

LEMMA FreedStep ==
    ASSUME NEW d, NEW e, Len(d.free) \in Nat, NEW k \in 1..Len(d.free),
           FreedUpTo(d, e, k - 1), NEW f, f = FreeFirst(e)
    PROVE  FreedUpTo(d, f, k)
<1>1. StoreSound(e, 0, 0) /\ ClientsSound(e) /\ Freed(d, e) /\ e.free \in Seq(Contexts)
      /\ Len(e.free) = Len(d.free) - (k - 1)
  BY DbIs DEF FreedUpTo, StoreSound
<1>2. e.free # <<>>
  BY <1>1
<1>3. /\ StoreSound(f, 0, 0) /\ ClientsSound(f) /\ Freed(e, f)
      /\ Len(f.free) = Len(e.free) - 1
  BY <1>1, <1>2, FreeFirstSound
<1>4. Freed(d, f)
  BY <1>1, <1>3, FreedTrans
<1>5. Len(f.free) = Len(d.free) - k
  BY <1>1, <1>3
<1> QED
  BY <1>3, <1>4, <1>5 DEF FreedUpTo

LEMMA FreeDisusedSound ==
    ASSUME NEW d, StoreSound(d, 0, 0), ClientsSound(d),
           NEW e, e = mosquitto__free_disused_contexts(d)
    PROVE  StoreSound(e, 0, 0) /\ ClientsSound(e) /\ Freed(d, e)
<1> DEFINE n == Len(d.free)
           D == [k \in 0..n |-> {x \in Dbs : FreedUpTo(d, x, k)}]
           F == [k \in 1..n |-> [x \in Dbs |-> FreeFirst(x)]]
           P(g) == g = [k \in 0..n |-> IF k = 0 THEN d ELSE FreeFirst(g[k - 1])]
<1>1. n \in Nat
  BY DbIs, LenProperties DEF StoreSound
<1>2. d \in D[0]
  <2>1. FreedUpTo(d, d, 0)
    BY <1>1 DEF FreedUpTo, Freed
  <2> QED
    BY <2>1, <1>1 DEF StoreSound
<1>3. ASSUME NEW k \in 1..n, NEW x \in D[k - 1]
      PROVE  FreeFirst(x) \in D[k] /\ x \in Dbs
  <2>1. x \in Dbs /\ FreedUpTo(d, x, k - 1) /\ k \in 0..n
    BY <1>1
  <2>2. FreedUpTo(d, FreeFirst(x), k)
    BY <1>1, <2>1, FreedStep
  <2> QED
    BY <2>1, <2>2 DEF FreedUpTo, StoreSound
<1>4. mosquitto__free_disused_contexts(d) = (CHOOSE g : P(g))[n]
  BY DEF mosquitto__free_disused_contexts
<1> HIDE DEF n, D
<1>5. \A k \in 1..n : \A x \in D[k - 1] : F[k][x] \in D[k]
  BY <1>3
<1>6. \E g : P(g)
  <2> HIDE DEF F
  <2>1. PICK g : Loops(g, n, d, F, D)
    BY <1>1, <1>2, <1>5, LoopExists
  <2>2. \A k \in 1..n : k - 1 \in 0..n /\ F[k][g[k - 1]] = FreeFirst(g[k - 1])
    <3> SUFFICES ASSUME NEW k \in 1..n
                 PROVE  k - 1 \in 0..n /\ F[k][g[k - 1]] = FreeFirst(g[k - 1])
      OBVIOUS
    <3>1. k - 1 \in 0..n
      BY <1>1
    <3>2. g[k - 1] \in Dbs
      BY <3>1, <2>1, <1>3 DEF Loops
    <3> QED
      BY <3>1, <3>2 DEF F
  <2>3. P(g)
    BY <2>1, <2>2, <1>1 DEF Loops
  <2> QED
    BY <2>3
<1> DEFINE a == CHOOSE g : P(g)
<1>7. P(a)
  BY <1>6
<1>8. e = a[n]
  BY <1>4
<1> HIDE DEF a, P
<1>9. a[0] = d /\ \A k \in 1..n : a[k] = FreeFirst(a[k - 1])
  BY <1>7, <1>1 DEF P
<1>10. \A k \in 0..n : a[k] \in D[k]
  BY <1>1, <1>2, <1>3, <1>9, LoopKeeps
<1>11. FreedUpTo(d, e, n)
  BY <1>1, <1>8, <1>10 DEF D
<1> QED
  BY <1>11 DEF FreedUpTo

LEMMA FreedStay ==
    ASSUME NEW d, NEW e, NoName(d), Freed(d, e)
    PROVE  Stay(d, e) /\ (Settled(d) => Settled(e))
<1>1. ASSUME NEW h \in DOMAIN d.ctxs, ~d.ctxs[h].clean PROVE Heir(d, h, e, h)
  <2>1. h \in DOMAIN e.ctxs /\ e.ctxs[h] = d.ctxs[h]
    BY <1>1 DEF NoName, Freed
  <2>2. \A s : Holds(d, h, s, "out") => Holds(e, h, s, "out")
    BY <2>1 DEF Holds
  <2> QED
    BY <2>1, <2>2, <1>1 DEF Heir, Freed
<1>2. Settled(d) => Settled(e)
  BY DEF Settled, Freed
<1> QED
  BY <1>1, <1>2 DEF Stay
----------------------------------------------------------------------------
(***************************************************************************)
(* The end of a connection.                                                *)
(***************************************************************************)
\* e is d with another record x for context h, with the same subscriptions and
\* messages.
Recast(d, e, h, x) ==
    /\ e.last = d.last /\ e.store = d.store /\ e.leaves = d.leaves
    /\ e.retained = d.retained /\ CtxSet(d, e, h, x)
    /\ x.subs = d.ctxs[h].subs /\ x.msgs = d.ctxs[h].msgs

LEMMA RecastStore ==
    ASSUME NEW d, NEW e \in Dbs, NEW h \in DOMAIN d.ctxs, NEW x, Recast(d, e, h, x),
           StoreSound(d, 0, 0)
    PROVE  StoreSound(e, 0, 0) /\ Zeros(e) = Zeros(d)
<1>1. SameStore(d, e)
  BY DEF Recast, CtxSet, SameStore, SameLists
<1> QED
  BY <1>1, StoreSoundSame

LEMMA RecastClients ==
    ASSUME NEW d, NEW e, NEW h \in DOMAIN d.ctxs, NEW x, Recast(d, e, h, x),
           ClientsSound(d), x.id \in {d.ctxs[h].id, NULL},
           x.id = NULL => x.clean, FreeValid(e)
    PROVE  ClientsSound(e)
<1>1. LeavesValid(e) /\ LeavesOnce(e)
  BY DEF Recast, CtxSet, ClientsSound, LeavesValid, LeavesOnce
<1>2. \A g \in DOMAIN d.ctxs : e.ctxs[g].subs = d.ctxs[g].subs
  BY DEF Recast, CtxSet
<1>3. SubsMatch(e)
  BY <1>2 DEF Recast, CtxSet, ClientsSound, SubsMatch
<1>4. \A g \in DOMAIN d.ctxs : e.ctxs[g].id # NULL => e.ctxs[g].id = d.ctxs[g].id
  BY DEF Recast, CtxSet
<1>5. OneHome(e)
  BY <1>4 DEF Recast, CtxSet, ClientsSound, OneHome
<1>6. NoName(e)
  BY DEF Recast, CtxSet, ClientsSound, NoName
<1> QED
  BY <1>1, <1>3, <1>5, <1>6 DEF ClientsSound

\* A context that has a name or a socket does not wait to be freed.
LEMMA FreeKept ==
    ASSUME NEW d, NEW e, NEW h, NEW x, FreeValid(d), e.free = d.free,
           CtxSet(d, e, h, x), \A k \in DOMAIN d.free : d.free[k] # h
    PROVE  FreeValid(e)
  BY DEF FreeValid, CtxSet

LEMMA NotFree ==
    ASSUME NEW d, ClientsSound(d), NEW h, d.ctxs[h].id # NULL \/ d.ctxs[h].sock
    PROVE  \A k \in DOMAIN d.free : d.free[k] # h
  BY DEF ClientsSound, FreeValid

\* The result of do_disconnect.
Left(d, e, h) ==
    /\ e.leaves = d.leaves /\ DOMAIN e.ctxs = DOMAIN d.ctxs
    /\ \A g \in DOMAIN d.ctxs : Grown(d.ctxs[g].msgs, e.ctxs[g].msgs)
    /\ \A g \in DOMAIN d.ctxs : g # h => SameClient(e.ctxs[g], d.ctxs[g])
    /\ e.ctxs[h].clean = d.ctxs[h].clean /\ ~e.ctxs[h].sock
    /\ e.ctxs[h].id = IF d.ctxs[h].clean THEN NULL ELSE d.ctxs[h].id
    /\ Zeros(e) \subseteq Zeros(d)

LEMMA LeftStay ==
    ASSUME NEW d, NEW e, NEW h \in DOMAIN d.ctxs, Left(d, e, h)
    PROVE  Stay(d, e) /\ (Settled(d) => Settled(e))
<1>1. ASSUME NEW g \in DOMAIN d.ctxs, ~d.ctxs[g].clean PROVE Heir(d, g, e, g)
  <2>1. \A s : Holds(d, g, s, "out") => Holds(e, g, s, "out")
    BY DEF Left, Holds, Grown
  <2>2. e.ctxs[g].id = d.ctxs[g].id /\ ~e.ctxs[g].clean
    BY <1>1 DEF Left, SameClient
  <2> QED
    BY <2>1, <2>2 DEF Heir, Left
<1>2. Settled(d) => Settled(e)
  BY DEF Settled, Left, SameClient
<1> QED
  BY <1>1, <1>2 DEF Stay

\* The will of a client is routed, if it did not take its leave.
WillServed(d, e, h) ==
    d.ctxs[h].state # "disconnecting" /\ d.ctxs[h].will # NULL
        => AllServed(d, e, d.ctxs[h].will.topic, d.ctxs[h].will.qos, d.last + 1)

LEMMA ToldSound ==
    ASSUME NEW d, NEW h \in DOMAIN d.ctxs, StoreSound(d, 0, 0), ClientsSound(d),
           NEW e, e = IF d.ctxs[h].state # "disconnecting" /\ d.ctxs[h].will # NULL
                      THEN mqtt3_db_messages_easy_queue(d, d.ctxs[h].will) ELSE d
    PROVE  /\ StoreSound(e, 0, 0) /\ ClientsKept(d, e) /\ Zeros(e) \subseteq Zeros(d)
           /\ WillServed(d, e, h)
<1> DEFINE will == d.ctxs[h].will
<1>1. CASE d.ctxs[h].state # "disconnecting" /\ will # NULL
  <2>1. will \in WillMessages
    BY <1>1, DbIs, CtxIs DEF StoreSound
  <2>2. will.topic \in Topics /\ will.qos \in 0..2 /\ will.retain \in BOOLEAN
    BY <2>1, StoreAssumption DEF WillMessages
  <2> HIDE DEF will
  <2>3. e = mqtt3_db_messages_easy_queue(d, will)
    BY <1>1 DEF will
  <2>4. e = mqtt3_db_messages_queue(
                mqtt3_db_message_store(d, will.topic, will.qos, will.retain, TRUE),
                d.last + 1, TRUE)
    BY <2>3 DEF mqtt3_db_messages_easy_queue
  <2>5. LeavesValid(d) /\ TRUE \in BOOLEAN
    BY DEF ClientsSound
  <2>6. /\ StoreSound(e, 0, 0) /\ Published(d, e)
        /\ AllServed(d, e, will.topic, will.qos, d.last + 1)
    BY <2>2, <2>4, <2>5, QueueNewSound
  <2> QED
    BY <2>6 DEF Published, WillServed, will
<1>2. CASE ~(d.ctxs[h].state # "disconnecting" /\ will # NULL)
  <2>1. e = d
    BY <1>2
  <2>2. ClientsKept(d, d)
    BY DEF ClientsKept, SameClient, Grown
  <2> QED
    BY <1>2, <2>1, <2>2 DEF WillServed
<1> QED
  BY <1>1, <1>2

\* The record of a context whose connection is closed.
Closed(x) == [x EXCEPT !.will = NULL, !.sock = FALSE, !.state = "disconnected"]

LEMMA CloseSound ==
    ASSUME NEW d, NEW h \in DOMAIN d.ctxs, StoreSound(d, 0, 0), ClientsSound(d),
           d.ctxs[h].id # NULL, NEW e,
           e = [d EXCEPT !.ctxs[h].will = NULL, !.ctxs[h].sock = FALSE,
                         !.ctxs[h].state = "disconnected"]
    PROVE  /\ StoreSound(e, 0, 0) /\ ClientsSound(e) /\ Zeros(e) = Zeros(d)
           /\ e.free = d.free /\ e.leaves = d.leaves
           /\ CtxSet(d, e, h, Closed(d.ctxs[h]))
<1> DEFINE x == Closed(d.ctxs[h])
<1>1. d \in Dbs /\ d.ctxs[h] \in Ctxs
  BY DbIs DEF StoreSound
<1>2. /\ x \in Ctxs /\ x.id = d.ctxs[h].id /\ x.subs = d.ctxs[h].subs
      /\ x.msgs = d.ctxs[h].msgs /\ ~x.sock /\ x.clean = d.ctxs[h].clean
  BY <1>1 DEF Closed, Ctxs, States
<1>3. e = [d EXCEPT !.ctxs = [d.ctxs EXCEPT ![h] = x]]
  BY <1>1 DEF Closed, Dbs
<1> HIDE DEF x
<1>4. e \in Dbs /\ OnlyCtxs(d, e) /\ CtxSet(d, e, h, x)
  BY <1>1, <1>2, <1>3, SetCtx
<1>5. Recast(d, e, h, x)
  BY <1>2, <1>4 DEF Recast, OnlyCtxs
<1>6. StoreSound(e, 0, 0) /\ Zeros(e) = Zeros(d)
  BY <1>4, <1>5, RecastStore
<1>7. FreeValid(e)
  <2>1. \A k \in DOMAIN d.free : d.free[k] # h
    BY NotFree
  <2>2. FreeValid(d) /\ e.free = d.free
    BY <1>4, Zenon DEF ClientsSound, OnlyCtxs
  <2> QED
    BY <2>1, <2>2, <1>4, FreeKept, Zenon
<1>8. ClientsSound(e)
  BY <1>2, <1>5, <1>7, RecastClients
<1> QED
  BY <1>4, <1>6, <1>8 DEF OnlyCtxs, x

\* A clean context loses its name and waits to be freed.
LEMMA DisuseSound ==
    ASSUME NEW d, NEW h \in DOMAIN d.ctxs, StoreSound(d, 0, 0), ClientsSound(d),
           d.ctxs[h].id # NULL, ~d.ctxs[h].sock, d.ctxs[h].clean, NEW e,
           e = [d EXCEPT !.free = <<h>> \o d.free, !.ctxs[h].id = NULL]
    PROVE  /\ StoreSound(e, 0, 0) /\ ClientsSound(e) /\ Zeros(e) = Zeros(d)
           /\ e.leaves = d.leaves
           /\ CtxSet(d, e, h, [d.ctxs[h] EXCEPT !.id = NULL])
<1> DEFINE x == [d.ctxs[h] EXCEPT !.id = NULL]
           c == [d EXCEPT !.ctxs = [d.ctxs EXCEPT ![h] = x]]
           free == <<h>> \o d.free
<1>1. d \in Dbs /\ d.ctxs[h] \in Ctxs /\ d.free \in Seq(Contexts) /\ h \in Contexts
  BY DbIs DEF StoreSound
<1>2. /\ x \in Ctxs /\ x.id = NULL /\ x.subs = d.ctxs[h].subs
      /\ x.msgs = d.ctxs[h].msgs /\ ~x.sock /\ x.clean
  BY <1>1 DEF Ctxs
<1>3. /\ free \in Seq(Contexts) /\ Len(d.free) \in Nat
      /\ DOMAIN d.free = 1..Len(d.free) /\ DOMAIN free = 1..(Len(d.free) + 1)
      /\ free[1] = h /\ \A k \in 2..(Len(d.free) + 1) : free[k] = d.free[k - 1]
  BY <1>1
<1>4. e = [c EXCEPT !.free = free]
  BY <1>1 DEF Dbs
<1> HIDE DEF x, free
<1>5. c \in Dbs /\ OnlyCtxs(d, c) /\ CtxSet(d, c, h, x)
  BY <1>1, <1>2, SetCtx
<1> HIDE DEF c
<1>6. /\ e \in Dbs /\ e.free = free /\ e.ctxs = c.ctxs /\ e.store = c.store
      /\ e.last = c.last /\ e.leaves = c.leaves /\ e.retained = c.retained
  BY <1>3, <1>4, <1>5 DEF Dbs
<1>7. CtxSet(d, e, h, x) /\ Recast(d, e, h, x)
  BY <1>2, <1>5, <1>6 DEF Recast, OnlyCtxs, CtxSet
<1>8. StoreSound(e, 0, 0) /\ Zeros(e) = Zeros(d)
  BY <1>6, <1>7, RecastStore
<1>9. FreeValid(e)
  <2>1. \A k \in DOMAIN d.free : d.free[k] # h
    BY NotFree
  <2>2. \A k \in DOMAIN free : k = 1 \/ (k - 1 \in DOMAIN d.free /\ free[k] = d.free[k - 1])
    BY <1>3
  <2>3. \A k \in DOMAIN free : /\ free[k] \in DOMAIN e.ctxs /\ e.ctxs[free[k]].id = NULL
                               /\ ~e.ctxs[free[k]].sock
    <3> SUFFICES ASSUME NEW k \in DOMAIN free
                 PROVE  /\ free[k] \in DOMAIN e.ctxs /\ e.ctxs[free[k]].id = NULL
                        /\ ~e.ctxs[free[k]].sock
      OBVIOUS
    <3>1. CASE k = 1
      BY <3>1, <1>2, <1>3, <1>7 DEF CtxSet
    <3>2. CASE k # 1
      <4>1. k - 1 \in DOMAIN d.free /\ free[k] = d.free[k - 1]
        BY <3>2, <2>2
      <4>2. /\ free[k] \in DOMAIN d.ctxs /\ d.ctxs[free[k]].id = NULL
            /\ ~d.ctxs[free[k]].sock /\ free[k] # h
        BY <4>1, <2>1 DEF ClientsSound, FreeValid
      <4> QED
        BY <4>2, <1>7 DEF CtxSet
    <3> QED
      BY <3>1, <3>2
  <2>4. ASSUME NEW k \in DOMAIN free, NEW l \in DOMAIN free, free[k] = free[l]
        PROVE  k = l
    <3>1. CASE k = 1 /\ l = 1
      BY <3>1
    <3>2. CASE k = 1 /\ l # 1
      BY <3>2, <2>1, <2>2, <2>4, <1>3
    <3>3. CASE k # 1 /\ l = 1
      BY <3>3, <2>1, <2>2, <2>4, <1>3
    <3>4. CASE k # 1 /\ l # 1
      <4>1. k - 1 = l - 1
        BY <3>4, <2>2, <2>4 DEF ClientsSound, FreeValid
      <4> QED
        BY <4>1, <1>3
    <3> QED
      BY <3>1, <3>2, <3>3, <3>4
  <2> QED
    BY <2>3, <2>4, <1>6 DEF FreeValid
<1>10. ClientsSound(e)
  BY <1>2, <1>7, <1>9, RecastClients
<1> QED
  BY <1>5, <1>6, <1>7, <1>8, <1>10 DEF OnlyCtxs, x

LEMMA DisconnectSound ==
    ASSUME NEW d, NEW h \in DOMAIN d.ctxs, StoreSound(d, 0, 0), ClientsSound(d),
           d.ctxs[h].id # NULL, d.ctxs[h].state # "disconnected",
           NEW e, e = do_disconnect(d, h)
    PROVE  /\ StoreSound(e, 0, 0) /\ ClientsSound(e) /\ Left(d, e, h)
           /\ WillServed(d, e, h)
<1> DEFINE told == IF d.ctxs[h].state # "disconnecting" /\ d.ctxs[h].will # NULL
                   THEN mqtt3_db_messages_easy_queue(d, d.ctxs[h].will) ELSE d
           closed == [told EXCEPT !.ctxs[h].will = NULL, !.ctxs[h].sock = FALSE,
                                  !.ctxs[h].state = "disconnected"]
           x == Closed(told.ctxs[h])
<1>1. e = IF d.ctxs[h].clean
          THEN [closed EXCEPT !.free = <<h>> \o closed.free, !.ctxs[h].id = NULL]
          ELSE closed
  BY DEF do_disconnect
<1>2. /\ StoreSound(told, 0, 0) /\ ClientsKept(d, told) /\ Zeros(told) \subseteq Zeros(d)
      /\ WillServed(d, told, h)
  BY ToldSound
<1> HIDE DEF told
<1>3. ClientsSound(told)
  BY <1>2, KeptSound
<1>4. h \in DOMAIN told.ctxs /\ SameClient(told.ctxs[h], d.ctxs[h])
  BY <1>2 DEF ClientsKept
<1>5. told.ctxs[h].id # NULL /\ told.ctxs[h].clean = d.ctxs[h].clean
      /\ told.ctxs[h] \in Ctxs
  BY <1>2, <1>4, DbIs DEF SameClient, StoreSound
<1>6. /\ StoreSound(closed, 0, 0) /\ ClientsSound(closed) /\ Zeros(closed) = Zeros(told)
      /\ closed.free = told.free /\ closed.leaves = told.leaves
      /\ CtxSet(told, closed, h, x)
  BY <1>2, <1>3, <1>4, <1>5, CloseSound
<1>7. /\ ~x.sock /\ x.clean = d.ctxs[h].clean /\ x.id = d.ctxs[h].id
      /\ x.msgs = told.ctxs[h].msgs
  BY <1>4, <1>5 DEF Closed, SameClient, Ctxs
<1>8. x \in Ctxs
  BY <1>5 DEF Closed, Ctxs, States
<1> HIDE DEF closed, x
<1>9. h \in DOMAIN closed.ctxs /\ closed.ctxs[h] = x
  BY <1>4, <1>6 DEF CtxSet
<1>10. \E y : /\ StoreSound(e, 0, 0) /\ ClientsSound(e) /\ Zeros(e) = Zeros(told)
              /\ e.leaves = told.leaves /\ CtxSet(told, e, h, y)
              /\ ~y.sock /\ y.clean = d.ctxs[h].clean /\ y.msgs = told.ctxs[h].msgs
              /\ y.id = IF d.ctxs[h].clean THEN NULL ELSE d.ctxs[h].id
  <2>1. CASE ~d.ctxs[h].clean
    <3>1. e = closed
      BY <2>1, <1>1
    <3> QED
      BY <3>1, <2>1, <1>6, <1>7
  <2>2. CASE d.ctxs[h].clean
    <3> DEFINE y == [x EXCEPT !.id = NULL]
    <3>1. e = [closed EXCEPT !.free = <<h>> \o closed.free, !.ctxs[h].id = NULL]
      BY <2>2, <1>1
    <3>2. /\ closed.ctxs[h].id # NULL /\ ~closed.ctxs[h].sock /\ closed.ctxs[h].clean
      BY <2>2, <1>7, <1>9
    <3>3. /\ StoreSound(e, 0, 0) /\ ClientsSound(e) /\ Zeros(e) = Zeros(closed)
          /\ e.leaves = closed.leaves /\ CtxSet(closed, e, h, y)
      <4>1. /\ StoreSound(e, 0, 0) /\ ClientsSound(e) /\ Zeros(e) = Zeros(closed)
            /\ e.leaves = closed.leaves
            /\ CtxSet(closed, e, h, [closed.ctxs[h] EXCEPT !.id = NULL])
        BY <1>6, <1>9, <3>1, <3>2, DisuseSound, ZenonT(60)
      <4> QED
        BY <4>1, <1>9, Zenon
    <3>4. y.id = NULL /\ ~y.sock /\ y.clean = d.ctxs[h].clean /\ y.msgs = told.ctxs[h].msgs
      BY <1>7, <1>8 DEF Ctxs
    <3> HIDE DEF y
    <3>5. CtxSet(told, e, h, y)
      BY <3>3, <1>6 DEF CtxSet
    <3> QED
      BY <3>3, <3>4, <3>5, <2>2, <1>6
  <2> QED
    BY <2>1, <2>2
<1>11. PICK y : /\ StoreSound(e, 0, 0) /\ ClientsSound(e) /\ Zeros(e) = Zeros(told)
                /\ e.leaves = told.leaves /\ CtxSet(told, e, h, y)
                /\ ~y.sock /\ y.clean = d.ctxs[h].clean /\ y.msgs = told.ctxs[h].msgs
                /\ y.id = IF d.ctxs[h].clean THEN NULL ELSE d.ctxs[h].id
  BY <1>10
<1>12. \A g \in DOMAIN d.ctxs : g \in DOMAIN e.ctxs /\ e.ctxs[g].msgs = told.ctxs[g].msgs
  BY <1>2, <1>11 DEF CtxSet, ClientsKept
<1>13. Left(d, e, h)
  BY <1>2, <1>11, <1>12 DEF Left, ClientsKept, CtxSet
<1>14. WillServed(d, e, h)
  <2> SUFFICES ASSUME d.ctxs[h].state # "disconnecting", d.ctxs[h].will # NULL
               PROVE  AllServed(d, e, d.ctxs[h].will.topic, d.ctxs[h].will.qos, d.last + 1)
    BY DEF WillServed
  <2> DEFINE t == d.ctxs[h].will.topic
  <2>1. t \in Topics
    <3>1. d.ctxs[h].will \in WillMessages
      BY DbIs, CtxIs DEF StoreSound
    <3> QED
      BY <3>1 DEF WillMessages
  <2>2. AllServed(d, told, t, d.ctxs[h].will.qos, d.last + 1)
    BY <1>2 DEF WillServed
  <2>3. \A i \in DOMAIN d.leaves[t] : d.leaves[t][i].ctx \in DOMAIN d.ctxs
    BY <2>1 DEF ClientsSound, LeavesValid
  <2> QED
    BY <2>2, <2>3, <1>12 DEF AllServed, Reached, Holds
<1> QED
  BY <1>11, <1>13, <1>14

\* The result of End.
Ended(d, e, h) ==
    /\ DOMAIN e.ctxs = DOMAIN d.ctxs /\ e.leaves = d.leaves
    /\ e.ctxs[h].id = NULL /\ ~e.ctxs[h].sock
    /\ \A g \in DOMAIN d.ctxs : g # h => /\ SameClient(e.ctxs[g], d.ctxs[g])
                                         /\ Grown(d.ctxs[g].msgs, e.ctxs[g].msgs)

\* A session is ended for good: it is the only one that does not go on.
LEMMA EndSound ==
    ASSUME NEW d, NEW h \in DOMAIN d.ctxs, StoreSound(d, 0, 0), ClientsSound(d),
           d.ctxs[h].id # NULL, NEW state \in {"disconnecting", "expiring"},
           NEW e, e = End(d, h, state)
    PROVE  /\ StoreSound(e, 0, 0) /\ ClientsSound(e) /\ Zeros(e) \subseteq Zeros(d)
           /\ Inherited(d, e, Clients \ {d.ctxs[h].id}) /\ Ended(d, e, h)
           /\ Settled(d) => Settled(e)
<1> DEFINE x == [d.ctxs[h] EXCEPT !.clean = TRUE, !.state = state]
           f == [d EXCEPT !.ctxs[h].clean = TRUE, !.ctxs[h].state = state]
<1>1. d \in Dbs /\ d.ctxs[h] \in Ctxs
  BY DbIs DEF StoreSound
<1>2. /\ x \in Ctxs /\ x.id = d.ctxs[h].id /\ x.subs = d.ctxs[h].subs
      /\ x.msgs = d.ctxs[h].msgs /\ x.sock = d.ctxs[h].sock /\ x.clean
      /\ x.state = state
  BY <1>1 DEF Ctxs, States
<1>3. f = [d EXCEPT !.ctxs = [d.ctxs EXCEPT ![h] = x]]
  BY <1>1 DEF Dbs
<1>4. e = do_disconnect(f, h)
  BY DEF End
<1> HIDE DEF x, f
<1>5. f \in Dbs /\ OnlyCtxs(d, f) /\ CtxSet(d, f, h, x)
  BY <1>1, <1>2, <1>3, SetCtx
<1>6. Recast(d, f, h, x)
  BY <1>2, <1>5 DEF Recast, OnlyCtxs
<1>7. StoreSound(f, 0, 0) /\ Zeros(f) = Zeros(d)
  BY <1>5, <1>6, RecastStore
<1>8. FreeValid(f)
  <2>1. \A k \in DOMAIN d.free : d.free[k] # h
    BY NotFree
  <2> QED
    BY <2>1, <1>5 DEF ClientsSound, FreeValid, OnlyCtxs, CtxSet
<1>9. ClientsSound(f)
  BY <1>2, <1>6, <1>8, RecastClients
<1>10. h \in DOMAIN f.ctxs /\ f.ctxs[h].id # NULL /\ f.ctxs[h].state # "disconnected"
  BY <1>2, <1>5 DEF CtxSet
<1>11. StoreSound(e, 0, 0) /\ ClientsSound(e) /\ Left(f, e, h)
  BY <1>4, <1>7, <1>9, <1>10, DisconnectSound
<1>12. Inherited(d, e, Clients \ {d.ctxs[h].id})
  <2> SUFFICES ASSUME NEW g \in DOMAIN d.ctxs, d.ctxs[g].id # d.ctxs[h].id,
                      ~d.ctxs[g].clean
               PROVE  Heir(d, g, e, g)
    BY DEF Inherited
  <2>1. g # h /\ f.ctxs[g] = d.ctxs[g] /\ g \in DOMAIN f.ctxs /\ f.leaves = d.leaves
    BY <1>5 DEF CtxSet, OnlyCtxs
  <2>2. Heir(f, g, e, g)
    BY <2>1, <1>10, <1>11, LeftStay DEF Stay
  <2>3. \A s : Holds(d, g, s, "out") <=> Holds(f, g, s, "out")
    BY <2>1 DEF Holds
  <2> QED
    BY <2>1, <2>2, <2>3 DEF Heir
<1>13. Settled(d) => Settled(e)
  <2> SUFFICES ASSUME Settled(d), NEW g \in DOMAIN e.ctxs, e.ctxs[g].sock
               PROVE  e.ctxs[g].id # NULL /\ e.ctxs[g].state = "connected"
    BY DEF Settled
  <2>1. g \in DOMAIN f.ctxs /\ g # h /\ SameClient(e.ctxs[g], f.ctxs[g])
    BY <1>11 DEF Left
  <2>2. g \in DOMAIN d.ctxs /\ f.ctxs[g] = d.ctxs[g]
    BY <2>1, <1>5 DEF CtxSet
  <2> QED
    BY <2>1, <2>2 DEF SameClient, Settled
<1>14. Zeros(e) \subseteq Zeros(d)
  BY <1>7, <1>11 DEF Left
<1>15. Ended(d, e, h)
  BY <1>2, <1>5, <1>11 DEF Ended, Left, CtxSet, OnlyCtxs
<1> QED
  BY <1>11, <1>12, <1>13, <1>14, <1>15
----------------------------------------------------------------------------
(***************************************************************************)
(* CONNECT.                                                                *)
(***************************************************************************)
\* e is d with one more context.
Added(d, e, h, x) == OnlyCtxs(d, e) /\ Entered(e.ctxs, d.ctxs, h, x)

LEMMA AddSound ==
    ASSUME NEW d, StoreSound(d, 0, 0), ClientsSound(d), NEW h \in Contexts,
           h \notin DOMAIN d.ctxs, NEW x \in Ctxs, x.subs = {}, x.msgs = <<>>,
           x.id = NULL => x.clean,
           x.id # NULL => \A g \in DOMAIN d.ctxs : d.ctxs[g].id # x.id,
           NEW e, e = [d EXCEPT !.ctxs = With(d.ctxs, h, x)]
    PROVE  /\ StoreSound(e, 0, 0) /\ ClientsSound(e) /\ Zeros(e) = Zeros(d)
           /\ Added(d, e, h, x) /\ Stay(d, e)
<1> DEFINE y == With(d.ctxs, h, x)
<1>1. d \in Dbs /\ d.ctxs \in Tables(Contexts, Ctxs)
  BY DbIs DEF StoreSound, CtxTables
<1>2. y \in Tables(Contexts, Ctxs) /\ Entered(y, d.ctxs, h, x)
  BY <1>1, WithIs
<1>3. y \in CtxTables /\ e = [d EXCEPT !.ctxs = y]
  BY <1>2 DEF CtxTables
<1> HIDE DEF y
<1>4. e \in Dbs /\ e.ctxs = y /\ OnlyCtxs(d, e)
  <2>1. /\ [d EXCEPT !.ctxs = y] \in Dbs
        /\ [d EXCEPT !.ctxs = y].ctxs = y
        /\ OnlyCtxs(d, [d EXCEPT !.ctxs = y])
    BY <1>1, <1>3, SetCtxs, Zenon
  <2> QED
    BY <1>3, <2>1, Zenon
<1>5. Added(d, e, h, x)
  BY <1>2, <1>4 DEF Added
<1>6. /\ DOMAIN e.ctxs = DOMAIN d.ctxs \cup {h} /\ e.ctxs[h] = x
      /\ \A g \in DOMAIN d.ctxs : g # h /\ e.ctxs[g] = d.ctxs[g]
      /\ e.leaves = d.leaves /\ e.free = d.free
  BY <1>5 DEF Added, Entered, OnlyCtxs
<1>7. StoreSound(e, 0, 0) /\ Zeros(e) = Zeros(d)
  <2>1. SameStore(d, e)
    BY <1>4, <1>6 DEF SameStore, SameLists, OnlyCtxs
  <2> QED
    BY <2>1, <1>4, StoreSoundSame
<1>8. LeavesValid(e) /\ LeavesOnce(e)
  BY <1>6 DEF ClientsSound, LeavesValid, LeavesOnce
<1>9. SubsMatch(e)
  <2> SUFFICES ASSUME NEW g \in DOMAIN e.ctxs, NEW t \in Topics
               PROVE  t \in e.ctxs[g].subs <=> \E q : Has(d.leaves[t], g, q)
    BY <1>6 DEF SubsMatch
  <2>1. CASE g = h
    BY <2>1, <1>1, <1>6, HasValid DEF ClientsSound
  <2>2. CASE g # h
    BY <2>2, <1>6 DEF ClientsSound, SubsMatch
  <2> QED
    BY <2>1, <2>2
<1>10. FreeValid(e)
  BY <1>6 DEF ClientsSound, FreeValid
<1>11. OneHome(e) /\ NoName(e)
  BY <1>6 DEF ClientsSound, OneHome, NoName
<1>12. Stay(d, e)
  BY <1>6 DEF Stay, Heir, Holds
<1> QED
  BY <1>5, <1>7, <1>8, <1>9, <1>10, <1>11, <1>12 DEF ClientsSound

\* Context h has got the subscriptions and the messages of the context old.
HandedOver(d, e, old, h) ==
    /\ DOMAIN e.ctxs = DOMAIN d.ctxs
    /\ \A g \in DOMAIN d.ctxs : g \notin {old, h} => e.ctxs[g] = d.ctxs[g]
    /\ e.ctxs[old] = [d.ctxs[old] EXCEPT !.msgs = <<>>, !.subs = {}]
    /\ e.ctxs[h] = [d.ctxs[h] EXCEPT !.msgs = d.ctxs[old].msgs,
                                     !.subs = d.ctxs[old].subs]
    /\ e.last = d.last /\ e.store = d.store /\ e.retained = d.retained
    /\ e.free = d.free
    /\ \A t \in Topics : Handed(e.leaves[t], d.leaves[t], old, h)

LEMMA HandOverIs ==
    ASSUME NEW d \in Dbs, NEW old \in DOMAIN d.ctxs, NEW h \in DOMAIN d.ctxs,
           old # h, ClientsSound(d), d.ctxs[h].subs = {},
           NEW e, e = HandOver(d, old, h)
    PROVE  e \in Dbs /\ HandedOver(d, e, old, h)
<1> DEFINE x == [d.ctxs[h] EXCEPT !.msgs = d.ctxs[old].msgs, !.subs = d.ctxs[old].subs]
           y == [d.ctxs[old] EXCEPT !.msgs = <<>>, !.subs = {}]
           new(t) == [i \in DOMAIN d.leaves[t] |->
                        IF d.leaves[t][i].ctx = old
                        THEN [d.leaves[t][i] EXCEPT !.ctx = h]
                        ELSE d.leaves[t][i]]
           leaves == [t \in Topics |-> new(t)]
           a == [d EXCEPT !.ctxs = [d.ctxs EXCEPT ![h] = x]]
           b == [a EXCEPT !.ctxs = [a.ctxs EXCEPT ![old] = y]]
<1>1. /\ d.ctxs[h] \in Ctxs /\ d.ctxs[old] \in Ctxs /\ h \in Contexts
      /\ d.leaves \in [Topics -> Seq(Leaves)]
  BY DbIs
<1>2. x \in Ctxs /\ y \in Ctxs
  <2>1. d.ctxs[old].msgs \in Seq(Msgs) /\ d.ctxs[old].subs \in SUBSET Topics
    BY <1>1 DEF Ctxs
  <2>2. <<>> \in Seq(Msgs) /\ {} \in SUBSET Topics
    OBVIOUS
  <2>3. x \in Ctxs
    BY <1>1, <2>1 DEF Ctxs
  <2>4. y \in Ctxs
    BY <1>1, <2>2 DEF Ctxs
  <2> QED
    BY <2>3, <2>4
<1>3. ASSUME NEW t \in Topics PROVE Handed(new(t), d.leaves[t], old, h)
  <2>1. d.leaves[t] \in Seq(Leaves) /\ Once(d.leaves[t])
    BY <1>1 DEF ClientsSound, LeavesOnce
  <2>2. \A q : ~Has(d.leaves[t], h, q)
    BY DEF ClientsSound, SubsMatch
  <2>3. \A i \in DOMAIN d.leaves[t] : d.leaves[t][i].ctx # h
    BY <2>2 DEF Has
  <2> QED
    BY <1>1, <2>1, <2>3, HandLeaf
<1>4. /\ leaves \in [Topics -> Seq(Leaves)]
      /\ \A t \in Topics : Handed(leaves[t], d.leaves[t], old, h)
  BY <1>3 DEF Handed
<1>5. e = [d EXCEPT !.leaves = leaves,
                    !.ctxs = [[d.ctxs EXCEPT ![h] = x] EXCEPT ![old] = y]]
  <2> DEFINE C == [d.ctxs EXCEPT ![h].msgs = d.ctxs[old].msgs, ![old].msgs = <<>>,
                                 ![h].subs = d.ctxs[old].subs, ![old].subs = {}]
             D == [[d.ctxs EXCEPT ![h] = x] EXCEPT ![old] = y]
  <2>1. e = [d EXCEPT !.ctxs = C, !.leaves = leaves]
    BY DEF HandOver
  <2>2. C = D
    OBVIOUS
  <2> HIDE DEF C, D, leaves
  <2>3. e = [d EXCEPT !.leaves = leaves, !.ctxs = D]
    BY <2>1, <2>2 DEF Dbs
  <2> QED
    BY <2>3 DEF D
<1> HIDE DEF x, y, leaves
<1>6. a \in Dbs /\ OnlyCtxs(d, a) /\ CtxSet(d, a, h, x)
  BY <1>2, SetCtx
<1>7. a.ctxs = [d.ctxs EXCEPT ![h] = x] /\ old \in DOMAIN a.ctxs
  BY <1>6 DEF Dbs, CtxSet
<1>8. b \in Dbs /\ OnlyCtxs(a, b) /\ CtxSet(a, b, old, y)
  <2> HIDE DEF a
  <2> QED
    BY <1>2, <1>6, <1>7, SetCtx
<1>9. e = [b EXCEPT !.leaves = leaves]
  BY <1>5, <1>7 DEF Dbs
<1> HIDE DEF a, b
<1>10. e \in Dbs /\ e.leaves = leaves /\ OnlyLeaves(b, e)
  BY <1>4, <1>8, <1>9, SetLeaves
<1> QED
  BY <1>4, <1>6, <1>8, <1>10 DEF HandedOver, OnlyLeaves, OnlyCtxs, CtxSet, x, y
LEMMA HandOverSound ==
    ASSUME NEW d, NEW old \in DOMAIN d.ctxs, NEW h \in DOMAIN d.ctxs, old # h,
           StoreSound(d, 0, 0), ClientsSound(d), d.ctxs[h].subs = {},
           d.ctxs[h].msgs = <<>>, NEW e, e = HandOver(d, old, h)
    PROVE  /\ StoreSound(e, 0, 0) /\ ClientsSound(e) /\ Zeros(e) = Zeros(d)
           /\ HandedOver(d, e, old, h)
<1>1. d \in Dbs /\ d.ctxs[h] \in Ctxs /\ d.ctxs[old] \in Ctxs
  BY DbIs DEF StoreSound
<1>2. e \in Dbs /\ HandedOver(d, e, old, h)
  BY <1>1, HandOverIs
<1>3. /\ DOMAIN e.ctxs = DOMAIN d.ctxs
      /\ \A g \in DOMAIN d.ctxs : g \notin {old, h} => e.ctxs[g] = d.ctxs[g]
      /\ e.last = d.last /\ e.store = d.store /\ e.retained = d.retained
      /\ e.free = d.free
  BY <1>2 DEF HandedOver
<1>4. /\ e.ctxs[h].msgs = d.ctxs[old].msgs /\ e.ctxs[h].subs = d.ctxs[old].subs
      /\ e.ctxs[h].id = d.ctxs[h].id /\ e.ctxs[h].clean = d.ctxs[h].clean
      /\ e.ctxs[h].sock = d.ctxs[h].sock
  BY <1>1, <1>2 DEF HandedOver, Ctxs
<1>5. /\ e.ctxs[old].msgs = <<>> /\ e.ctxs[old].subs = {}
      /\ e.ctxs[old].id = d.ctxs[old].id /\ e.ctxs[old].clean = d.ctxs[old].clean
      /\ e.ctxs[old].sock = d.ctxs[old].sock
  BY <1>1, <1>2 DEF HandedOver, Ctxs
<1>6. EntriesFinite(d)
  BY DEF StoreSound
<1>7. EntriesFinite(e) /\ \A u \in Nat : Refs(e, u) = Refs(d, u)
  BY <1>3, <1>4, <1>5, <1>6, RefsMoved
<1>8. ListsValid(e)
  <2> SUFFICES ASSUME NEW g \in DOMAIN e.ctxs, NEW i \in DOMAIN e.ctxs[g].msgs
               PROVE  e.ctxs[g].msgs[i].store \in DOMAIN d.store
    BY <1>3 DEF ListsValid
  <2>1. CASE g = old
    BY <2>1, <1>5
  <2>2. CASE g = h
    BY <2>2, <1>4 DEF StoreSound, ListsValid
  <2>3. CASE g \notin {old, h}
    BY <2>3, <1>3 DEF StoreSound, ListsValid
  <2> QED
    BY <2>1, <2>2, <2>3
<1>9. IdsBounded(e) /\ RetainedValid(e)
  BY <1>3 DEF IdsBounded, RetainedValid, StoreSound
<1>10. Counted(e, 0, 0)
  <2>1. DOMAIN d.store \subseteq Nat
    BY <1>1, DbIs
  <2> QED
    BY <1>3, <1>7, <2>1 DEF Counted, StoreSound
<1>11. StoreSound(e, 0, 0) /\ Zeros(e) = Zeros(d)
  BY <1>2, <1>3, <1>7, <1>8, <1>9, <1>10 DEF StoreSound, Zeros
<1>12. \A t \in Topics : \A g, q :
          Has(e.leaves[t], g, q) <=> \/ Has(d.leaves[t], g, q) /\ g # old
                                     \/ Has(d.leaves[t], old, q) /\ g = h
  BY <1>2 DEF HandedOver, Handed
<1>13. LeavesOnce(e)
  BY <1>2 DEF HandedOver, Handed, LeavesOnce
<1>14. LeavesValid(e)
  <2>1. \A t \in Topics : \A g, q : Has(d.leaves[t], g, q) => g \in DOMAIN d.ctxs
    BY <1>1, HasValid DEF ClientsSound
  <2>2. \A t \in Topics : \A g, q : Has(e.leaves[t], g, q) => g \in DOMAIN e.ctxs
    BY <2>1, <1>3, <1>12, SMTT(60)
  <2> QED
    BY <2>2, <1>2, HasValid
<1>15. SubsMatch(e)
  <2> SUFFICES ASSUME NEW g \in DOMAIN d.ctxs, NEW t \in Topics
               PROVE  t \in e.ctxs[g].subs <=> \E q : Has(e.leaves[t], g, q)
    BY <1>3 DEF SubsMatch
  <2>1. /\ t \in d.ctxs[g].subs <=> \E q : Has(d.leaves[t], g, q)
        /\ t \in d.ctxs[old].subs <=> \E q : Has(d.leaves[t], old, q)
        /\ \A q : ~Has(d.leaves[t], h, q)
    BY DEF ClientsSound, SubsMatch
  <2>2. CASE g = old
    BY <2>2, <1>5, <1>12
  <2>3. CASE g = h
    BY <2>1, <2>3, <1>4, <1>12
  <2>4. CASE g \notin {old, h}
    BY <2>1, <2>4, <1>3, <1>12
  <2> QED
    BY <2>2, <2>3, <2>4
<1>16. \A g \in DOMAIN d.ctxs : /\ e.ctxs[g].id = d.ctxs[g].id
                                /\ e.ctxs[g].clean = d.ctxs[g].clean
                                /\ e.ctxs[g].sock = d.ctxs[g].sock
  BY <1>3, <1>4, <1>5
<1>17. FreeValid(e)
  BY <1>3, <1>16 DEF ClientsSound, FreeValid
<1>18. OneHome(e)
  BY <1>3, <1>16 DEF ClientsSound, OneHome
<1>19. NoName(e)
  BY <1>3, <1>16 DEF ClientsSound, NoName
<1> QED
  BY <1>2, <1>11, <1>13, <1>14, <1>15, <1>17, <1>18, <1>19 DEF ClientsSound

\* Contexts but h are settled.
SettledBut(d, h) ==
    \A g \in DOMAIN d.ctxs : g # h /\ d.ctxs[g].sock
        => d.ctxs[g].id # NULL /\ d.ctxs[g].state = "connected"

\* Context h has in e what g had in d.
Follows(d, g, e, h) ==
    /\ \A s : Holds(d, g, s, "out") => Holds(e, h, s, "out")
    /\ \A t \in Topics : \A q : Has(d.leaves[t], g, q) => Has(e.leaves[t], h, q)

\* The result of Takeover: nobody has the name c any more, and h has what its
\* durable session had, unless it is to start a clean one.
TakenOver(d, e, h, c, clean) ==
    /\ StoreSound(e, 0, 0) /\ ClientsSound(e) /\ Zeros(e) \subseteq Zeros(d)
    /\ h \in DOMAIN e.ctxs /\ e.ctxs[h].id = NULL /\ e.ctxs[h].sock
    /\ \A g \in DOMAIN e.ctxs : e.ctxs[g].id # c
    /\ SettledBut(e, h)
    /\ \A g \in DOMAIN d.ctxs : ~d.ctxs[g].clean /\ d.ctxs[g].id # c
          => Heir(d, g, e, g) /\ g # h
    /\ ~clean => \A g \in DOMAIN d.ctxs : ~d.ctxs[g].clean /\ d.ctxs[g].id = c
                    => Follows(d, g, e, h)

LEMMA TakeoverSound ==
    ASSUME NEW d, NEW h \in DOMAIN d.ctxs, StoreSound(d, 0, 0), ClientsSound(d),
           d.ctxs[h].id = NULL, d.ctxs[h].sock, d.ctxs[h].subs = {},
           d.ctxs[h].msgs = <<>>, SettledBut(d, h), NEW c \in Clients,
           NEW clean \in BOOLEAN, NEW e, e = Takeover(d, h, c, clean)
    PROVE  TakenOver(d, e, h, c, clean)
<1>1. c # NULL /\ d.ctxs[h].clean /\ ClientsSound(d) /\ OneHome(d)
  BY StoreAssumption DEF ClientsSound, NoName
<1>2. CASE ById(d, c) = {}
  <2>1. e = d /\ \A g \in DOMAIN d.ctxs : d.ctxs[g].id # c
    BY <1>2 DEF Takeover, ById
  <2>2. \A g \in DOMAIN d.ctxs : ~d.ctxs[g].clean => Heir(d, g, d, g) /\ g # h
    BY <1>1 DEF Heir
  <2> QED
    BY <2>1, <2>2 DEF TakenOver
<1>3. CASE ById(d, c) # {}
  <2> DEFINE old == CHOOSE g \in ById(d, c) : TRUE
             moved == IF ~clean /\ ~d.ctxs[old].clean THEN HandOver(d, old, h) ELSE d
  <2>1. old \in DOMAIN d.ctxs /\ d.ctxs[old].id = c /\ old # h
    BY <1>1, <1>3 DEF ById
  <2>2. e = End(moved, old, "disconnecting")
    BY <1>3 DEF Takeover
  <2> HIDE DEF old
  <2>3. \A g \in DOMAIN d.ctxs : d.ctxs[g].id = c => g = old
    BY <1>1, <2>1 DEF OneHome
  <2>4. d.ctxs[old] \in Ctxs /\ d.ctxs[h] \in Ctxs
    BY <2>1, DbIs DEF StoreSound
  <2>5. /\ StoreSound(moved, 0, 0) /\ ClientsSound(moved) /\ Zeros(moved) = Zeros(d)
        /\ (~clean /\ ~d.ctxs[old].clean => HandedOver(d, moved, old, h))
    <3>1. CASE ~clean /\ ~d.ctxs[old].clean
      BY <3>1, <2>1, HandOverSound
    <3>2. CASE ~(~clean /\ ~d.ctxs[old].clean)
      BY <3>2
    <3> QED
      BY <3>1, <3>2
  <2>6. /\ DOMAIN moved.ctxs = DOMAIN d.ctxs
        /\ \A g \in DOMAIN d.ctxs : g \notin {old, h} => moved.ctxs[g] = d.ctxs[g]
        /\ moved.ctxs[h].id = NULL /\ moved.ctxs[h].sock
        /\ moved.ctxs[old].id = c
    <3>1. CASE ~clean /\ ~d.ctxs[old].clean
      BY <3>1, <2>1, <2>4, <2>5 DEF HandedOver, Ctxs
    <3>2. CASE ~(~clean /\ ~d.ctxs[old].clean)
      BY <3>2, <2>1
    <3> QED
      BY <3>1, <3>2
  <2>7. \A t \in Topics : \A g, q : g \notin {old, h} /\ Has(d.leaves[t], g, q)
            => Has(moved.leaves[t], g, q)
    <3>1. CASE ~clean /\ ~d.ctxs[old].clean
      BY <3>1, <2>5 DEF HandedOver, Handed
    <3>2. CASE ~(~clean /\ ~d.ctxs[old].clean)
      BY <3>2
    <3> QED
      BY <3>1, <3>2
  <2>8. ~clean /\ ~d.ctxs[old].clean => Follows(d, old, moved, h)
    <3> SUFFICES ASSUME ~clean, ~d.ctxs[old].clean PROVE Follows(d, old, moved, h)
      OBVIOUS
    <3>1. HandedOver(d, moved, old, h)
      BY <2>5
    <3>2. moved.ctxs[h].msgs = d.ctxs[old].msgs
      BY <3>1, <2>4 DEF HandedOver, Ctxs
    <3>3. \A t \in Topics : \A q : Has(d.leaves[t], old, q) => Has(moved.leaves[t], h, q)
      BY <3>1 DEF HandedOver, Handed
    <3> QED
      BY <3>2, <3>3 DEF Follows, Holds
  <2> HIDE DEF moved
  <2>9. /\ StoreSound(e, 0, 0) /\ ClientsSound(e) /\ Zeros(e) \subseteq Zeros(moved)
        /\ Ended(moved, e, old)
    BY <1>1, <2>1, <2>2, <2>5, <2>6, EndSound
  <2>10. /\ DOMAIN e.ctxs = DOMAIN d.ctxs /\ e.leaves = moved.leaves
         /\ e.ctxs[old].id = NULL /\ ~e.ctxs[old].sock
         /\ \A g \in DOMAIN d.ctxs : g # old =>
               /\ SameClient(e.ctxs[g], moved.ctxs[g])
               /\ Grown(moved.ctxs[g].msgs, e.ctxs[g].msgs)
    BY <2>6, <2>9 DEF Ended
  <2>11. e.ctxs[h].id = NULL /\ e.ctxs[h].sock
    BY <2>1, <2>6, <2>10 DEF SameClient
  <2>12. \A g \in DOMAIN e.ctxs : e.ctxs[g].id # c
    BY <1>1, <2>3, <2>6, <2>10, <2>11 DEF SameClient
  <2>13. SettledBut(e, h)
    BY <2>6, <2>10 DEF SettledBut, SameClient
  <2>14. ASSUME NEW g \in DOMAIN d.ctxs, ~d.ctxs[g].clean, d.ctxs[g].id # c
         PROVE  Heir(d, g, e, g) /\ g # h
    <3>1. g \notin {old, h}
      BY <2>14, <2>1, <1>1
    <3>2. moved.ctxs[g] = d.ctxs[g]
      BY <3>1, <2>6
    <3>3. \A s : Holds(d, g, s, "out") => Holds(e, g, s, "out")
      BY <3>1, <3>2, <2>10 DEF Holds, Grown
    <3> QED
      BY <2>14, <3>1, <3>2, <3>3, <2>7, <2>10, SMTT(60) DEF Heir, SameClient
  <2>15. ASSUME ~clean, NEW g \in DOMAIN d.ctxs, ~d.ctxs[g].clean, d.ctxs[g].id = c
         PROVE  Follows(d, g, e, h)
    <3>1. g = old /\ Follows(d, old, moved, h)
      BY <2>15, <2>3, <2>8
    <3>2. \A s : Holds(moved, h, s, "out") => Holds(e, h, s, "out")
      BY <2>1, <2>10 DEF Holds, Grown
    <3> QED
      BY <3>1, <3>2, <2>10 DEF Follows
  <2> QED
    BY <2>5, <2>9, <2>10, <2>11, <2>12, <2>13, <2>14, <2>15 DEF TakenOver
<1> QED
  BY <1>2, <1>3
LEMMA ConnectedSound ==
    ASSUME NEW d, NEW h \in DOMAIN d.ctxs, StoreSound(d, 0, 0), ClientsSound(d),
           d.ctxs[h].id = NULL, d.ctxs[h].sock, d.ctxs[h].subs = {},
           d.ctxs[h].msgs = <<>>, SettledBut(d, h), NEW c \in Clients,
           NEW clean \in BOOLEAN, NEW will \in WillMessages \cup {NULL},
           NEW e, e = Connected(d, h, c, clean, will)
    PROVE  /\ StoreSound(e, 0, 0) /\ ClientsSound(e) /\ Settled(e)
           /\ Zeros(e) \subseteq Zeros(d)
           /\ Inherited(d, e, IF clean THEN Clients \ {c} ELSE Clients)
<1> DEFINE t == Takeover(d, h, c, clean)
           n == [t EXCEPT !.ctxs[h].id = c, !.ctxs[h].clean = clean,
                          !.ctxs[h].will = will, !.ctxs[h].state = "connected"]
           x == [t.ctxs[h] EXCEPT !.id = c, !.clean = clean, !.will = will,
                                  !.state = "connected"]
<1>1. e = IF clean THEN n ELSE Changed(n)
  BY DEF Connected
<1>2. TakenOver(d, t, h, c, clean)
  BY TakeoverSound
<1>3. c # NULL
  BY StoreAssumption
<1> HIDE DEF t
<1>4. /\ StoreSound(t, 0, 0) /\ ClientsSound(t) /\ Zeros(t) \subseteq Zeros(d)
      /\ h \in DOMAIN t.ctxs /\ t.ctxs[h].id = NULL /\ t.ctxs[h].sock
      /\ \A g \in DOMAIN t.ctxs : t.ctxs[g].id # c
      /\ t \in Dbs
  BY <1>2 DEF TakenOver, StoreSound
<1>5. t.ctxs[h] \in Ctxs
  BY <1>4, DbIs
<1>6. /\ x \in Ctxs /\ x.id = c /\ x.clean = clean /\ x.sock = t.ctxs[h].sock
      /\ x.state = "connected" /\ x.subs = t.ctxs[h].subs /\ x.msgs = t.ctxs[h].msgs
  BY <1>5 DEF Ctxs, States
<1>7. n = [t EXCEPT !.ctxs = [t.ctxs EXCEPT ![h] = x]]
  BY <1>4, ZenonT(60) DEF Dbs
<1> HIDE DEF n, x
<1>8. n \in Dbs /\ OnlyCtxs(t, n) /\ CtxSet(t, n, h, x)
  BY <1>4, <1>6, <1>7, SetCtx
<1>9. Recast(t, n, h, x)
  BY <1>6, <1>8 DEF Recast, OnlyCtxs
<1>10. StoreSound(n, 0, 0) /\ Zeros(n) = Zeros(t)
  BY <1>4, <1>8, <1>9, RecastStore
<1>11. /\ e \in Dbs /\ e.last = n.last /\ e.ctxs = n.ctxs /\ e.leaves = n.leaves
       /\ e.retained = n.retained /\ e.free = n.free /\ e.store = n.store
  BY <1>1, <1>8, SetChanges
<1>12. StoreSound(e, 0, 0) /\ Zeros(e) \subseteq Zeros(d)
  <2>1. SameStore(n, e)
    BY <1>11 DEF SameStore, SameLists
  <2> QED
    BY <2>1, <1>4, <1>10, <1>11, StoreSoundSame
<1>13. /\ DOMAIN e.ctxs = DOMAIN t.ctxs /\ e.ctxs[h] = x
       /\ \A g \in DOMAIN t.ctxs : g # h => e.ctxs[g] = t.ctxs[g]
       /\ e.leaves = t.leaves /\ e.free = t.free
  BY <1>8, <1>11 DEF CtxSet, OnlyCtxs
<1>14. LeavesValid(e) /\ LeavesOnce(e)
  BY <1>4, <1>13 DEF ClientsSound, LeavesValid, LeavesOnce
<1>15. SubsMatch(e)
  <2>1. \A g \in DOMAIN t.ctxs : e.ctxs[g].subs = t.ctxs[g].subs
    BY <1>6, <1>13
  <2> QED
    BY <2>1, <1>4, <1>13 DEF ClientsSound, SubsMatch
<1>16. FreeValid(e)
  <2>1. \A k \in DOMAIN t.free : t.free[k] # h
    BY <1>4, NotFree
  <2> QED
    BY <2>1, <1>4, <1>13 DEF ClientsSound, FreeValid
<1>17. OneHome(e)
  BY <1>4, <1>6, <1>13 DEF ClientsSound, OneHome
<1>18. NoName(e)
  BY <1>3, <1>4, <1>6, <1>13 DEF ClientsSound, NoName
<1>19. Settled(e)
  BY <1>2, <1>3, <1>6, <1>13 DEF TakenOver, SettledBut, Settled
<1>20. \A g \in DOMAIN t.ctxs : \A s : Holds(t, g, s, "out") => Holds(e, g, s, "out")
  <2>1. \A g \in DOMAIN t.ctxs : e.ctxs[g].msgs = t.ctxs[g].msgs
    BY <1>6, <1>13
  <2> QED
    BY <2>1 DEF Holds
<1>21. ASSUME NEW g \in DOMAIN d.ctxs, ~d.ctxs[g].clean,
              d.ctxs[g].id \in IF clean THEN Clients \ {c} ELSE Clients
       PROVE  \E f : Heir(d, g, e, f)
  <2>1. CASE d.ctxs[g].id # c
    <3>1. Heir(d, g, t, g) /\ g # h
      BY <2>1, <1>2, <1>21 DEF TakenOver
    <3>2. g \in DOMAIN t.ctxs /\ e.ctxs[g] = t.ctxs[g]
      BY <3>1, <1>13 DEF Heir
    <3>3. Heir(d, g, e, g)
      BY <3>1, <3>2, <1>13, <1>20 DEF Heir
    <3> QED
      BY <3>3
  <2>2. CASE d.ctxs[g].id = c
    <3>1. ~clean /\ Follows(d, g, t, h)
      BY <2>2, <1>2, <1>21 DEF TakenOver
    <3>2. Heir(d, g, e, h)
      BY <2>2, <3>1, <1>4, <1>6, <1>13, <1>20 DEF Heir, Follows
    <3> QED
      BY <3>2
  <2> QED
    BY <2>1, <2>2
<1>22. Inherited(d, e, IF clean THEN Clients \ {c} ELSE Clients)
  BY <1>21 DEF Inherited
<1> QED
  BY <1>12, <1>14, <1>15, <1>16, <1>17, <1>18, <1>19, <1>22 DEF ClientsSound

\* A connection is accepted and its CONNECT handled.
LEMMA ConnectSound ==
    ASSUME NEW d, StoreSound(d, 0, 0), ClientsSound(d), Settled(d),
           NEW h \in Contexts, h \notin DOMAIN d.ctxs, NEW c \in Clients,
           NEW clean \in BOOLEAN, NEW will \in WillMessages \cup {NULL}, NEW e,
           e = Connected([d EXCEPT !.ctxs = With(d.ctxs, h, mqtt3_context_init(TRUE))],
                         h, c, clean, will)
    PROVE  /\ StoreSound(e, 0, 0) /\ ClientsSound(e) /\ Settled(e)
           /\ Zeros(e) \subseteq Zeros(d)
           /\ Inherited(d, e, IF clean THEN Clients \ {c} ELSE Clients)
<1> DEFINE x == mqtt3_context_init(TRUE)
           f == [d EXCEPT !.ctxs = With(d.ctxs, h, x)]
           C == IF clean THEN Clients \ {c} ELSE Clients
<1>1. /\ x \in Ctxs /\ x.subs = {} /\ x.msgs = <<>> /\ x.id = NULL /\ x.clean
      /\ x.sock
  <2>1. <<>> \in Seq(Msgs) /\ {} \in SUBSET Topics
    OBVIOUS
  <2> QED
    BY <2>1 DEF mqtt3_context_init, Ctxs, States
<1>2. e = Connected(f, h, c, clean, will)
  OBVIOUS
<1> HIDE DEF x
<1>3. /\ StoreSound(f, 0, 0) /\ ClientsSound(f) /\ Zeros(f) = Zeros(d)
      /\ Added(d, f, h, x) /\ Stay(d, f)
  BY <1>1, AddSound
<1> HIDE DEF f
<1>4. /\ DOMAIN f.ctxs = DOMAIN d.ctxs \cup {h} /\ f.ctxs[h] = x
      /\ \A g \in DOMAIN d.ctxs : f.ctxs[g] = d.ctxs[g]
  BY <1>3 DEF Added, Entered
<1>5. SettledBut(f, h)
  BY <1>4 DEF Settled, SettledBut
<1>6. /\ StoreSound(e, 0, 0) /\ ClientsSound(e) /\ Settled(e)
      /\ Zeros(e) \subseteq Zeros(f) /\ Inherited(f, e, C)
  <2>1. /\ h \in DOMAIN f.ctxs /\ f.ctxs[h].id = NULL /\ f.ctxs[h].sock
        /\ f.ctxs[h].subs = {} /\ f.ctxs[h].msgs = <<>>
    BY <1>1, <1>4
  <2> QED
    BY <2>1, <1>2, <1>3, <1>5, ConnectedSound
<1> HIDE DEF C
<1>7. ASSUME NEW g \in DOMAIN d.ctxs, d.ctxs[g].id \in C, ~d.ctxs[g].clean
      PROVE  \E k : Heir(d, g, e, k)
  <2>1. g \in DOMAIN f.ctxs /\ f.ctxs[g] = d.ctxs[g] /\ Heir(d, g, f, g)
    BY <1>3, <1>4, <1>7 DEF Stay
  <2>2. PICK k : Heir(f, g, e, k)
    BY <2>1, <1>6, <1>7 DEF Inherited
  <2>3. Heir(d, g, e, k)
    BY <2>1, <2>2 DEF Heir
  <2> QED
    BY <2>3
<1>8. Inherited(d, e, C)
  BY <1>7 DEF Inherited
<1> QED
  BY <1>3, <1>6, <1>8 DEF C
----------------------------------------------------------------------------
(***************************************************************************)
(* The handlers keep the invariant.                                        *)
(***************************************************************************)
SessionsTyped(w, o) ==
    /\ w \in [Clients -> [Topics -> 0..2 \cup {NULL}]]
    /\ o \in [Clients -> SUBSET Nat]

BrokerInv(d, w, o) ==
    /\ StoreSound(d, 0, 0) /\ ClientsSound(d) /\ Settled(d)
    /\ SessionsTyped(w, o) /\ Wants(d, w) /\ Owes(d, o)

\* What a step does to the database only: no message is left without a
\* reference, and every client stays or has a successor.
Sound(d, e) ==
    /\ StoreSound(e, 0, 0) /\ ClientsSound(e) /\ (Settled(d) => Settled(e))
    /\ Zeros(e) \subseteq Zeros(d)

\* The sessions are those before.
LEMMA InvStay ==
    ASSUME NEW d, NEW e, NEW w, NEW o, BrokerInv(d, w, o), Sound(d, e), Stay(d, e)
    PROVE  BrokerInv(e, w, o)
<1>1. Wants(e, w) /\ Owes(e, o)
  BY StaySessions DEF BrokerInv
<1> QED
  BY <1>1 DEF BrokerInv, Sound

\* A message is routed.
LEMMA InvServed ==
    ASSUME NEW d, NEW e, NEW w, NEW o, BrokerInv(d, w, o), Sound(d, e), Stay(d, e),
           NEW t \in Topics, NEW qos \in 0..2, NEW s \in Nat,
           AllServed(d, e, t, qos, s), NEW p, p = Owed(w, o, s, t, qos)
    PROVE  BrokerInv(e, w, p)
<1>1. Wants(e, w)
  BY StaySessions DEF BrokerInv
<1>2. Owes(e, p)
  <2>1. /\ NoName(d) /\ w \in [Clients -> [Topics -> 0..2 \cup {NULL}]]
        /\ Wants(d, w) /\ Owes(d, o)
    BY DEF BrokerInv, ClientsSound, SessionsTyped
  <2> QED
    BY <2>1, ServedOwes
<1>3. p \in [Clients -> SUBSET Nat]
  BY DEF Owed, BrokerInv, SessionsTyped
<1> QED
  BY <1>1, <1>2, <1>3 DEF BrokerInv, Sound, SessionsTyped

\* The session of one client is over.
Over(w, v, o, p, c) ==
    /\ v = [w EXCEPT ![c] = [t \in Topics |-> NULL]]
    /\ p = [o EXCEPT ![c] = {}]

LEMMA InvOver ==
    ASSUME NEW d, NEW e, NEW w, NEW o, BrokerInv(d, w, o), Sound(d, e),
           NEW c \in Clients, Inherited(d, e, Clients \ {c}), NEW v, NEW p,
           Over(w, v, o, p, c)
    PROVE  BrokerInv(e, v, p)
<1> DEFINE C == Clients \ {c}
<1>1. /\ Wants(d, w) /\ Owes(d, o)
      /\ w \in [Clients -> [Topics -> 0..2 \cup {NULL}]]
      /\ o \in [Clients -> SUBSET Nat]
  BY DEF BrokerInv, SessionsTyped
<1>2. SessionsTyped(v, p)
  BY <1>1 DEF SessionsTyped, Over
<1>3. /\ \A a \in C : v[a] = w[a] /\ p[a] = o[a]
      /\ \A a \in Clients \ C : (\A t \in Topics : v[a][t] = NULL) /\ p[a] = {}
  BY <1>1 DEF Over
<1> HIDE DEF C
<1>4. Inherited(d, e, C)
  BY DEF C
<1>5. Wants(e, v)
  BY <1>1, <1>3, <1>4, InheritWants, SMTT(60)
<1>6. Owes(e, p)
  <2>1. \A a \in C : p[a] = o[a]
    BY <1>3
  <2>2. \A a \in Clients \ C : \A s : s \notin p[a]
    BY <1>3
  <2>3. Owes(d, o)
    BY <1>1
  <2> QED
    BY <2>1, <2>2, <2>3, <1>4, InheritOwes
<1> QED
  BY <1>2, <1>5, <1>6 DEF BrokerInv, Sound

LEMMA ChangedSound ==
    ASSUME NEW d, StoreSound(d, 0, 0), ClientsSound(d), NEW e, e = Changed(d)
    PROVE  Sound(d, e) /\ ClientsKept(d, e)
<1>1. /\ e \in Dbs /\ e.last = d.last /\ e.ctxs = d.ctxs /\ e.leaves = d.leaves
      /\ e.retained = d.retained /\ e.free = d.free /\ e.store = d.store
  BY SetChanges DEF StoreSound
<1>2. SameStore(d, e)
  BY <1>1 DEF SameStore, SameLists
<1>3. ClientsKept(d, e)
  BY <1>1 DEF ClientsKept, SameClient, Grown
<1>4. StoreSound(e, 0, 0) /\ Zeros(e) = Zeros(d)
  BY <1>1, <1>2, StoreSoundSame
<1>5. ClientsSound(e) /\ (Settled(d) => Settled(e))
  BY <1>3, KeptSound
<1> QED
  BY <1>3, <1>4, <1>5 DEF Sound

LEMMA NextUnusedIs ==
    ASSUME NEW d, Unused(d) # {}
    PROVE  NextUnused(d) \in Contexts /\ NextUnused(d) \notin DOMAIN d.ctxs
<1>1. Unused(d) \subseteq Nat
  BY StoreAssumption DEF Unused
<1>2. \E h \in Unused(d) : \A g \in Unused(d) : h <= g
  BY <1>1, Least
<1>3. NextUnused(d) \in Unused(d)
  BY <1>2 DEF NextUnused
<1> QED
  BY <1>3 DEF Unused

LEMMA ConnectKeeps ==
    ASSUME BrokerInv(db, wanted, owed), NEW c \in Clients, NEW clean \in BOOLEAN,
           NEW will \in WillMessages \cup {NULL}, mqtt3_handle_connect(c, clean, will)
    PROVE  BrokerInv(db', wanted', owed') /\ Zeros(db') \subseteq Zeros(db)
<1> DEFINE h == NextUnused(db)
<1>1. h \in Contexts /\ h \notin DOMAIN db.ctxs
  BY NextUnusedIs DEF mqtt3_handle_connect
<1>2. db' = Connected([db EXCEPT !.ctxs = With(db.ctxs, h, mqtt3_context_init(TRUE))],
                      h, c, clean, will)
  BY DEF mqtt3_handle_connect
<1>3. StoreSound(db, 0, 0) /\ ClientsSound(db) /\ Settled(db)
  BY DEF BrokerInv
<1> HIDE DEF h
<1>4. /\ StoreSound(db', 0, 0) /\ ClientsSound(db') /\ Settled(db')
      /\ Zeros(db') \subseteq Zeros(db)
      /\ Inherited(db, db', IF clean THEN Clients \ {c} ELSE Clients)
  BY <1>1, <1>2, <1>3, ConnectSound
<1>5. Sound(db, db')
  BY <1>4 DEF Sound
<1>6. CASE clean
  <2>1. Over(wanted, wanted', owed, owed', c) /\ Inherited(db, db', Clients \ {c})
    BY <1>4, <1>6 DEF mqtt3_handle_connect, Over
  <2> QED
    BY <2>1, <1>4, <1>5, InvOver
<1>7. CASE ~clean
  <2>1. wanted' = wanted /\ owed' = owed /\ Inherited(db, db', Clients)
    BY <1>4, <1>7 DEF mqtt3_handle_connect, session
  <2>2. Wants(db, wanted) /\ Owes(db, owed) /\ Clients \ Clients = {}
    BY DEF BrokerInv
  <2>3. Wants(db', wanted)
    BY <2>1, <2>2, InheritWants
  <2>4. Owes(db', owed)
    BY <2>1, <2>2, InheritOwes
  <2> QED
    BY <2>1, <2>3, <2>4, <1>4 DEF BrokerInv
<1> QED
  BY <1>6, <1>7

\* Who is live has sent its CONNECT.
LEMMA LiveIs ==
    ASSUME BrokerInv(db, wanted, owed), NEW h \in DOMAIN db.ctxs, db.ctxs[h].sock
    PROVE  /\ db.ctxs[h].id # NULL /\ db.ctxs[h].id \in Clients
           /\ db.ctxs[h].state = "connected" /\ db.ctxs[h] \in Ctxs /\ db \in Dbs
<1>1. db \in Dbs /\ db.ctxs[h] \in Ctxs
  BY DbIs DEF BrokerInv, StoreSound
<1>2. db.ctxs[h].id # NULL /\ db.ctxs[h].state = "connected"
  BY DEF BrokerInv, Settled
<1> QED
  BY <1>1, <1>2, CtxIs

LEMMA DisconnectKeeps ==
    ASSUME BrokerInv(db, wanted, owed), NEW h \in DOMAIN db.ctxs,
           mqtt3_handle_disconnect(h)
    PROVE  BrokerInv(db', wanted', owed') /\ Zeros(db') \subseteq Zeros(db)
<1> DEFINE x == [db.ctxs[h] EXCEPT !.state = "disconnecting"]
           f == [db EXCEPT !.ctxs[h].state = "disconnecting"]
<1>1. /\ StoreSound(db, 0, 0) /\ ClientsSound(db) /\ db.ctxs[h].id # NULL
      /\ db \in Dbs /\ db.ctxs[h] \in Ctxs
  BY LiveIs DEF BrokerInv, mqtt3_handle_disconnect, Live
<1>2. /\ x \in Ctxs /\ x.id = db.ctxs[h].id /\ x.subs = db.ctxs[h].subs
      /\ x.msgs = db.ctxs[h].msgs /\ x.sock = db.ctxs[h].sock
      /\ x.clean = db.ctxs[h].clean /\ x.state = "disconnecting"
  BY <1>1 DEF Ctxs, States
<1>3. f = [db EXCEPT !.ctxs = [db.ctxs EXCEPT ![h] = x]]
  BY <1>1 DEF Dbs
<1>4. db' = do_disconnect(f, h)
  BY DEF mqtt3_handle_disconnect
<1> HIDE DEF x, f
<1>5. f \in Dbs /\ OnlyCtxs(db, f) /\ CtxSet(db, f, h, x)
  BY <1>1, <1>2, <1>3, SetCtx
<1>6. Recast(db, f, h, x)
  BY <1>2, <1>5 DEF Recast, OnlyCtxs
<1>7. StoreSound(f, 0, 0) /\ Zeros(f) = Zeros(db)
  BY <1>1, <1>5, <1>6, RecastStore
<1>8. FreeValid(f)
  <2>1. \A k \in DOMAIN db.free : db.free[k] # h
    BY <1>1, NotFree
  <2> QED
    BY <2>1, <1>1, <1>5 DEF ClientsSound, FreeValid, OnlyCtxs, CtxSet
<1>9. ClientsSound(f)
  <2>1. x.id = NULL => x.clean
    BY <1>1, <1>2
  <2> QED
    BY <2>1, <1>1, <1>2, <1>6, <1>8, RecastClients
<1>10. h \in DOMAIN f.ctxs /\ f.ctxs[h].id # NULL /\ f.ctxs[h].state # "disconnected"
  BY <1>1, <1>2, <1>5 DEF CtxSet
<1>11. StoreSound(db', 0, 0) /\ ClientsSound(db') /\ Left(f, db', h)
  BY <1>4, <1>7, <1>9, <1>10, DisconnectSound
<1>12. Left(db, db', h)
  BY <1>2, <1>5, <1>7, <1>11 DEF Left, CtxSet, OnlyCtxs
<1>13. Stay(db, db') /\ Sound(db, db')
  BY <1>11, <1>12, LeftStay DEF Sound, Left
<1>14. wanted' = wanted /\ owed' = owed
  BY DEF mqtt3_handle_disconnect, session
<1> QED
  BY <1>13, <1>14, InvStay DEF Sound

LEMMA SocketErrorKeeps ==
    ASSUME BrokerInv(db, wanted, owed), NEW h \in DOMAIN db.ctxs, socket_error(h)
    PROVE  BrokerInv(db', wanted', owed') /\ Zeros(db') \subseteq Zeros(db)
<1> DEFINE will == db.ctxs[h].will
<1>1. /\ StoreSound(db, 0, 0) /\ ClientsSound(db) /\ db.ctxs[h].id # NULL
      /\ db.ctxs[h].state = "connected" /\ db.ctxs[h] \in Ctxs /\ db \in Dbs
  BY LiveIs DEF BrokerInv, socket_error
<1>2. db' = do_disconnect(db, h) /\ wanted' = wanted
  BY DEF socket_error
<1>3. /\ StoreSound(db', 0, 0) /\ ClientsSound(db') /\ Left(db, db', h)
      /\ WillServed(db, db', h)
  BY <1>1, <1>2, DisconnectSound
<1>4. Stay(db, db') /\ Sound(db, db')
  BY <1>3, LeftStay DEF Sound, Left
<1>5. CASE will = NULL
  <2>1. owed' = owed
    BY <1>5 DEF socket_error
  <2> QED
    BY <2>1, <1>2, <1>4, InvStay DEF Sound
<1>6. CASE will # NULL
  <2>1. will \in WillMessages
    BY <1>1, <1>6, CtxIs
  <2>2. will.topic \in Topics /\ will.qos \in 0..2
    BY <2>1 DEF WillMessages
  <2>3. AllServed(db, db', will.topic, will.qos, db.last + 1)
    BY <1>1, <1>3, <1>6 DEF WillServed
  <2>4. db.last + 1 \in Nat
    BY <1>1, DbIs
  <2>5. owed' = Owed(wanted, owed, db.last + 1, will.topic, will.qos)
    BY <1>6 DEF socket_error, Owing, Owed
  <2> HIDE DEF will
  <2>6. BrokerInv(db', wanted, owed')
    BY <2>2, <2>3, <2>4, <2>5, <1>4, InvServed
  <2> QED
    BY <2>6, <1>2, <1>4 DEF Sound
<1> QED
  BY <1>5, <1>6
LEMMA StayTrans ==
    ASSUME NEW d, NEW e, NEW f, Stay(d, e), Stay(e, f)
    PROVE  Stay(d, f)
<1> SUFFICES ASSUME NEW h \in DOMAIN d.ctxs, ~d.ctxs[h].clean PROVE Heir(d, h, f, h)
  BY DEF Stay
<1>1. Heir(d, h, e, h)
  BY DEF Stay
<1>2. Heir(e, h, f, h)
  BY <1>1 DEF Stay, Heir
<1> QED
  BY <1>1, <1>2 DEF Heir

LEMMA SoundTrans ==
    ASSUME NEW d, NEW e, NEW f, Sound(d, e), Sound(e, f)
    PROVE  Sound(d, f)
  BY DEF Sound

LEMMA PublishKeeps ==
    ASSUME BrokerInv(db, wanted, owed), NEW h \in DOMAIN db.ctxs, NEW t \in Topics,
           NEW qos \in PubQos, NEW k \in Kinds,
           mqtt3_handle_publish(h, t, qos, k.retain, k.payload)
    PROVE  BrokerInv(db', wanted', owed') /\ Zeros(db') \subseteq Zeros(db)
<1>1. /\ StoreSound(db, 0, 0) /\ ClientsSound(db) /\ LeavesValid(db)
      /\ db.ctxs[h].id # NULL /\ db \in Dbs
  BY LiveIs DEF BrokerInv, ClientsSound, mqtt3_handle_publish, Live
<1>2. qos \in 0..2 /\ k.retain \in BOOLEAN /\ k.payload \in BOOLEAN
  BY StoreAssumption
<1>3. db' = Accepted(db, h, t, qos, k.retain, k.payload) /\ wanted' = wanted
  BY DEF mqtt3_handle_publish
<1>4. t \in Topics \cup {NULL} /\ t # NULL
  BY StoreAssumption
<1>5. /\ StoreSound(db', 0, 0) /\ Published(db, db')
      /\ qos # 2 => AllServed(db, db', t, qos, db.last + 1)
  BY <1>1, <1>2, <1>3, <1>4, AcceptedSound
<1>6. ClientsKept(db, db') /\ Zeros(db') \subseteq Zeros(db)
  BY <1>5 DEF Published
<1>7. Sound(db, db') /\ Stay(db, db')
  BY <1>1, <1>5, <1>6, KeptSound, KeptStay DEF Sound
<1>8. CASE qos = 1
  <2>1. owed' = Owed(wanted, owed, db.last + 1, t, qos)
    BY <1>8 DEF mqtt3_handle_publish, Owing, Owed
  <2>2. db.last + 1 \in Nat /\ AllServed(db, db', t, qos, db.last + 1)
    BY <1>1, <1>5, <1>8, DbIs
  <2>3. BrokerInv(db', wanted, owed')
    BY <1>2, <1>7, <2>1, <2>2, InvServed
  <2> QED
    BY <2>3, <1>3, <1>6
<1>9. CASE qos # 1
  <2>1. owed' = owed
    BY <1>9 DEF mqtt3_handle_publish
  <2> QED
    BY <2>1, <1>3, <1>6, <1>7, InvStay
<1> QED
  BY <1>8, <1>9

LEMMA DeniedKeeps ==
    ASSUME BrokerInv(db, wanted, owed), NEW h \in DOMAIN db.ctxs, PublishDenied(h)
    PROVE  BrokerInv(db', wanted', owed') /\ Zeros(db') \subseteq Zeros(db)
<1>1. /\ StoreSound(db, 0, 0) /\ ClientsSound(db) /\ LeavesValid(db)
      /\ db.ctxs[h].id # NULL
  BY LiveIs DEF BrokerInv, ClientsSound, PublishDenied, Live
<1>2. /\ db' = Accepted(db, h, NULL, 2, FALSE, FALSE)
      /\ wanted' = wanted /\ owed' = owed
  BY DEF PublishDenied, session
<1>3. NULL \in Topics \cup {NULL} /\ 2 \in 0..2 /\ FALSE \in BOOLEAN
  OBVIOUS
<1>4. StoreSound(db', 0, 0) /\ Published(db, db')
  BY <1>1, <1>2, <1>3, AcceptedSound
<1>5. ClientsKept(db, db') /\ Zeros(db') \subseteq Zeros(db)
  BY <1>4 DEF Published
<1>6. Sound(db, db') /\ Stay(db, db')
  BY <1>1, <1>4, <1>5, KeptSound, KeptStay DEF Sound
<1> QED
  BY <1>2, <1>5, <1>6, InvStay

\* What is removed at one position is the only entry that goes.
LEMMA RemoveKeeps ==
    ASSUME NEW T, NEW s \in Seq(T), NEW i \in DOMAIN s, NEW j \in DOMAIN s, j # i
    PROVE  \E k \in DOMAIN RemoveAt(s, i) : RemoveAt(s, i)[k] = s[j]
<1> DEFINE new == RemoveAt(s, i)
<1>1. Len(s) \in Nat /\ DOMAIN s = 1..Len(s)
  BY LenProperties
<1>2. /\ new \in Seq(T) /\ Len(new) = Len(s) - 1
      /\ \A k \in 1..(Len(s) - 1) : new[k] = IF k < i THEN s[k] ELSE s[k + 1]
  BY RemoveAtIs
<1> HIDE DEF new
<1>3. DOMAIN new = 1..(Len(s) - 1)
  BY <1>2, LenProperties
<1>4. CASE j < i
  <2>1. j \in DOMAIN new /\ new[j] = s[j]
    BY <1>1, <1>2, <1>3, <1>4
  <2> QED
    BY <2>1 DEF new
<1>5. CASE ~(j < i)
  <2>1. j - 1 \in DOMAIN new /\ ~(j - 1 < i) /\ (j - 1) + 1 = j
    BY <1>1, <1>3, <1>5
  <2>2. new[j - 1] = s[j]
    BY <1>2, <1>3, <2>1
  <2> QED
    BY <2>1, <2>2 DEF new
<1> QED
  BY <1>4, <1>5

\* The result of Finished: the lists have what they had but for one entry.
Done(d, e, h, i) ==
    \A g \in DOMAIN d.ctxs : \A u :
        /\ Holds(d, g, u, "out")
        /\ g = h => ~(d.ctxs[h].msgs[i].dir = "out" /\ d.ctxs[h].msgs[i].store = u)
        => Holds(e, g, u, "out")

LEMMA FinishedDone ==
    ASSUME NEW d, NEW h \in DOMAIN d.ctxs, NEW i \in DOMAIN d.ctxs[h].msgs,
           StoreSound(d, 0, 0), ClientsSound(d), NEW e, e = Finished(d, h, i)
    PROVE  Sound(d, e) /\ ClientsSame(d, e) /\ Done(d, e, h, i)
<1> DEFINE old == d.ctxs[h].msgs
<1>1. old \in Seq(Msgs)
  BY DbIs, CtxIs DEF StoreSound
<1>2. StoreSound(e, 0, 0) /\ Trimmed(d, e, h, RemoveAt(old, i))
  BY FinishedSound
<1>3. ClientsSame(d, e)
  BY <1>2, TrimmedSame
<1>4. Sound(d, e)
  BY <1>2, <1>3, ClientsSameSound DEF Sound, Trimmed
<1>5. ASSUME NEW g \in DOMAIN d.ctxs, NEW u, Holds(d, g, u, "out"),
             g = h => ~(old[i].dir = "out" /\ old[i].store = u)
      PROVE  Holds(e, g, u, "out")
  <2>1. CASE g # h
    BY <2>1, <1>2, <1>5 DEF Trimmed, Holds
  <2>2. CASE g = h
    <3>1. PICK j \in DOMAIN old : old[j].store = u /\ old[j].dir = "out"
      BY <2>2, <1>5 DEF Holds
    <3>2. j # i
      BY <2>2, <3>1, <1>5
    <3>3. PICK k \in DOMAIN RemoveAt(old, i) : RemoveAt(old, i)[k] = old[j]
      BY <1>1, <3>2, RemoveKeeps
    <3>4. e.ctxs[h].msgs = RemoveAt(old, i)
      BY <1>2 DEF Trimmed
    <3> QED
      BY <2>2, <3>1, <3>3, <3>4 DEF Holds
  <2> QED
    BY <2>1, <2>2
<1> QED
  BY <1>3, <1>4, <1>5 DEF Done

LEMMA DoneStay ==
    ASSUME NEW d, NEW e, NEW h, NEW i, ClientsSame(d, e), Done(d, e, h, i),
           d.ctxs[h].msgs[i].dir # "out"
    PROVE  Stay(d, e)
<1> SUFFICES ASSUME NEW g \in DOMAIN d.ctxs, ~d.ctxs[g].clean PROVE Heir(d, g, e, g)
  BY DEF Stay
<1>1. \A u : Holds(d, g, u, "out") => Holds(e, g, u, "out")
  BY DEF Done
<1> QED
  BY <1>1 DEF Heir, ClientsSame, SameClient

LEMMA PubrelKeeps ==
    ASSUME BrokerInv(db, wanted, owed), NEW h \in DOMAIN db.ctxs,
           NEW i \in DOMAIN db.ctxs[h].msgs, handle_pubrel(h, i)
    PROVE  BrokerInv(db', wanted', owed') /\ Zeros(db') \subseteq Zeros(db)
<1> DEFINE msg == db.ctxs[h].msgs[i]
           s == msg.store
           m == db.store[s]
           f == mqtt3_db_messages_queue(db, s, TRUE)
<1>1. /\ StoreSound(db, 0, 0) /\ ClientsSound(db) /\ LeavesValid(db) /\ db \in Dbs
  BY DEF BrokerInv, ClientsSound, StoreSound
<1>2. s \in DOMAIN db.store /\ s \in Nat /\ m \in Stored
  BY <1>1, DbIs DEF StoreSound, ListsValid
<1>3. m.topic \in Topics \cup {NULL} /\ m.qos \in 0..2
  BY <1>2, StoredIs
<1>4. msg.dir = "in" /\ wanted' = wanted
  BY DEF handle_pubrel
<1>5. CASE m.topic = NULL
  <2>1. db' = Finished(db, h, i) /\ owed' = owed
    BY <1>5 DEF handle_pubrel
  <2>2. Sound(db, db') /\ ClientsSame(db, db') /\ Done(db, db', h, i)
    BY <1>1, <2>1, FinishedDone
  <2>3. Stay(db, db')
    BY <1>4, <2>2, DoneStay
  <2> QED
    BY <1>4, <2>1, <2>2, <2>3, InvStay DEF Sound
<1>6. CASE m.topic # NULL
  <2>1. db' = Finished(f, h, i) /\ owed' = Owed(wanted, owed, s, m.topic, m.qos)
    BY <1>6 DEF handle_pubrel, Owing, Owed
  <2>2. m.topic \in Topics
    BY <1>3, <1>6
  <2>3. StoreSound(f, 0, 0) /\ Routes(db, f, s, TRUE)
    BY <1>1, <1>2, <2>2, QueueSound
  <2>4. Routed(db, f) /\ AllServed(db, f, m.topic, m.qos, s)
    BY <2>3 DEF Routes
  <2> HIDE DEF f
  <2>5. ClientsKept(db, f) /\ Zeros(f) \subseteq Zeros(db)
    BY <2>4, RoutedKept DEF Routed
  <2>6. Sound(db, f) /\ Stay(db, f)
    BY <1>1, <2>3, <2>5, KeptSound, KeptStay DEF Sound
  <2>7. /\ h \in DOMAIN f.ctxs /\ i \in DOMAIN f.ctxs[h].msgs
        /\ f.ctxs[h].msgs[i] = msg
    BY <2>5 DEF ClientsKept, Grown
  <2>8. ClientsSound(f)
    BY <2>6 DEF Sound
  <2>9. Sound(f, db') /\ ClientsSame(f, db') /\ Done(f, db', h, i)
    BY <2>1, <2>3, <2>7, <2>8, FinishedDone
  <2>10. Stay(f, db')
    BY <1>4, <2>7, <2>9, DoneStay
  <2>11. Sound(db, db') /\ Stay(db, db')
    BY <2>6, <2>9, <2>10, SoundTrans, StayTrans
  <2>12. AllServed(db, db', m.topic, m.qos, s)
    <3> SUFFICES ASSUME NEW k \in DOMAIN db.leaves[m.topic]
                 PROVE  Reached(db, db', db.leaves[m.topic][k], m.qos, s)
      BY DEF AllServed
    <3>1. Reached(db, f, db.leaves[m.topic][k], m.qos, s)
      BY <2>4 DEF AllServed
    <3>2. db.leaves[m.topic][k].ctx \in DOMAIN f.ctxs
      BY <1>1, <2>2, <2>5 DEF LeavesValid, ClientsKept
    <3>3. Holds(f, db.leaves[m.topic][k].ctx, s, "out")
            => Holds(db', db.leaves[m.topic][k].ctx, s, "out")
      BY <3>2, <2>7, <2>9, <1>4 DEF Done
    <3> QED
      BY <3>1, <3>3 DEF Reached
  <2>13. BrokerInv(db', wanted, owed')
    <3> HIDE DEF m, s
    <3> QED
      BY <1>2, <1>3, <2>1, <2>2, <2>11, <2>12, InvServed
  <2> QED
    BY <1>4, <2>11, <2>13 DEF Sound
<1> QED
  BY <1>5, <1>6

LEMMA DeliveredKeeps ==
    ASSUME BrokerInv(db, wanted, owed), NEW h \in DOMAIN db.ctxs,
           NEW i \in DOMAIN db.ctxs[h].msgs, Delivered(h, i)
    PROVE  BrokerInv(db', wanted', owed') /\ Zeros(db') \subseteq Zeros(db)
<1> DEFINE s == db.ctxs[h].msgs[i].store
           a == db.ctxs[h].id
<1>1. StoreSound(db, 0, 0) /\ ClientsSound(db)
  BY DEF BrokerInv
<1>2. a \in Clients
  BY LiveIs DEF Delivered, Live
<1>3. /\ db' = Finished(db, h, i) /\ wanted' = wanted
      /\ owed' = [owed EXCEPT ![a] = owed[a] \ {s}]
  BY DEF Delivered
<1>4. Sound(db, db') /\ ClientsSame(db, db') /\ Done(db, db', h, i)
  BY <1>1, <1>3, FinishedDone
<1>5. owed \in [Clients -> SUBSET Nat] /\ SessionsTyped(wanted, owed)
  BY DEF BrokerInv, SessionsTyped
<1>6. SessionsTyped(wanted, owed')
  BY <1>2, <1>3, <1>5 DEF SessionsTyped
<1>7. Wants(db', wanted)
  <2>1. Wants(db, wanted)
    BY DEF BrokerInv
  <2> QED
    BY <2>1, <1>4 DEF Wants, ClientsSame, SameClient
<1>8. Owes(db', owed')
  <2> SUFFICES ASSUME NEW c \in Clients, NEW u \in owed'[c]
               PROVE  \E g \in DOMAIN db'.ctxs :
                         /\ db'.ctxs[g].id = c /\ ~db'.ctxs[g].clean
                         /\ Holds(db', g, u, "out")
    BY DEF Owes
  <2>1. u \in owed[c] /\ (c = a => u # s)
    BY <1>2, <1>3, <1>5
  <2>2. PICK g \in DOMAIN db.ctxs : /\ db.ctxs[g].id = c /\ ~db.ctxs[g].clean
                                    /\ Holds(db, g, u, "out")
    BY <2>1 DEF BrokerInv, Owes
  <2>3. Holds(db', g, u, "out")
    BY <2>1, <2>2, <1>4 DEF Done
  <2> QED
    BY <2>2, <2>3, <1>4 DEF ClientsSame, SameClient
<1> QED
  BY <1>3, <1>4, <1>6, <1>7, <1>8 DEF BrokerInv, Sound
LEMMA RetainQueueSound ==
    ASSUME NEW d, NEW h \in DOMAIN d.ctxs, NEW t \in Topics, NEW qos \in 0..2,
           StoreSound(d, 0, 0), ClientsSound(d),
           NEW e, e = mqtt3_retain_queue(d, h, t, qos)
    PROVE  Sound(d, e) /\ ClientsKept(d, e)
<1> DEFINE s == d.retained[t]
<1>1. CASE s = NULL
  <2>1. e = d
    BY <1>1 DEF mqtt3_retain_queue
  <2> QED
    BY <2>1 DEF Sound, ClientsKept, SameClient, Grown
<1>2. CASE s # NULL
  <2> DEFINE q == MinQos(d.store[s].qos, qos)
  <2>1. s \in DOMAIN d.store /\ d.store[s] \in Stored
    BY <1>2, DbIs DEF StoreSound, RetainedValid
  <2>2. q \in 0..2
    BY <2>1, StoredIs DEF MinQos
  <2>3. e = mqtt3_db_message_insert(d, h, "out", q, TRUE, s)
    BY <1>2 DEF mqtt3_retain_queue
  <2> HIDE DEF q, s
  <2>4. StoreSound(e, 0, 0) /\ Inserted(d, e, h, s, "out", q)
    BY <2>1, <2>2, <2>3, InsertSound
  <2>5. Routed(d, e) /\ ClientsKept(d, e)
    BY <2>4, RoutedKept DEF Inserted
  <2> QED
    BY <2>4, <2>5, KeptSound DEF Sound, Routed
<1> QED
  BY <1>1, <1>2

\* Sessions keep what they are owed when subscriptions change.
LEMMA ReplantedOwes ==
    ASSUME NEW d, NEW e, NEW h, Replanted(d, e, h), NEW o, Owes(d, o)
    PROVE  Owes(e, o)
<1>1. \A g \in DOMAIN d.ctxs : SameButSubs(e.ctxs[g], d.ctxs[g]) /\ g \in DOMAIN e.ctxs
  BY DEF Replanted, SameButSubs
<1>2. \A g \in DOMAIN d.ctxs : \A s : Holds(d, g, s, "out") => Holds(e, g, s, "out")
  BY <1>1 DEF SameButSubs, Holds
<1> QED
  BY <1>1, <1>2 DEF Owes, SameButSubs

\* Only the subscription of one client to one topic has changed.
Wish(w, a, t, q) == [w EXCEPT ![a] = [w[a] EXCEPT ![t] = q]]

LEMMA WishIs ==
    ASSUME NEW w \in [Clients -> [Topics -> 0..2 \cup {NULL}]], NEW a \in Clients,
           NEW t \in Topics, NEW q \in 0..2 \cup {NULL}
    PROVE  /\ Wish(w, a, t, q) \in [Clients -> [Topics -> 0..2 \cup {NULL}]]
           /\ \A c \in Clients, u \in Topics :
                 Wish(w, a, t, q)[c][u] = IF c = a /\ u = t THEN q ELSE w[c][u]
  BY DEF Wish

LEMMA AddingWants ==
    ASSUME NEW d, NEW e, NEW h \in DOMAIN d.ctxs, NEW t \in Topics, NEW qos \in 0..2,
           Adding(d, e, h, t, qos), OneHome(d), d.ctxs[h].id \in Clients,
           d.ctxs[h].id # NULL, NEW w, Wants(d, w),
           w \in [Clients -> [Topics -> 0..2 \cup {NULL}]], NEW v,
           v = IF d.ctxs[h].clean THEN w ELSE Wish(w, d.ctxs[h].id, t, qos)
    PROVE  Wants(e, v)
<1> DEFINE a == d.ctxs[h].id
<1>1. \A g \in DOMAIN d.ctxs : SameButSubs(e.ctxs[g], d.ctxs[g]) /\ g \in DOMAIN e.ctxs
  BY DEF Adding, Replanted, SameButSubs
<1>2. \A u \in Topics : \A g, q : Has(d.leaves[u], g, q) /\ (u = t => g # h)
                                     => Has(e.leaves[u], g, q)
  BY DEF Adding, Set
<1>3. Has(e.leaves[t], h, qos)
  BY DEF Adding, Set
<1> SUFFICES ASSUME NEW c \in Clients, NEW u \in Topics, v[c][u] # NULL
             PROVE  \E g \in DOMAIN e.ctxs : /\ e.ctxs[g].id = c /\ ~e.ctxs[g].clean
                                             /\ Has(e.leaves[u], g, v[c][u])
  BY DEF Wants
<1>4. CASE ~d.ctxs[h].clean /\ c = a /\ u = t
  <2>1. v[c][u] = qos
    BY <1>4, WishIs
  <2> QED
    BY <2>1, <1>1, <1>3, <1>4 DEF SameButSubs
<1>5. CASE ~(~d.ctxs[h].clean /\ c = a /\ u = t)
  <2>1. v[c][u] = w[c][u]
    <3>1. CASE d.ctxs[h].clean
      BY <3>1
    <3>2. CASE ~d.ctxs[h].clean
      <4>1. v = Wish(w, a, t, qos) /\ ~(c = a /\ u = t)
        BY <3>2, <1>5
      <4>2. v[c][u] = IF c = a /\ u = t THEN qos ELSE w[c][u]
        BY <4>1, WishIs
      <4> QED
        BY <4>1, <4>2
    <3> QED
      BY <3>1, <3>2
  <2>2. PICK g \in DOMAIN d.ctxs : /\ d.ctxs[g].id = c /\ ~d.ctxs[g].clean
                                   /\ Has(d.leaves[u], g, w[c][u])
    BY <2>1 DEF Wants
  <2>3. u = t => g # h
    BY <2>2, <1>5
  <2> QED
    BY <2>1, <2>2, <2>3, <1>1, <1>2 DEF SameButSubs
<1> QED
  BY <1>4, <1>5

LEMMA SubscribeKeeps ==
    ASSUME BrokerInv(db, wanted, owed), NEW h \in DOMAIN db.ctxs, NEW t \in Topics,
           NEW qos \in SubQos, mqtt3_handle_subscribe(h, t, qos)
    PROVE  BrokerInv(db', wanted', owed') /\ Zeros(db') \subseteq Zeros(db)
<1> DEFINE x == mqtt3_sub_add(db, h, t, qos)
           y == mqtt3_retain_queue(x, h, t, qos)
           a == db.ctxs[h].id
<1>1. /\ StoreSound(db, 0, 0) /\ ClientsSound(db) /\ Settled(db)
      /\ Wants(db, wanted) /\ Owes(db, owed) /\ SessionsTyped(wanted, owed)
  BY DEF BrokerInv
<1>2. a \in Clients /\ a # NULL /\ qos \in 0..2
  BY LiveIs, StoreAssumption DEF mqtt3_handle_subscribe, Live
<1>3. /\ db' = Changed(y) /\ owed' = owed
      /\ wanted' = IF db.ctxs[h].clean THEN wanted ELSE Wish(wanted, a, t, qos)
  BY DEF mqtt3_handle_subscribe, Wish
<1>4. /\ StoreSound(x, 0, 0) /\ Zeros(x) = Zeros(db) /\ Adding(db, x, h, t, qos)
      /\ ClientsSound(x) /\ (Settled(db) => Settled(x))
  BY <1>1, <1>2, SubAddSound
<1> HIDE DEF x
<1>5. Owes(x, owed)
  BY <1>1, <1>4, ReplantedOwes DEF Adding
<1>6. wanted \in [Clients -> [Topics -> 0..2 \cup {NULL}]] /\ OneHome(db)
  BY <1>1 DEF SessionsTyped, ClientsSound
<1>7. Wants(x, wanted')
  BY <1>1, <1>2, <1>3, <1>4, <1>6, AddingWants
<1>8. SessionsTyped(wanted', owed)
  BY <1>1, <1>2, <1>3, <1>6, WishIs DEF SessionsTyped
<1>9. BrokerInv(x, wanted', owed)
  BY <1>1, <1>4, <1>5, <1>7, <1>8 DEF BrokerInv
<1>10. h \in DOMAIN x.ctxs
  BY <1>4 DEF Adding, Replanted
<1>11. Sound(x, y) /\ ClientsKept(x, y)
  BY <1>2, <1>4, <1>10, RetainQueueSound
<1> HIDE DEF y
<1>12. Sound(y, db') /\ ClientsKept(y, db')
  BY <1>3, <1>11, ChangedSound DEF Sound
<1>13. Sound(x, db') /\ Stay(x, db')
  BY <1>11, <1>12, SoundTrans, StayTrans, KeptStay
<1> QED
  BY <1>3, <1>4, <1>9, <1>13, InvStay DEF Sound

LEMMA UnsubscribeKeeps ==
    ASSUME BrokerInv(db, wanted, owed), NEW h \in DOMAIN db.ctxs, NEW t \in Topics,
           mqtt3_handle_unsubscribe(h, t)
    PROVE  BrokerInv(db', wanted', owed') /\ Zeros(db') \subseteq Zeros(db)
<1> DEFINE x == DropLeaves(db, h, {t})
           a == db.ctxs[h].id
<1>1. /\ StoreSound(db, 0, 0) /\ ClientsSound(db) /\ Settled(db)
      /\ Wants(db, wanted) /\ Owes(db, owed) /\ SessionsTyped(wanted, owed)
  BY DEF BrokerInv
<1>2. a \in Clients /\ {t} \in SUBSET Topics
  BY LiveIs DEF mqtt3_handle_unsubscribe, Live
<1>3. db' = Changed(x) /\ owed' = owed /\ wanted' = Wish(wanted, a, t, NULL)
  BY DEF mqtt3_handle_unsubscribe, Wish
<1>4. /\ StoreSound(x, 0, 0) /\ Zeros(x) = Zeros(db) /\ Dropping(db, x, h, {t})
      /\ ClientsSound(x) /\ (Settled(db) => Settled(x))
  BY <1>1, <1>2, DropLeavesSound
<1> HIDE DEF x
<1>5. Owes(x, owed)
  BY <1>1, <1>4, ReplantedOwes DEF Dropping
<1>6. wanted \in [Clients -> [Topics -> 0..2 \cup {NULL}]]
  BY <1>1 DEF SessionsTyped
<1>7. /\ wanted' \in [Clients -> [Topics -> 0..2 \cup {NULL}]]
      /\ \A c \in Clients, u \in Topics :
            wanted'[c][u] = IF c = a /\ u = t THEN NULL ELSE wanted[c][u]
  <2> HIDE DEF a
  <2>1. NULL \in 0..2 \cup {NULL}
    OBVIOUS
  <2>2. /\ Wish(wanted, a, t, NULL) \in [Clients -> [Topics -> 0..2 \cup {NULL}]]
        /\ \A c \in Clients, u \in Topics :
              Wish(wanted, a, t, NULL)[c][u]
                = IF c = a /\ u = t THEN NULL ELSE wanted[c][u]
    BY <2>1, <1>2, <1>6, WishIs
  <2> QED
    BY <2>2, <1>3, Zenon
<1>8. Wants(x, wanted')
  <2>1. \A g \in DOMAIN db.ctxs : SameButSubs(x.ctxs[g], db.ctxs[g]) /\ g \in DOMAIN x.ctxs
    BY <1>4 DEF Dropping, Replanted, SameButSubs
  <2>2. \A u \in Topics : \A g, q : Has(db.leaves[u], g, q) /\ (u = t => g # h)
                                       => Has(x.leaves[u], g, q)
    BY <1>4 DEF Dropping, Pruned
  <2> SUFFICES ASSUME NEW c \in Clients, NEW u \in Topics, wanted'[c][u] # NULL
               PROVE  \E g \in DOMAIN x.ctxs : /\ x.ctxs[g].id = c /\ ~x.ctxs[g].clean
                                               /\ Has(x.leaves[u], g, wanted'[c][u])
    BY DEF Wants
  <2>3. wanted'[c][u] = wanted[c][u] /\ ~(c = a /\ u = t)
    BY <1>7
  <2>4. PICK g \in DOMAIN db.ctxs : /\ db.ctxs[g].id = c /\ ~db.ctxs[g].clean
                                    /\ Has(db.leaves[u], g, wanted[c][u])
    BY <2>3, <1>1 DEF Wants
  <2>5. u = t => g # h
    BY <2>3, <2>4
  <2> QED
    BY <2>1, <2>2, <2>3, <2>4, <2>5 DEF SameButSubs
<1>9. BrokerInv(x, wanted', owed)
  BY <1>1, <1>4, <1>5, <1>7, <1>8 DEF BrokerInv, SessionsTyped
<1>10. Sound(x, db') /\ ClientsKept(x, db')
  BY <1>3, <1>4, ChangedSound
<1>11. Stay(x, db')
  BY <1>10, KeptStay
<1> QED
  BY <1>3, <1>4, <1>9, <1>10, <1>11, InvStay DEF Sound

LEMMA ExpireKeeps ==
    ASSUME BrokerInv(db, wanted, owed), NEW h \in DOMAIN db.ctxs, ExpireClient(h)
    PROVE  BrokerInv(db', wanted', owed') /\ Zeros(db') \subseteq Zeros(db)
<1> DEFINE a == db.ctxs[h].id
<1>1. StoreSound(db, 0, 0) /\ ClientsSound(db) /\ db \in Dbs
  BY DEF BrokerInv, StoreSound
<1>2. a # NULL /\ a \in Clients
  BY <1>1, DbIs, CtxIs DEF ExpireClient
<1>3. db' = End(db, h, "expiring") /\ Over(wanted, wanted', owed, owed', a)
  BY DEF ExpireClient, Over
<1>4. /\ StoreSound(db', 0, 0) /\ ClientsSound(db') /\ Zeros(db') \subseteq Zeros(db)
      /\ Inherited(db, db', Clients \ {a}) /\ (Settled(db) => Settled(db'))
  BY <1>1, <1>2, <1>3, EndSound
<1>5. Sound(db, db')
  BY <1>4 DEF Sound
<1> HIDE DEF a
<1> QED
  BY <1>2, <1>3, <1>4, <1>5, InvOver

\* Contexts are freed at the start of a pass and after a save.
LEMMA FreeKeeps ==
    ASSUME NEW d, NEW w, NEW o, BrokerInv(d, w, o),
           NEW e, e = mosquitto__free_disused_contexts(d)
    PROVE  BrokerInv(e, w, o) /\ Zeros(e) \subseteq Zeros(d)
<1>1. StoreSound(d, 0, 0) /\ ClientsSound(d) /\ NoName(d)
  BY DEF BrokerInv, ClientsSound
<1>2. StoreSound(e, 0, 0) /\ ClientsSound(e) /\ Freed(d, e)
  BY <1>1, FreeDisusedSound
<1>3. Sound(d, e) /\ Stay(d, e)
  BY <1>1, <1>2, FreedStay DEF Sound, Freed
<1> QED
  BY <1>3, InvStay DEF Sound

LEMMA HandlerKeeps ==
    ASSUME BrokerInv(db, wanted, owed), Handler
    PROVE  BrokerInv(db', wanted', owed') /\ Zeros(db') \subseteq Zeros(db)
<1>1. CASE \E c \in Clients, clean \in BOOLEAN, will \in WillMessages \cup {NULL} :
              mqtt3_handle_connect(c, clean, will)
  BY <1>1, ConnectKeeps
<1>2. CASE \E h \in DOMAIN db.ctxs : mqtt3_handle_disconnect(h)
  BY <1>2, DisconnectKeeps
<1>3. CASE \E h \in DOMAIN db.ctxs : socket_error(h)
  BY <1>3, SocketErrorKeeps
<1>4. CASE \E h \in DOMAIN db.ctxs : \E t \in Topics, qos \in PubQos, k \in Kinds :
              mqtt3_handle_publish(h, t, qos, k.retain, k.payload)
  BY <1>4, PublishKeeps
<1>5. CASE \E h \in DOMAIN db.ctxs : PublishDenied(h)
  BY <1>5, DeniedKeeps
<1>6. CASE \E h \in DOMAIN db.ctxs : \E i \in DOMAIN db.ctxs[h].msgs : handle_pubrel(h, i)
  BY <1>6, PubrelKeeps
<1>7. CASE \E h \in DOMAIN db.ctxs : \E i \in DOMAIN db.ctxs[h].msgs : Delivered(h, i)
  BY <1>7, DeliveredKeeps
<1>8. CASE \E h \in DOMAIN db.ctxs : \E t \in Topics, qos \in SubQos :
              mqtt3_handle_subscribe(h, t, qos)
  BY <1>8, SubscribeKeeps
<1>9. CASE \E h \in DOMAIN db.ctxs : \E t \in Topics : mqtt3_handle_unsubscribe(h, t)
  BY <1>9, UnsubscribeKeeps
<1>10. CASE \E h \in DOMAIN db.ctxs : ExpireClient(h)
  BY <1>10, ExpireKeeps
<1> QED
  BY <1>1, <1>2, <1>3, <1>4, <1>5, <1>6, <1>7, <1>8, <1>9, <1>10 DEF Handler
=============================================================================
