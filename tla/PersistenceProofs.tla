------------------------- MODULE PersistenceProofs -------------------------
(***************************************************************************)
(* The broker's database and its file: what is saved, what a broker that   *)
(* starts from the file makes of it, and the invariants of the two.        *)
(***************************************************************************)
EXTENDS Persistence, BrokerStoreProofs

----------------------------------------------------------------------------
(***************************************************************************)
(* Sets written as sequences, and sequences of sequences written as one.   *)
(***************************************************************************)
\* q has every member of S, once.
Lists(q, S) ==
    /\ q \in Seq(S) /\ \A i, j \in DOMAIN q : q[i] = q[j] => i = j
    /\ \A x \in S : \E i \in DOMAIN q : q[i] = x

LEMMA SetToSeqIs ==
    ASSUME NEW S, IsFiniteSet(S)
    PROVE  Lists(SetToSeq(S), S)
<1> DEFINE n == Cardinality(S)
           q == SetToSeq(S)
<1>1. n \in Nat /\ ExistsBijection(1..n, S)
  BY FS_CardinalityType
<1>2. \E f \in [1..n -> S] : IsInjective(f)
  BY <1>1 DEF ExistsBijection, Bijection, Injection, IsInjective
<1>3. q \in [1..n -> S] /\ IsInjective(q)
  BY <1>2 DEF SetToSeq
<1> HIDE DEF q
<1>4. q \in Injection(1..n, S)
  BY <1>3 DEF Injection
<1>5. IsFiniteSet(1..n) /\ Cardinality(1..n) = n
  BY <1>1, FS_Interval
<1>6. Cardinality(1..n) = Cardinality(S) <=> q \in Surjection(1..n, S)
  BY <1>4, FS_Injection
<1>7. q \in Surjection(1..n, S)
  BY <1>5, <1>6
<1>8. q \in Seq(S) /\ DOMAIN q = 1..n
  BY <1>1, <1>3
<1> QED
  BY <1>3, <1>7, <1>8 DEF Lists, IsInjective, Surjection, q

\* q is the first n sequences of ss one after the other: the j-th begins after
\* position o[j].
Blocks(q, ss, n, o) ==
    /\ o \in [1..n -> Nat]
    /\ \A j \in 1..n : \A l \in DOMAIN ss[j] :
          o[j] + l \in DOMAIN q /\ q[o[j] + l] = ss[j][l]
    /\ \A p \in DOMAIN q : \E j \in 1..n : \E l \in DOMAIN ss[j] : p = o[j] + l

InBlocks(q, ss, n) == \E o : Blocks(q, ss, n, o)

LEMMA BlocksStep ==
    ASSUME NEW A, NEW ss \in Seq(Seq(A)), NEW i \in 1..Len(ss), NEW q \in Seq(A),
           InBlocks(q, ss, i - 1)
    PROVE  /\ q \o ss[i] \in Seq(A)
           /\ InBlocks(q \o ss[i], ss, i)
<1> DEFINE t == ss[i]
           r == q \o t
<1>1. PICK o : Blocks(q, ss, i - 1, o)
  BY DEF InBlocks
<1> DEFINE p == [j \in 1..i |-> IF j = i THEN Len(q) ELSE o[j]]
<1>2. t \in Seq(A) /\ Len(q) \in Nat /\ Len(t) \in Nat
  OBVIOUS
<1>3. /\ r \in Seq(A) /\ Len(r) = Len(q) + Len(t)
      /\ \A l \in 1..Len(q) : r[l] = q[l]
      /\ \A l \in 1..Len(t) : r[Len(q) + l] = t[l]
  BY <1>2
<1>4. DOMAIN r = 1..(Len(q) + Len(t)) /\ DOMAIN q = 1..Len(q) /\ DOMAIN t = 1..Len(t)
  BY <1>2, <1>3
<1> HIDE DEF r, t
<1>5. p \in [1..i -> Nat]
  BY <1>1, <1>2 DEF Blocks
<1>6. ASSUME NEW j \in 1..i, NEW l \in DOMAIN ss[j]
      PROVE  p[j] + l \in DOMAIN r /\ r[p[j] + l] = ss[j][l]
  <2>1. CASE j = i
    <3>1. l \in 1..Len(t) /\ p[j] = Len(q)
      BY <1>4, <2>1 DEF t
    <3>2. p[j] + l \in 1..(Len(q) + Len(t))
      BY <3>1, <1>2, SMTT(60)
    <3> QED
      BY <3>1, <3>2, <1>3, <1>4, <2>1 DEF t
  <2>2. CASE j # i
    <3>1. j \in 1..(i - 1) /\ p[j] = o[j]
      BY <2>2
    <3>2. o[j] + l \in DOMAIN q /\ q[o[j] + l] = ss[j][l]
      BY <3>1, <1>1 DEF Blocks
    <3>3. o[j] + l \in 1..Len(q)
      BY <3>2, <1>4
    <3>4. o[j] + l \in 1..(Len(q) + Len(t))
      BY <3>3, <1>2
    <3> QED
      BY <3>1, <3>2, <3>3, <3>4, <1>3, <1>4
  <2> QED
    BY <2>1, <2>2
<1>7. ASSUME NEW k \in DOMAIN r
      PROVE  \E j \in 1..i : \E l \in DOMAIN ss[j] : k = p[j] + l
  <2>1. CASE k <= Len(q)
    <3>1. k \in DOMAIN q
      BY <2>1, <1>2, <1>4
    <3>2. PICK j \in 1..(i - 1) : \E l \in DOMAIN ss[j] : k = o[j] + l
      BY <3>1, <1>1 DEF Blocks
    <3>3. j \in 1..i /\ p[j] = o[j]
      OBVIOUS
    <3> QED
      BY <3>2, <3>3
  <2>2. CASE k > Len(q)
    <3>1. k - Len(q) \in 1..Len(t) /\ k = Len(q) + (k - Len(q))
      BY <2>2, <1>2, <1>4
    <3>2. p[i] = Len(q) /\ i \in 1..i /\ k - Len(q) \in DOMAIN ss[i]
      BY <3>1, <1>4 DEF t
    <3> QED
      BY <3>1, <3>2
  <2>3. k \in Int /\ Len(q) \in Int
    BY <1>2, <1>4
  <2> QED
    BY <2>1, <2>2, <2>3
<1>8. Blocks(r, ss, i, p)
  <2> HIDE DEF p
  <2> QED
    BY <1>5, <1>6, <1>7 DEF Blocks
<1> QED
  BY <1>3, <1>8 DEF r, t, InBlocks

LEMMA FlattenIs ==
    ASSUME NEW A, NEW ss \in Seq(Seq(A))
    PROVE  /\ FlattenSeq(ss) \in Seq(A)
           /\ InBlocks(FlattenSeq(ss), ss, Len(ss))
<1> DEFINE n == Len(ss)
           D == [i \in 0..n |-> {q \in Seq(A) : InBlocks(q, ss, i)}]
           F == [i \in 1..n |-> [q \in Seq(A) |-> q \o ss[i]]]
           P(g) == g = [i \in 1..n |-> IF i = 1 THEN ss[i] ELSE g[i - 1] \o ss[i]]
<1>1. n \in Nat /\ \A i \in 1..n : ss[i] \in Seq(A)
  OBVIOUS
<1>2. <<>> \in D[0]
  <2>1. <<>> \in Seq(A)
    OBVIOUS
  <2>2. InBlocks(<<>>, ss, 0)
    <3>1. Blocks(<<>>, ss, 0, <<>>)
      BY DEF Blocks
    <3> QED
      BY <3>1 DEF InBlocks
  <2> QED
    BY <2>1, <2>2, <1>1
<1>3. ASSUME NEW i \in 1..n, NEW q \in D[i - 1]
      PROVE  q \in Seq(A) /\ F[i][q] = q \o ss[i] /\ q \o ss[i] \in D[i]
  <2>1. q \in Seq(A) /\ InBlocks(q, ss, i - 1)
    BY <1>1
  <2>2. q \o ss[i] \in Seq(A) /\ InBlocks(q \o ss[i], ss, i)
    BY <2>1, BlocksStep
  <2> DEFINE y == q \o ss[i]
  <2>3. i \in 0..n /\ y \in D[i]
    <3>1. i \in 0..n
      BY <1>1
    <3>2. y \in Seq(A) /\ InBlocks(y, ss, i)
      BY <2>2
    <3> HIDE DEF y, n
    <3> QED
      BY <3>1, <3>2
  <2>4. F[i] = [x \in Seq(A) |-> x \o ss[i]]
    OBVIOUS
  <2> HIDE DEF D, F
  <2> QED
    BY <2>1, <2>3, <2>4
<1> HIDE DEF D, F
<1>4. CASE n = 0
  <2>1. FlattenSeq(ss) = <<>>
    BY <1>4 DEF FlattenSeq
  <2> QED
    BY <2>1, <1>2, <1>4 DEF D
<1>5. CASE n # 0
  <2>1. FlattenSeq(ss) = (CHOOSE g : P(g))[n]
    BY <1>5 DEF FlattenSeq
  <2> HIDE DEF n
  <2>2. PICK g : Loops(g, n, <<>>, F, D)
    BY <1>1, <1>2, <1>3, LoopExists
  <2>3. g[0] = <<>> /\ \A i \in 1..n : g[i] = F[i][g[i - 1]] /\ g[i - 1] \in D[i - 1]
    <3>1. \A i \in 1..n : i \in 0..n /\ i - 1 \in 0..n /\ i # 0
      BY <1>1
    <3> QED
      BY <3>1, <2>2, <1>1 DEF Loops
  <2>4. \A i \in 1..n : g[i] = g[i - 1] \o ss[i]
    BY <2>3, <1>3
  <2> DEFINE h == [i \in 1..n |-> g[i]]
  <2>5. ASSUME NEW i \in 1..n
        PROVE  h[i] = IF i = 1 THEN ss[i] ELSE h[i - 1] \o ss[i]
    <3>1. h[i] = g[i - 1] \o ss[i] /\ ss[i] \in Seq(A)
      BY <2>4, <1>1
    <3>2. CASE i = 1
      <4>1. g[i - 1] = <<>>
        BY <3>2, <2>3
      <4> QED
        BY <4>1, <3>1, <3>2
    <3>3. CASE i # 1
      <4>1. i - 1 \in 1..n
        BY <3>3, <1>1
      <4>2. h[i - 1] = g[i - 1]
        BY <4>1
      <4> QED
        BY <4>2, <3>1, <3>3
    <3> QED
      BY <3>2, <3>3
  <2>6. P(h)
    BY <2>5
  <2> DEFINE f == CHOOSE x : P(x)
             e == [i \in 0..n |-> IF i = 0 THEN <<>> ELSE f[i]]
  <2>7. P(f)
    <3> HIDE DEF P
    <3> QED
      BY <2>6
  <2> HIDE DEF f
  <2>8. ASSUME NEW i \in 1..n, e[i - 1] \in D[i - 1] PROVE e[i] \in D[i]
    <3>1. e[i] = e[i - 1] \o ss[i]
      <4>1. f[i] = IF i = 1 THEN ss[i] ELSE f[i - 1] \o ss[i]
        BY <2>7
      <4>2. i \in 0..n /\ i - 1 \in 0..n /\ i # 0 /\ ss[i] \in Seq(A)
        BY <1>1
      <4>3. e[i] = f[i]
        BY <4>2
      <4>4. CASE i = 1
        <5>1. e[i - 1] = <<>>
          BY <4>2, <4>4
        <5> QED
          BY <5>1, <4>1, <4>2, <4>3, <4>4
      <4>5. CASE i # 1
        <5>1. e[i - 1] = f[i - 1]
          BY <4>2, <4>5
        <5> QED
          BY <5>1, <4>1, <4>3, <4>5
      <4> QED
        BY <4>4, <4>5
    <3> QED
      BY <3>1, <2>8, <1>3
  <2>9. e[n] \in D[n]
    <3>1. e[0] \in D[0]
      BY <1>1, <1>2
    <3> HIDE DEF e
    <3>2. \A i \in 0..n : e[i] \in D[i]
      BY <3>1, <2>8, <1>1, LoopKeeps
    <3> QED
      BY <3>2, <1>1
  <2>10. FlattenSeq(ss) \in D[n]
    BY <2>1, <2>9, <1>1, <1>5 DEF f
  <2> QED
    BY <2>10, <1>1 DEF D, n
<1> QED
  BY <1>4, <1>5
----------------------------------------------------------------------------
(***************************************************************************)
(* The chunks of the file.                                                 *)
(***************************************************************************)
CfgOf(d) == [chunk |-> "CFG", last |-> d.last]
StoreOf(d, s) ==
    [chunk |-> "MSG_STORE", db_id |-> s, topic |-> d.store[s].topic,
     qos |-> d.store[s].qos, retain |-> d.store[s].retain,
     payload |-> d.store[s].payload]
ClientOf(c) == [chunk |-> "CLIENT", client |-> c]
MsgOf(c, m) == [chunk |-> "CLIENT_MSG", client |-> c, msg |-> m]
SubOf(c, t, q) == [chunk |-> "SUB", client |-> c, topic |-> t, qos |-> q]
RetainOf(s) == [chunk |-> "RETAIN", db_id |-> s]

StoreKind == [chunk : {"MSG_STORE"}, db_id : Nat, topic : Topics, qos : 0..2,
              retain : BOOLEAN, payload : BOOLEAN]
ClientKind == [chunk : {"CLIENT"}, client : Clients]
MsgKind == [chunk : {"CLIENT_MSG"}, client : Clients, msg : Msgs]
SubKind == [chunk : {"SUB"}, client : Clients, topic : Topics, qos : 0..2]
RetainKind == [chunk : {"RETAIN"}, db_id : Nat]

Chunks == [chunk : {"CFG"}, last : Nat] \cup StoreKind \cup ClientKind
          \cup MsgKind \cup SubKind \cup RetainKind

LEMMA ChunkIs ==
    ASSUME NEW k \in Chunks
    PROVE  /\ k.chunk \in {"CFG", "MSG_STORE", "CLIENT", "CLIENT_MSG", "SUB", "RETAIN"}
           /\ k.chunk = "CFG" => k.last \in Nat
           /\ k.chunk = "MSG_STORE" => k \in StoreKind
           /\ k.chunk = "CLIENT" => k \in ClientKind
           /\ k.chunk = "CLIENT_MSG" => k \in MsgKind
           /\ k.chunk = "SUB" => k \in SubKind
           /\ k.chunk = "RETAIN" => k \in RetainKind
  BY DEF Chunks, StoreKind, ClientKind, MsgKind, SubKind, RetainKind

\* The contexts that are saved.
Durable(d) == {h \in DOMAIN d.ctxs : d.ctxs[h].id # NULL /\ ~d.ctxs[h].clean}

LEMMA DurableIs ==
    ASSUME NEW d, StoreSound(d, 0, 0), ClientsSound(d)
    PROVE  /\ IsFiniteSet(Durable(d))
           /\ \A h \in Durable(d) : d.ctxs[h].id \in Clients
           /\ \A h \in DOMAIN d.ctxs : ~d.ctxs[h].clean => h \in Durable(d)
<1>1. DOMAIN d.ctxs \subseteq Contexts /\ \A h \in DOMAIN d.ctxs : d.ctxs[h] \in Ctxs
  BY DbIs DEF StoreSound
<1>2. IsFiniteSet(Durable(d))
  <2>1. Durable(d) \in SUBSET Contexts /\ IsFiniteSet(Contexts)
    BY <1>1, StoreAssumption DEF Durable
  <2> QED
    BY <2>1, FS_Subset
<1>3. \A h \in Durable(d) : d.ctxs[h].id \in Clients
  BY <1>1, CtxIs DEF Durable
<1>4. \A h \in DOMAIN d.ctxs : ~d.ctxs[h].clean => h \in Durable(d)
  BY DEF Durable, ClientsSound, NoName
<1> QED
  BY <1>2, <1>3, <1>4

\* The section of the message store.
StoreSection(d, q) ==
    /\ q \in Seq(StoreKind)
    /\ \A i \in DOMAIN q : \E s \in DOMAIN d.store : q[i] = StoreOf(d, s)
    /\ \A i, j \in DOMAIN q : q[i].db_id = q[j].db_id => i = j
    /\ \A s \in DOMAIN d.store : \E i \in DOMAIN q : q[i] = StoreOf(d, s)

LEMMA StoreSectionIs ==
    ASSUME NEW d, StoreSound(d, 0, 0), Readable(d)
    PROVE  StoreSection(d, StoreChunks(d))
<1> DEFINE S == DOMAIN d.store
           ids == SetToSeq(S)
           q == StoreChunks(d)
<1>1. d \in Dbs /\ S \subseteq Nat /\ d.last \in Nat
  BY DbIs DEF StoreSound
<1>2. IsFiniteSet(S)
  BY <1>1, FS_BoundedSetOfNaturals DEF StoreSound, IdsBounded
<1>3. Lists(ids, S)
  BY <1>2, SetToSeqIs
<1>4. q = [i \in DOMAIN ids |-> StoreOf(d, ids[i])]
  BY DEF StoreChunks, StoreOf
<1> HIDE DEF ids, q
<1>5. \A s \in S : StoreOf(d, s) \in StoreKind /\ StoreOf(d, s).db_id = s
  <2> SUFFICES ASSUME NEW s \in S
               PROVE  StoreOf(d, s) \in StoreKind /\ StoreOf(d, s).db_id = s
    OBVIOUS
  <2>1. d.store[s] \in Stored
    BY <1>1, DbIs
  <2>2. d.store[s].topic \in Topics
    BY <2>1, StoredIs DEF Readable
  <2> QED
    BY <2>1, <2>2, <1>1, StoredIs DEF StoreOf, StoreKind
<1>6. Len(ids) \in Nat /\ DOMAIN ids = 1..Len(ids) /\ \A i \in DOMAIN ids : ids[i] \in S
  BY <1>3 DEF Lists
<1>7. q \in Seq(StoreKind) /\ DOMAIN q = DOMAIN ids
  BY <1>4, <1>5, <1>6
<1>8. \A i \in DOMAIN q : q[i] = StoreOf(d, ids[i]) /\ ids[i] \in S
  BY <1>4, <1>6, <1>7
<1>9. \A i, j \in DOMAIN q : q[i].db_id = q[j].db_id => i = j
  BY <1>3, <1>5, <1>7, <1>8 DEF Lists
<1>10. \A s \in S : \E i \in DOMAIN q : q[i] = StoreOf(d, s)
  BY <1>3, <1>7, <1>8 DEF Lists
<1> QED
  BY <1>7, <1>8, <1>9, <1>10 DEF StoreSection, q
\* r is the sequences B[x], x in S, one after the other, in some order.
FlatAt(r, S, B, o) ==
    /\ \A x \in S : o[x] \in Nat
    /\ \A x \in S : \A l \in DOMAIN B[x] :
          o[x] + l \in DOMAIN r /\ r[o[x] + l] = B[x][l]
    /\ \A p \in DOMAIN r : \E x \in S : \E l \in DOMAIN B[x] : p = o[x] + l

FlatOf(r, S, B) == \E o : FlatAt(r, S, B, o)

LEMMA FlatSelf ==
    ASSUME NEW A, NEW ss \in Seq(Seq(A)), NEW r, r = FlattenSeq(ss)
    PROVE  r \in Seq(A) /\ FlatOf(r, DOMAIN ss, ss)
<1>1. r \in Seq(A) /\ InBlocks(r, ss, Len(ss))
  BY FlattenIs
<1>2. PICK o : Blocks(r, ss, Len(ss), o)
  BY <1>1 DEF InBlocks
<1>3. DOMAIN ss = 1..Len(ss)
  OBVIOUS
<1>4. FlatAt(r, DOMAIN ss, ss, o)
  <2> DEFINE S == DOMAIN ss
  <2>1. S = 1..Len(ss)
    BY <1>3
  <2> HIDE DEF S
  <2>2. /\ o \in [S -> Nat]
        /\ \A j \in S : \A l \in DOMAIN ss[j] :
              o[j] + l \in DOMAIN r /\ r[o[j] + l] = ss[j][l]
        /\ \A p \in DOMAIN r : \E j \in S : \E l \in DOMAIN ss[j] : p = o[j] + l
    BY <1>2, <2>1 DEF Blocks
  <2>3. FlatAt(r, S, ss, o)
    BY <2>2 DEF FlatAt
  <2> QED
    BY <2>3 DEF S
<1> QED
  BY <1>1, <1>4 DEF FlatOf

LEMMA FlatIs ==
    ASSUME NEW A, NEW S, NEW q, Lists(q, S), NEW B \in [S -> Seq(A)],
           NEW ss, ss = [i \in DOMAIN q |-> B[q[i]]], NEW r, r = FlattenSeq(ss)
    PROVE  r \in Seq(A) /\ FlatOf(r, S, B)
<1>1. /\ Len(q) \in Nat /\ DOMAIN q = 1..Len(q)
      /\ \A i \in DOMAIN q : q[i] \in S /\ B[q[i]] \in Seq(A)
  BY DEF Lists
<1>2. ss \in Seq(Seq(A)) /\ DOMAIN ss = DOMAIN q /\ \A i \in DOMAIN q : ss[i] = B[q[i]]
  BY <1>1
<1>3. r \in Seq(A) /\ FlatOf(r, DOMAIN ss, ss)
  BY <1>2, FlatSelf
<1>4. PICK o : FlatAt(r, DOMAIN ss, ss, o)
  BY <1>3 DEF FlatOf
<1> DEFINE at(x) == CHOOSE i \in DOMAIN q : q[i] = x
           p == [x \in S |-> o[at(x)]]
<1>5. \A x \in S : at(x) \in DOMAIN q /\ q[at(x)] = x
  BY DEF Lists
<1>6. \A i \in DOMAIN q : at(q[i]) = i
  BY <1>1, <1>5 DEF Lists
<1>7. \A x \in S : p[x] = o[at(x)] /\ ss[at(x)] = B[x]
  BY <1>2, <1>5
<1> HIDE DEF at, p
<1>8. \A x \in S : p[x] \in Nat
  <2> SUFFICES ASSUME NEW x \in S PROVE p[x] \in Nat
    OBVIOUS
  <2>1. at(x) \in DOMAIN ss
    BY <1>2, <1>5
  <2>2. o[at(x)] \in Nat
    BY <2>1, <1>4 DEF FlatAt
  <2> QED
    BY <2>2, <1>7
<1>9. ASSUME NEW x \in S, NEW l \in DOMAIN B[x]
      PROVE  p[x] + l \in DOMAIN r /\ r[p[x] + l] = B[x][l]
  <2>1. at(x) \in DOMAIN ss /\ l \in DOMAIN ss[at(x)]
    BY <1>2, <1>5, <1>7
  <2>2. o[at(x)] + l \in DOMAIN r /\ r[o[at(x)] + l] = ss[at(x)][l]
    BY <2>1, <1>4 DEF FlatAt
  <2> QED
    BY <2>2, <1>7
<1>10. ASSUME NEW n \in DOMAIN r
       PROVE  \E x \in S : \E l \in DOMAIN B[x] : n = p[x] + l
  <2>1. PICK i \in DOMAIN ss : \E l \in DOMAIN ss[i] : n = o[i] + l
    BY <1>4 DEF FlatAt
  <2>2. q[i] \in S /\ ss[i] = B[q[i]] /\ p[q[i]] = o[i]
    BY <2>1, <1>1, <1>2, <1>6, <1>7
  <2> QED
    BY <2>1, <2>2
<1>11. FlatAt(r, S, B, p)
  BY <1>8, <1>9, <1>10 DEF FlatAt
<1> QED
  BY <1>3, <1>11 DEF FlatOf

\* Everything in the sequences is in the flat one, and nothing else.
LEMMA FlatHas ==
    ASSUME NEW r, NEW S, NEW B, FlatOf(r, S, B)
    PROVE  /\ \A x \in S : \A l \in DOMAIN B[x] : \E p \in DOMAIN r : r[p] = B[x][l]
           /\ \A p \in DOMAIN r : \E x \in S : \E l \in DOMAIN B[x] : r[p] = B[x][l]
<1>1. PICK o : FlatAt(r, S, B, o)
  BY DEF FlatOf
<1>2. \A x \in S : \A l \in DOMAIN B[x] : \E p \in DOMAIN r : r[p] = B[x][l]
  BY <1>1 DEF FlatAt
<1>3. \A p \in DOMAIN r : \E x \in S : \E l \in DOMAIN B[x] : r[p] = B[x][l]
  BY <1>1 DEF FlatAt
<1> QED
  BY <1>2, <1>3

----------------------------------------------------------------------------
(***************************************************************************)
(* The section of the clients.                                             *)
(***************************************************************************)
ClientBlock(d, h) == << ClientOf(d.ctxs[h].id) >> \o ClientMessagesChunks(d, h)

LEMMA ClientBlockIs ==
    ASSUME NEW d, StoreSound(d, 0, 0), ClientsSound(d), NEW h \in Durable(d),
           NEW b, b = ClientBlock(d, h)
    PROVE  /\ b \in Seq(ClientKind \cup MsgKind)
           /\ DOMAIN b = 1..(Len(d.ctxs[h].msgs) + 1)
           /\ b[1] = ClientOf(d.ctxs[h].id)
           /\ \A i \in DOMAIN d.ctxs[h].msgs :
                 b[i + 1] = MsgOf(d.ctxs[h].id, d.ctxs[h].msgs[i])
<1> DEFINE m == d.ctxs[h].msgs
           c == d.ctxs[h].id
           q == ClientMessagesChunks(d, h)
           A == ClientKind \cup MsgKind
<1>1. h \in DOMAIN d.ctxs /\ d.ctxs[h] \in Ctxs
  BY DbIs DEF Durable, StoreSound
<1>2. m \in Seq(Msgs) /\ c \in Clients
  BY <1>1, CtxIs, DurableIs
<1>3. q = [i \in DOMAIN m |-> MsgOf(c, m[i])]
  BY DEF ClientMessagesChunks, MsgOf
<1>4. b = << ClientOf(c) >> \o q
  BY DEF ClientBlock
<1> HIDE DEF m, c, q
<1>5. ClientOf(c) \in A /\ \A i \in DOMAIN m : MsgOf(c, m[i]) \in A
  BY <1>2 DEF ClientOf, MsgOf, ClientKind, MsgKind
<1> HIDE DEF A
<1>6. q \in Seq(A) /\ Len(q) = Len(m) /\ DOMAIN q = DOMAIN m /\ Len(m) \in Nat
      /\ DOMAIN m = 1..Len(m)
  BY <1>2, <1>3, <1>5
<1>7. /\ b \in Seq(A) /\ Len(b) = Len(m) + 1 /\ b[1] = ClientOf(c)
      /\ \A i \in 1..Len(m) : b[i + 1] = q[i]
  BY <1>4, <1>5, <1>6
<1>8. DOMAIN b = 1..(Len(m) + 1)
  BY <1>7
<1> QED
  BY <1>3, <1>6, <1>7, <1>8 DEF m, c, A

ClientSection(d, q) ==
    /\ q \in Seq(ClientKind \cup MsgKind)
    /\ FlatOf(q, Durable(d), [h \in Durable(d) |-> ClientBlock(d, h)])

LEMMA ClientSectionIs ==
    ASSUME NEW d, StoreSound(d, 0, 0), ClientsSound(d)
    PROVE  ClientSection(d, ClientChunks(d))
<1> DEFINE S == Durable(d)
           q == SetToSeq(S)
           A == ClientKind \cup MsgKind
           B == [h \in S |-> ClientBlock(d, h)]
           ss == [i \in DOMAIN q |-> B[q[i]]]
<1>1. IsFiniteSet(S)
  BY DurableIs
<1>2. Lists(q, S)
  BY <1>1, SetToSeqIs
<1>3. \A i \in DOMAIN q : q[i] \in S
  BY <1>2 DEF Lists
<1>4. ClientChunks(d) = FlattenSeq([i \in DOMAIN q |-> ClientBlock(d, q[i])])
  BY DEF ClientChunks, Durable, ClientBlock, ClientOf
<1>5. [i \in DOMAIN q |-> ClientBlock(d, q[i])] = ss
  <2> HIDE DEF S, q
  <2> QED
    BY <1>3
<1>6. B \in [S -> Seq(A)]
  BY ClientBlockIs
<1> HIDE DEF S, q, A, B
<1>7. ClientChunks(d) \in Seq(A) /\ FlatOf(ClientChunks(d), S, B)
  BY <1>2, <1>4, <1>5, <1>6, FlatIs, SMTT(60)
<1> QED
  BY <1>7 DEF ClientSection, S, A, B
----------------------------------------------------------------------------
(***************************************************************************)
(* The section of the subscriptions and the retained messages.             *)
(***************************************************************************)
TreeKind == SubKind \cup RetainKind

\* What a leaf of a topic, and a topic, have in the file.
LeafSays(d, t, i, k) ==
    LET leaf == d.leaves[t][i]
    IN  ~d.ctxs[leaf.ctx].clean /\ k = SubOf(d.ctxs[leaf.ctx].id, t, leaf.qos)

RetainSays(d, t, k) == d.retained[t] # NULL /\ k = RetainOf(d.retained[t])

NodeSays(d, t, k) ==
    (\E i \in DOMAIN d.leaves[t] : LeafSays(d, t, i, k)) \/ RetainSays(d, t, k)

LEMMA LeafChunksIs ==
    ASSUME NEW d, StoreSound(d, 0, 0), ClientsSound(d), NEW t \in Topics,
           NEW i \in DOMAIN d.leaves[t], NEW q, q = LeafChunks(d, t, d.leaves[t][i])
    PROVE  /\ q \in Seq(TreeKind)
           /\ \A p \in DOMAIN q : LeafSays(d, t, i, q[p])
           /\ \A k : LeafSays(d, t, i, k) => 1 \in DOMAIN q /\ q[1] = k
<1> DEFINE leaf == d.leaves[t][i]
           h == leaf.ctx
           k == SubOf(d.ctxs[h].id, t, leaf.qos)
<1>1. d.leaves[t] \in Seq(Leaves) /\ h \in DOMAIN d.ctxs
  BY DbIs DEF StoreSound, ClientsSound, LeavesValid
<1>2. leaf \in Leaves
  BY <1>1
<1>3. leaf.qos \in 0..2
  BY <1>2 DEF Leaves
<1>4. CASE d.ctxs[h].clean
  <2>1. q = <<>>
    BY <1>4 DEF LeafChunks
  <2>2. \A x : ~LeafSays(d, t, i, x)
    BY <1>4 DEF LeafSays
  <2> QED
    BY <2>1, <2>2
<1>5. CASE ~d.ctxs[h].clean
  <2>1. q = << k >>
    BY <1>5 DEF LeafChunks, SubOf
  <2>2. d.ctxs[h].id \in Clients
    BY <1>1, <1>5, DurableIs
  <2>3. k \in SubKind
    BY <2>2, <1>3 DEF SubOf, SubKind
  <2>4. \A x : LeafSays(d, t, i, x) <=> x = k
    BY <1>5 DEF LeafSays
  <2> HIDE DEF k
  <2>5. q \in Seq(TreeKind) /\ DOMAIN q = {1} /\ q[1] = k
    BY <2>1, <2>3 DEF TreeKind
  <2> QED
    BY <2>4, <2>5
<1> QED
  BY <1>4, <1>5

NodeSection(d, t, q) ==
    /\ q \in Seq(TreeKind)
    /\ \A p \in DOMAIN q : NodeSays(d, t, q[p])
    /\ \A k : NodeSays(d, t, k) => \E p \in DOMAIN q : q[p] = k

LEMMA NodeSectionIs ==
    ASSUME NEW d, StoreSound(d, 0, 0), ClientsSound(d), NEW t \in Topics
    PROVE  NodeSection(d, t, NodeChunks(d, t))
<1> DEFINE ls == d.leaves[t]
           ss == [i \in DOMAIN ls |-> LeafChunks(d, t, ls[i])]
           a == FlattenSeq(ss)
           s == d.retained[t]
           b == IF s = NULL THEN <<>> ELSE << RetainOf(s) >>
           q == NodeChunks(d, t)
<1>1. ls \in Seq(Leaves) /\ s \in Nat \cup {NULL}
  BY DbIs DEF StoreSound
<1>2. Len(ls) \in Nat /\ DOMAIN ls = 1..Len(ls)
  BY <1>1
<1>3. \A i \in DOMAIN ls : /\ ss[i] \in Seq(TreeKind)
                           /\ \A p \in DOMAIN ss[i] : LeafSays(d, t, i, ss[i][p])
                           /\ \A k : LeafSays(d, t, i, k)
                                        => 1 \in DOMAIN ss[i] /\ ss[i][1] = k
  <2> SUFFICES ASSUME NEW i \in DOMAIN ls
               PROVE  /\ ss[i] \in Seq(TreeKind)
                      /\ \A p \in DOMAIN ss[i] : LeafSays(d, t, i, ss[i][p])
                      /\ \A k : LeafSays(d, t, i, k)
                                   => 1 \in DOMAIN ss[i] /\ ss[i][1] = k
    OBVIOUS
  <2>1. ss[i] = LeafChunks(d, t, d.leaves[t][i])
    OBVIOUS
  <2> HIDE DEF ss
  <2> QED
    BY <2>1, LeafChunksIs, Zenon
<1>4. ss \in Seq(Seq(TreeKind)) /\ DOMAIN ss = DOMAIN ls
  <2>1. \A i \in DOMAIN ls : ss[i] \in Seq(TreeKind)
    BY <1>3
  <2>2. ss \in [DOMAIN ls -> Seq(TreeKind)]
    BY <2>1
  <2> HIDE DEF ss, ls
  <2> QED
    BY <2>2, <1>2
<1>5. q = a \o b
  BY DEF NodeChunks, RetainOf
<1> HIDE DEF ss, ls
<1>6. a \in Seq(TreeKind) /\ FlatOf(a, DOMAIN ss, ss)
  BY <1>4, FlatSelf
<1> HIDE DEF a
<1>7. /\ \A x \in DOMAIN ss : \A l \in DOMAIN ss[x] : \E p \in DOMAIN a : a[p] = ss[x][l]
      /\ \A p \in DOMAIN a : \E x \in DOMAIN ss : \E l \in DOMAIN ss[x] : a[p] = ss[x][l]
  BY <1>6, FlatHas
<1>8. \A p \in DOMAIN a : \E i \in DOMAIN ls : LeafSays(d, t, i, a[p])
  BY <1>3, <1>4, <1>7
<1>9. \A i \in DOMAIN ls : \A k : LeafSays(d, t, i, k) => \E p \in DOMAIN a : a[p] = k
  BY <1>3, <1>4, <1>7
<1>10. /\ b \in Seq(TreeKind)
       /\ \A p \in DOMAIN b : RetainSays(d, t, b[p])
       /\ \A k : RetainSays(d, t, k) => \E p \in DOMAIN b : b[p] = k
  <2>1. CASE s = NULL
    BY <2>1 DEF RetainSays
  <2>2. CASE s # NULL
    <3>1. b = << RetainOf(s) >> /\ s \in Nat
      BY <2>2, <1>1
    <3>2. RetainOf(s) \in TreeKind
      BY <3>1 DEF RetainOf, RetainKind, TreeKind
    <3>3. \A k : RetainSays(d, t, k) <=> k = RetainOf(s)
      BY <2>2 DEF RetainSays
    <3>4. b \in Seq(TreeKind) /\ DOMAIN b = {1} /\ b[1] = RetainOf(s)
      BY <3>1, <3>2
    <3> QED
      BY <3>3, <3>4
  <2> QED
    BY <2>1, <2>2
<1> HIDE DEF b, q
<1>11. /\ q \in Seq(TreeKind) /\ Len(q) = Len(a) + Len(b)
       /\ \A p \in DOMAIN q : \/ p \in DOMAIN a /\ q[p] = a[p]
                              \/ p - Len(a) \in DOMAIN b /\ q[p] = b[p - Len(a)]
       /\ \A p \in DOMAIN a : p \in DOMAIN q /\ q[p] = a[p]
       /\ \A p \in DOMAIN b : Len(a) + p \in DOMAIN q /\ q[Len(a) + p] = b[p]
  BY <1>5, <1>6, <1>10
<1>12. \A p \in DOMAIN q : NodeSays(d, t, q[p])
  BY <1>8, <1>10, <1>11 DEF NodeSays, ls
<1>13. \A k : NodeSays(d, t, k) => \E p \in DOMAIN q : q[p] = k
  BY <1>9, <1>10, <1>11 DEF NodeSays, ls
<1> QED
  BY <1>11, <1>12, <1>13 DEF NodeSection, q

TreeSection(d, q) ==
    /\ q \in Seq(TreeKind)
    /\ \A p \in DOMAIN q : \E t \in Topics : NodeSays(d, t, q[p])
    /\ \A t \in Topics : \A k : NodeSays(d, t, k) => \E p \in DOMAIN q : q[p] = k

LEMMA TreeSectionIs ==
    ASSUME NEW d, StoreSound(d, 0, 0), ClientsSound(d)
    PROVE  TreeSection(d, SubsRetainChunks(d))
<1> DEFINE q == SetToSeq(Topics)
           B == [t \in Topics |-> NodeChunks(d, t)]
           ss == [i \in DOMAIN q |-> B[q[i]]]
           r == SubsRetainChunks(d)
<1>1. Lists(q, Topics)
  BY SetToSeqIs, StoreAssumption
<1>2. \A i \in DOMAIN q : q[i] \in Topics
  BY <1>1 DEF Lists
<1>3. r = FlattenSeq([i \in DOMAIN q |-> NodeChunks(d, q[i])])
  BY DEF SubsRetainChunks
<1>4. [i \in DOMAIN q |-> NodeChunks(d, q[i])] = ss
  <2> HIDE DEF q
  <2> QED
    BY <1>2
<1>5. \A t \in Topics : NodeSection(d, t, B[t])
  BY NodeSectionIs
<1> HIDE DEF q, r
<1>6. B \in [Topics -> Seq(TreeKind)]
  BY <1>5 DEF NodeSection
<1> HIDE DEF B
<1>7. r \in Seq(TreeKind) /\ FlatOf(r, Topics, B)
  BY <1>1, <1>3, <1>4, <1>6, FlatIs, SMTT(60)
<1>8. /\ \A t \in Topics : \A l \in DOMAIN B[t] : \E p \in DOMAIN r : r[p] = B[t][l]
      /\ \A p \in DOMAIN r : \E t \in Topics : \E l \in DOMAIN B[t] : r[p] = B[t][l]
  BY <1>7, FlatHas
<1>9. \A p \in DOMAIN r : \E t \in Topics : NodeSays(d, t, r[p])
  BY <1>5, <1>8 DEF NodeSection
<1>10. \A t \in Topics : \A k : NodeSays(d, t, k) => \E p \in DOMAIN r : r[p] = k
  BY <1>5, <1>8 DEF NodeSection
<1> QED
  BY <1>7, <1>9, <1>10 DEF TreeSection, r
----------------------------------------------------------------------------
(***************************************************************************)
(* The whole file.                                                         *)
(***************************************************************************)
StoreSays(d, k) == \E s \in DOMAIN d.store : k = StoreOf(d, s)

MsgSays(d, h, k) ==
    \E i \in DOMAIN d.ctxs[h].msgs : k = MsgOf(d.ctxs[h].id, d.ctxs[h].msgs[i])

ClientSays(d, k) ==
    \E h \in Durable(d) : k = ClientOf(d.ctxs[h].id) \/ MsgSays(d, h, k)

TreeSays(d, k) == \E t \in Topics : NodeSays(d, t, k)

LEMMA ClientSectionSays ==
    ASSUME NEW d, StoreSound(d, 0, 0), ClientsSound(d), NEW q, ClientSection(d, q)
    PROVE  /\ \A p \in DOMAIN q : ClientSays(d, q[p])
           /\ \A k : ClientSays(d, k) => \E p \in DOMAIN q : q[p] = k
<1> DEFINE S == Durable(d)
           B == [h \in S |-> ClientBlock(d, h)]
<1>1. /\ \A h \in S : \A l \in DOMAIN B[h] : \E p \in DOMAIN q : q[p] = B[h][l]
      /\ \A p \in DOMAIN q : \E h \in S : \E l \in DOMAIN B[h] : q[p] = B[h][l]
  BY FlatHas DEF ClientSection
<1>2. ASSUME NEW h \in S
      PROVE  /\ DOMAIN B[h] = 1..(Len(d.ctxs[h].msgs) + 1)
             /\ B[h][1] = ClientOf(d.ctxs[h].id)
             /\ \A i \in DOMAIN d.ctxs[h].msgs :
                   B[h][i + 1] = MsgOf(d.ctxs[h].id, d.ctxs[h].msgs[i])
             /\ Len(d.ctxs[h].msgs) \in Nat
             /\ DOMAIN d.ctxs[h].msgs = 1..Len(d.ctxs[h].msgs)
  <2>1. B[h] = ClientBlock(d, h)
    OBVIOUS
  <2>2. d.ctxs[h].msgs \in Seq(Msgs)
    BY DbIs, CtxIs DEF StoreSound, Durable
  <2> HIDE DEF B
  <2> QED
    BY <2>1, <2>2, ClientBlockIs
<1> HIDE DEF B, S
<1>3. ASSUME NEW p \in DOMAIN q PROVE ClientSays(d, q[p])
  <2>1. PICK h \in S : \E l \in DOMAIN B[h] : q[p] = B[h][l]
    BY <1>1
  <2>2. PICK l \in DOMAIN B[h] : q[p] = B[h][l]
    BY <2>1
  <2>3. CASE l = 1
    BY <2>2, <2>3, <1>2 DEF ClientSays, S
  <2>4. CASE l # 1
    <3>1. l - 1 \in DOMAIN d.ctxs[h].msgs /\ (l - 1) + 1 = l
      BY <2>4, <1>2
    <3>2. q[p] = MsgOf(d.ctxs[h].id, d.ctxs[h].msgs[l - 1])
      BY <3>1, <2>2, <1>2
    <3> QED
      BY <3>1, <3>2 DEF ClientSays, MsgSays, S
  <2> QED
    BY <2>3, <2>4
<1>4. ASSUME NEW k, ClientSays(d, k) PROVE \E p \in DOMAIN q : q[p] = k
  <2>1. PICK h \in S : k = ClientOf(d.ctxs[h].id) \/ MsgSays(d, h, k)
    BY <1>4 DEF ClientSays, S
  <2>2. CASE k = ClientOf(d.ctxs[h].id)
    <3>1. 1 \in DOMAIN B[h] /\ B[h][1] = k
      BY <2>2, <1>2
    <3> QED
      BY <3>1, <1>1
  <2>3. CASE MsgSays(d, h, k)
    <3>1. PICK i \in DOMAIN d.ctxs[h].msgs : k = MsgOf(d.ctxs[h].id, d.ctxs[h].msgs[i])
      BY <2>3 DEF MsgSays
    <3>2. i + 1 \in DOMAIN B[h] /\ B[h][i + 1] = k
      BY <3>1, <1>2
    <3> QED
      BY <3>2, <1>1
  <2> QED
    BY <2>1, <2>2, <2>3
<1> QED
  BY <1>3, <1>4

Joined(r, s, t) ==
    /\ Len(r) = Len(s) + Len(t) /\ \A i \in 1..Len(s) : r[i] = s[i]
    /\ \A i \in 1..Len(t) : r[Len(s) + i] = t[i]

LEMMA JoinIs ==
    ASSUME NEW A, NEW s \in Seq(A), NEW t \in Seq(A), NEW r, r = s \o t
    PROVE  r \in Seq(A) /\ Joined(r, s, t)
  BY DEF Joined

\* The sections one after the other.
Written(d, ks, S, C, T) ==
    /\ StoreSection(d, S) /\ ClientSection(d, C) /\ TreeSection(d, T)
    /\ ks = << CfgOf(d) >> \o S \o C \o T

LEMMA BackupIs ==
    ASSUME NEW d, StoreSound(d, 0, 0), ClientsSound(d), Readable(d)
    PROVE  Written(d, mqtt3_db_backup(d), StoreChunks(d), ClientChunks(d),
                   SubsRetainChunks(d))
  BY StoreSectionIs, ClientSectionIs, TreeSectionIs
     DEF mqtt3_db_backup, Written, CfgOf

\* Where the sections are.
Laid(ks, S, C, T) ==
    /\ 1 \in DOMAIN ks /\ Len(S) \in Nat /\ Len(C) \in Nat /\ Len(T) \in Nat
    /\ DOMAIN S = 1..Len(S) /\ DOMAIN C = 1..Len(C) /\ DOMAIN T = 1..Len(T)
    /\ Len(ks) = 1 + Len(S) + Len(C) + Len(T) /\ DOMAIN ks = 1..Len(ks)
    /\ \A i \in 1..Len(S) : ks[1 + i] = S[i]
    /\ \A i \in 1..Len(C) : ks[1 + Len(S) + i] = C[i]
    /\ \A i \in 1..Len(T) : ks[1 + Len(S) + Len(C) + i] = T[i]

LEMMA WrittenLaid ==
    ASSUME NEW d \in Dbs, NEW ks, NEW S, NEW C, NEW T, Written(d, ks, S, C, T)
    PROVE  ks \in Seq(Chunks) /\ ks[1] = CfgOf(d) /\ Laid(ks, S, C, T)
<1>1. S \in Seq(Chunks)
  BY DEF Written, StoreSection, Chunks
<1>2. C \in Seq(Chunks)
  BY DEF Written, ClientSection, Chunks
<1>3. T \in Seq(Chunks)
  BY DEF Written, TreeSection, TreeKind, Chunks
<1>4. CfgOf(d) \in Chunks
  BY DbIs DEF CfgOf, Chunks
<1> DEFINE c == CfgOf(d)
           a == << c >> \o S
           b == a \o C
<1>5. ks = b \o T
  BY DEF Written
<1> HIDE DEF c
<1>6. /\ a \in Seq(Chunks) /\ Len(a) = 1 + Len(S) /\ a[1] = c
      /\ \A i \in 1..Len(S) : a[1 + i] = S[i]
  BY <1>1, <1>4 DEF c
<1> HIDE DEF a
<1>7. /\ b \in Seq(Chunks) /\ Len(b) = 1 + Len(S) + Len(C) /\ b[1] = c
      /\ \A i \in 1..Len(S) : b[1 + i] = S[i]
      /\ \A i \in 1..Len(C) : b[1 + Len(S) + i] = C[i]
  <2>1. Len(S) \in Nat /\ Len(C) \in Nat
    BY <1>1, <1>2
  <2>2. /\ b \in Seq(Chunks) /\ Len(b) = Len(a) + Len(C)
        /\ \A i \in 1..Len(a) : b[i] = a[i]
        /\ \A i \in 1..Len(C) : b[Len(a) + i] = C[i]
    <3>1. a \in Seq(Chunks)
      BY <1>6
    <3>2. b \in Seq(Chunks) /\ Joined(b, a, C)
      BY <3>1, <1>2, JoinIs
    <3> QED
      BY <3>2 DEF Joined
  <2> HIDE DEF b
  <2>3. Len(b) = 1 + Len(S) + Len(C) /\ b[1] = c
    BY <2>1, <2>2, <1>6
  <2>4. ASSUME NEW i \in 1..Len(S) PROVE b[1 + i] = S[i]
    <3>1. 1 + i \in 1..Len(a)
      BY <2>1, <1>6
    <3> QED
      BY <3>1, <2>2, <1>6
  <2>5. \A i \in 1..Len(C) : b[1 + Len(S) + i] = C[i]
    BY <2>2, <1>6
  <2> QED
    BY <2>2, <2>3, <2>4, <2>5
<1> HIDE DEF b
<1>8. /\ ks \in Seq(Chunks) /\ Len(ks) = 1 + Len(S) + Len(C) + Len(T) /\ ks[1] = c
      /\ \A i \in 1..Len(S) : ks[1 + i] = S[i]
      /\ \A i \in 1..Len(C) : ks[1 + Len(S) + i] = C[i]
      /\ \A i \in 1..Len(T) : ks[1 + Len(S) + Len(C) + i] = T[i]
  <2>1. Len(S) \in Nat /\ Len(C) \in Nat /\ Len(T) \in Nat
    BY <1>1, <1>2, <1>3
  <2>2. /\ ks \in Seq(Chunks) /\ Len(ks) = Len(b) + Len(T)
        /\ \A i \in 1..Len(b) : ks[i] = b[i]
        /\ \A i \in 1..Len(T) : ks[Len(b) + i] = T[i]
    <3>1. b \in Seq(Chunks)
      BY <1>7
    <3>2. ks \in Seq(Chunks) /\ Joined(ks, b, T)
      BY <3>1, <1>3, <1>5, JoinIs
    <3> QED
      BY <3>2 DEF Joined
  <2>3. /\ 1 \in 1..Len(b)
        /\ \A i \in 1..Len(S) : 1 + i \in 1..Len(b)
        /\ \A i \in 1..Len(C) : 1 + Len(S) + i \in 1..Len(b)
    BY <2>1, <1>7
  <2> QED
    BY <2>2, <2>3, <1>7
<1>9. /\ 1 \in DOMAIN ks /\ Len(S) \in Nat /\ Len(C) \in Nat /\ Len(T) \in Nat
      /\ DOMAIN S = 1..Len(S) /\ DOMAIN C = 1..Len(C) /\ DOMAIN T = 1..Len(T)
      /\ DOMAIN ks = 1..Len(ks)
  BY <1>1, <1>2, <1>3, <1>8
<1> QED
  BY <1>8, <1>9 DEF Laid, c
\* What is known of the file of a database: the stored messages come first.
StoresOnce(ks) ==
    \A i, j \in DOMAIN ks :
        ks[i].chunk = "MSG_STORE" /\ ks[j].chunk = "MSG_STORE"
        /\ ks[i].db_id = ks[j].db_id => i = j

Says(d, k) == StoreSays(d, k) \/ ClientSays(d, k) \/ TreeSays(d, k)

StoresBefore(d, ks, i) ==
    \A s \in DOMAIN d.store : \E j \in 1..(i - 1) : ks[j] = StoreOf(d, s)

Dump(d, ks) ==
    /\ ks \in Seq(Chunks) /\ 1 \in DOMAIN ks /\ ks[1] = CfgOf(d)
    /\ \A i \in DOMAIN ks : i # 1 => Says(d, ks[i])
    /\ \A k : Says(d, k) => \E i \in DOMAIN ks : ks[i] = k
    /\ \A i \in DOMAIN ks : i # 1 /\ ks[i].chunk # "MSG_STORE" => StoresBefore(d, ks, i)
    /\ StoresOnce(ks)

LEMMA SaysKind ==
    ASSUME NEW d, NEW k
    PROVE  /\ StoreSays(d, k) => k.chunk = "MSG_STORE"
           /\ ClientSays(d, k) => k.chunk \in {"CLIENT", "CLIENT_MSG"}
           /\ TreeSays(d, k) => k.chunk \in {"SUB", "RETAIN"}
<1>1. StoreSays(d, k) => k.chunk = "MSG_STORE"
  BY DEF StoreSays, StoreOf
<1>2. ClientSays(d, k) => k.chunk \in {"CLIENT", "CLIENT_MSG"}
  BY DEF ClientSays, MsgSays, ClientOf, MsgOf
<1>3. TreeSays(d, k) => k.chunk \in {"SUB", "RETAIN"}
  <2> SUFFICES ASSUME NEW t \in Topics, NodeSays(d, t, k)
               PROVE  k.chunk \in {"SUB", "RETAIN"}
    BY DEF TreeSays
  <2>1. ASSUME NEW i \in DOMAIN d.leaves[t], LeafSays(d, t, i, k) PROVE k.chunk = "SUB"
    <3>1. PICK c, q : k = SubOf(c, t, q)
      BY <2>1, Zenon DEF LeafSays
    <3> QED
      BY <3>1 DEF SubOf
  <2>2. CASE RetainSays(d, t, k)
    BY <2>2 DEF RetainSays, RetainOf
  <2> QED
    BY <2>1, <2>2, Zenon DEF NodeSays
<1> QED
  BY <1>1, <1>2, <1>3

LEMMA BackupDump ==
    ASSUME NEW d, StoreSound(d, 0, 0), ClientsSound(d), Readable(d),
           NEW ks, ks = mqtt3_db_backup(d)
    PROVE  Dump(d, ks)
<1> DEFINE S == StoreChunks(d)
           C == ClientChunks(d)
           T == SubsRetainChunks(d)
<1>1. d \in Dbs /\ Written(d, ks, S, C, T)
  BY BackupIs DEF StoreSound
<1> HIDE DEF S, C, T
<1>2. ks \in Seq(Chunks) /\ ks[1] = CfgOf(d) /\ Laid(ks, S, C, T)
  BY <1>1, WrittenLaid
<1>3. StoreSection(d, S) /\ ClientSection(d, C) /\ TreeSection(d, T)
  BY <1>1 DEF Written
<1>4. /\ \A p \in DOMAIN S : StoreSays(d, S[p])
      /\ \A k : StoreSays(d, k) => \E p \in DOMAIN S : S[p] = k
  BY <1>3 DEF StoreSection, StoreSays
<1>5. /\ \A p \in DOMAIN C : ClientSays(d, C[p])
      /\ \A k : ClientSays(d, k) => \E p \in DOMAIN C : C[p] = k
  BY <1>3, ClientSectionSays
<1>6. /\ \A p \in DOMAIN T : TreeSays(d, T[p])
      /\ \A k : TreeSays(d, k) => \E p \in DOMAIN T : T[p] = k
  BY <1>3 DEF TreeSection, TreeSays
<1> DEFINE n == Len(S)
           m == Len(C)
           l == Len(T)
<1>7. n \in Nat /\ m \in Nat /\ l \in Nat /\ DOMAIN ks = 1..(1 + n + m + l)
  BY <1>2 DEF Laid
<1>8. /\ DOMAIN S = 1..n /\ DOMAIN C = 1..m /\ DOMAIN T = 1..l
      /\ \A i \in 1..n : ks[1 + i] = S[i]
      /\ \A i \in 1..m : ks[1 + n + i] = C[i]
      /\ \A i \in 1..l : ks[1 + n + m + i] = T[i]
  BY <1>2 DEF Laid
<1> HIDE DEF n, m, l
<1>9. ASSUME NEW i \in DOMAIN ks
      PROVE  \/ i = 1
             \/ i - 1 \in 1..n /\ ks[i] = S[i - 1]
             \/ i > 1 + n /\ (\E j \in DOMAIN C : ks[i] = C[j])
             \/ i > 1 + n /\ (\E j \in DOMAIN T : ks[i] = T[j])
  <2>1. CASE i = 1
    BY <2>1
  <2>2. CASE i - 1 \in 1..n
    <3>1. 1 + (i - 1) = i
      BY <1>7
    <3> QED
      BY <3>1, <2>2, <1>8
  <2>3. CASE i - (1 + n) \in 1..m
    <3>1. 1 + n + (i - (1 + n)) = i /\ i > 1 + n
      BY <2>3, <1>7
    <3> QED
      BY <3>1, <2>3, <1>8
  <2>4. CASE i - (1 + n + m) \in 1..l
    <3>1. 1 + n + m + (i - (1 + n + m)) = i /\ i > 1 + n
      BY <2>4, <1>7
    <3> QED
      BY <3>1, <2>4, <1>8
  <2> QED
    BY <2>1, <2>2, <2>3, <2>4, <1>7
<1>10. \A i \in DOMAIN ks : i # 1 => Says(d, ks[i])
  BY <1>4, <1>5, <1>6, <1>8, <1>9 DEF Says
<1>11. /\ \A p \in DOMAIN S : 1 + p \in DOMAIN ks
       /\ \A p \in DOMAIN C : 1 + n + p \in DOMAIN ks
       /\ \A p \in DOMAIN T : 1 + n + m + p \in DOMAIN ks
  BY <1>7, <1>8
<1>12. ASSUME NEW k, Says(d, k) PROVE \E i \in DOMAIN ks : ks[i] = k
  <2>1. CASE StoreSays(d, k)
    BY <2>1, <1>4, <1>8, <1>11
  <2>2. CASE ClientSays(d, k)
    BY <2>2, <1>5, <1>8, <1>11
  <2>3. CASE TreeSays(d, k)
    BY <2>3, <1>6, <1>8, <1>11
  <2> QED
    BY <1>12, <2>1, <2>2, <2>3 DEF Says
<1>13. ASSUME NEW i \in DOMAIN ks, ks[i].chunk = "MSG_STORE"
       PROVE  i - 1 \in 1..n /\ ks[i] = S[i - 1]
  <2>1. \A j \in DOMAIN C : C[j].chunk # "MSG_STORE"
    BY <1>5, SaysKind
  <2>2. \A j \in DOMAIN T : T[j].chunk # "MSG_STORE"
    BY <1>6, SaysKind
  <2>3. i # 1
    BY <1>2, <1>13 DEF CfgOf
  <2> QED
    BY <2>1, <2>2, <2>3, <1>9, <1>13
<1>14. StoresOnce(ks)
  <2> SUFFICES ASSUME NEW i \in DOMAIN ks, NEW j \in DOMAIN ks,
                      ks[i].chunk = "MSG_STORE", ks[j].chunk = "MSG_STORE",
                      ks[i].db_id = ks[j].db_id
               PROVE  i = j
    BY DEF StoresOnce
  <2>1. /\ i - 1 \in DOMAIN S /\ ks[i] = S[i - 1]
        /\ j - 1 \in DOMAIN S /\ ks[j] = S[j - 1]
    BY <1>8, <1>13
  <2>2. i - 1 = j - 1
    BY <2>1, <1>3 DEF StoreSection
  <2>3. i \in Int /\ j \in Int
    BY <1>7
  <2> QED
    BY <2>2, <2>3
<1>15. ASSUME NEW i \in DOMAIN ks, i # 1, ks[i].chunk # "MSG_STORE"
       PROVE  StoresBefore(d, ks, i)
  <2>1. i > 1 + n
    <3>1. ASSUME i - 1 \in 1..n /\ ks[i] = S[i - 1] PROVE FALSE
      BY <3>1, <1>4, <1>8, <1>15, SaysKind
    <3> QED
      BY <3>1, <1>9, <1>15
  <2>2. ASSUME NEW s \in DOMAIN d.store PROVE \E j \in 1..(i - 1) : ks[j] = StoreOf(d, s)
    <3>1. PICK p \in 1..n : S[p] = StoreOf(d, s)
      BY <1>3, <1>8 DEF StoreSection
    <3>2. 1 + p \in 1..(i - 1)
      BY <2>1, <1>7
    <3> QED
      BY <3>1, <3>2, <1>8
  <2> QED
    BY <2>2 DEF StoresBefore
<1>16. 1 \in DOMAIN ks
  BY <1>7
<1> QED
  BY <1>2, <1>10, <1>12, <1>14, <1>15, <1>16 DEF Dump

\* What a chunk of each kind is about.
LEMMA DumpIs ==
    ASSUME NEW d, NEW ks, Dump(d, ks), NEW i \in DOMAIN ks
    PROVE  /\ ks[i] \in Chunks /\ (ks[i].chunk = "CFG" <=> i = 1)
           /\ ks[i].chunk = "MSG_STORE" => \E s \in DOMAIN d.store : ks[i] = StoreOf(d, s)
           /\ ks[i].chunk = "CLIENT"
                 => \E h \in Durable(d) : ks[i] = ClientOf(d.ctxs[h].id)
           /\ ks[i].chunk = "CLIENT_MSG" => \E h \in Durable(d) : MsgSays(d, h, ks[i])
           /\ ks[i].chunk = "SUB"
                 => \E t \in Topics : \E j \in DOMAIN d.leaves[t] : LeafSays(d, t, j, ks[i])
           /\ ks[i].chunk = "RETAIN" => \E t \in Topics : RetainSays(d, t, ks[i])
<1> DEFINE k == ks[i]
<1>1. k \in Chunks
  BY DEF Dump
<1>2. i = 1 => k.chunk = "CFG"
  BY DEF Dump, CfgOf
<1>3. i # 1 => Says(d, k)
  BY DEF Dump
<1> HIDE DEF k
<1>4. ~(i # 1 /\ k.chunk = "CFG")
  BY <1>3, SaysKind DEF Says
<1>5. k.chunk = "MSG_STORE" => \E s \in DOMAIN d.store : k = StoreOf(d, s)
  BY <1>2, <1>3, SaysKind DEF Says, StoreSays
<1>6. k.chunk \in {"CLIENT", "CLIENT_MSG"} => ClientSays(d, k)
  BY <1>2, <1>3, SaysKind DEF Says
<1>7. k.chunk \in {"SUB", "RETAIN"} => TreeSays(d, k)
  BY <1>2, <1>3, SaysKind DEF Says
<1>8. k.chunk = "CLIENT" => \E h \in Durable(d) : k = ClientOf(d.ctxs[h].id)
  BY <1>6 DEF ClientSays, MsgSays, MsgOf
<1>9. k.chunk = "CLIENT_MSG" => \E h \in Durable(d) : MsgSays(d, h, k)
  BY <1>6 DEF ClientSays, ClientOf
<1>10. k.chunk = "SUB"
          => \E t \in Topics : \E j \in DOMAIN d.leaves[t] : LeafSays(d, t, j, k)
  BY <1>7 DEF TreeSays, NodeSays, RetainSays, RetainOf
<1>11. k.chunk = "RETAIN" => \E t \in Topics : RetainSays(d, t, k)
  BY <1>7 DEF TreeSays, NodeSays, LeafSays, SubOf
<1> QED
  BY <1>1, <1>2, <1>4, <1>5, <1>8, <1>9, <1>10, <1>11 DEF k
----------------------------------------------------------------------------
(***************************************************************************)
(* Files a broker can start from: what was saved, and every beginning of   *)
(* it.                                                                     *)
(***************************************************************************)
CfgFirst(ks) == \A i \in DOMAIN ks : ks[i].chunk = "CFG" <=> i = 1

StoresSaved(ks) ==
    \A i \in DOMAIN ks : ks[i].chunk = "MSG_STORE"
        => 1 <= ks[i].db_id /\ ks[i].db_id <= ks[1].last

\* A chunk that names a message comes after the message.
StoreBefore(ks, i, s) ==
    \E j \in 1..(i - 1) : ks[j].chunk = "MSG_STORE" /\ ks[j].db_id = s

RetainedBefore(ks, i, s) ==
    \E j \in 1..(i - 1) : /\ ks[j].chunk = "MSG_STORE" /\ ks[j].db_id = s
                          /\ ks[j].retain /\ ks[j].payload

MsgsBacked(ks) ==
    \A i \in DOMAIN ks : ks[i].chunk = "CLIENT_MSG" => StoreBefore(ks, i, ks[i].msg.store)

RetainsBacked(ks) ==
    \A i \in DOMAIN ks : ks[i].chunk = "RETAIN" => RetainedBefore(ks, i, ks[i].db_id)

\* The message s is in the file, with topic t.
TopicIs(ks, s, t) ==
    \E i \in DOMAIN ks : /\ ks[i].chunk = "MSG_STORE" /\ ks[i].db_id = s
                         /\ ks[i].topic = t

RetainsOnce(ks) ==
    \A i, j \in DOMAIN ks : \A t :
        /\ ks[i].chunk = "RETAIN" /\ TopicIs(ks, ks[i].db_id, t)
        /\ ks[j].chunk = "RETAIN" /\ TopicIs(ks, ks[j].db_id, t)
        => ks[i].db_id = ks[j].db_id

SubsOnce(ks) ==
    \A i, j \in DOMAIN ks :
        /\ ks[i].chunk = "SUB" /\ ks[j].chunk = "SUB"
        /\ ks[i].client = ks[j].client /\ ks[i].topic = ks[j].topic
        => ks[i].qos = ks[j].qos

\* One of the first n chunks names client c.
Named(ks, n, c) ==
    \E i \in 1..n : ks[i].chunk \in {"CLIENT", "CLIENT_MSG", "SUB"} /\ ks[i].client = c

\* There is memory for a context of each client.
HostedAt(ks, J) ==
    \A a \in Clients : Named(ks, Len(ks), a) =>
        /\ J[a] \in Contexts
        /\ \A b \in Clients : Named(ks, Len(ks), b) /\ J[a] = J[b] => a = b

Hosted(ks) == \E J : HostedAt(ks, J)

FileOk(ks) ==
    /\ ks \in Seq(Chunks) /\ CfgFirst(ks) /\ StoresSaved(ks) /\ StoresOnce(ks)
    /\ MsgsBacked(ks) /\ RetainsBacked(ks) /\ RetainsOnce(ks) /\ SubsOnce(ks)
    /\ Hosted(ks)

\* The first n chunks of ks.
FirstOf(ks, n, ps) ==
    /\ ps \in Seq(Chunks) /\ Len(ps) = n /\ DOMAIN ps = 1..n
    /\ \A i \in 1..n : ps[i] = ks[i] /\ i \in DOMAIN ks

LEMMA FirstOk ==
    ASSUME NEW ks, FileOk(ks), NEW n \in 0..Len(ks), NEW ps, FirstOf(ks, n, ps)
    PROVE  FileOk(ps)
<1>1. ks \in Seq(Chunks) /\ Len(ks) \in Nat /\ DOMAIN ks = 1..Len(ks)
  BY DEF FileOk
<1>2. /\ ps \in Seq(Chunks) /\ Len(ps) = n /\ DOMAIN ps = 1..n
      /\ \A i \in 1..n : ps[i] = ks[i] /\ i \in DOMAIN ks
  BY DEF FirstOf
<1>3. CfgFirst(ps)
  BY <1>2 DEF FileOk, CfgFirst
<1>4. StoresSaved(ps)
  <2> SUFFICES ASSUME NEW i \in 1..n, ps[i].chunk = "MSG_STORE"
               PROVE  1 <= ps[i].db_id /\ ps[i].db_id <= ps[1].last
    BY <1>2 DEF StoresSaved
  <2>1. 1 \in 1..n
    OBVIOUS
  <2> QED
    BY <2>1, <1>2 DEF FileOk, StoresSaved
<1>5. StoresOnce(ps)
  BY <1>2 DEF FileOk, StoresOnce
<1>6. MsgsBacked(ps)
  <2> SUFFICES ASSUME NEW i \in 1..n, ps[i].chunk = "CLIENT_MSG"
               PROVE  StoreBefore(ps, i, ps[i].msg.store)
    BY <1>2 DEF MsgsBacked
  <2>1. StoreBefore(ks, i, ks[i].msg.store) /\ ps[i] = ks[i]
    BY <1>2 DEF FileOk, MsgsBacked
  <2>2. \A j \in 1..(i - 1) : j \in 1..n
    OBVIOUS
  <2> QED
    BY <2>1, <2>2, <1>2 DEF StoreBefore
<1>7. RetainsBacked(ps)
  <2> SUFFICES ASSUME NEW i \in 1..n, ps[i].chunk = "RETAIN"
               PROVE  RetainedBefore(ps, i, ps[i].db_id)
    BY <1>2 DEF RetainsBacked
  <2>1. RetainedBefore(ks, i, ks[i].db_id) /\ ps[i] = ks[i]
    BY <1>2 DEF FileOk, RetainsBacked
  <2>2. \A j \in 1..(i - 1) : j \in 1..n
    OBVIOUS
  <2> QED
    BY <2>1, <2>2, <1>2 DEF RetainedBefore
<1>8. RetainsOnce(ps)
  <2>1. \A s, t : TopicIs(ps, s, t) => TopicIs(ks, s, t)
    BY <1>2 DEF TopicIs
  <2> QED
    BY <2>1, <1>2 DEF FileOk, RetainsOnce
<1>9. SubsOnce(ps)
  BY <1>2 DEF FileOk, SubsOnce
<1>10. Hosted(ps)
  <2>1. PICK J : HostedAt(ks, J)
    BY DEF FileOk, Hosted
  <2>2. \A c : Named(ps, n, c) => Named(ks, Len(ks), c)
    BY <1>1, <1>2 DEF Named
  <2>3. HostedAt(ps, J)
    BY <2>1, <2>2, <1>2 DEF HostedAt
  <2> QED
    BY <2>3 DEF Hosted
<1> QED
  BY <1>2, <1>3, <1>4, <1>5, <1>6, <1>7, <1>8, <1>9, <1>10 DEF FileOk

LEMMA FileOkPrefix ==
    ASSUME NEW ks, FileOk(ks), NEW n \in 0..Len(ks), NEW ps, ps = SubSeq(ks, 1, n)
    PROVE  FileOk(ps) /\ Len(ps) = n /\ \A i \in DOMAIN ps : i \in DOMAIN ks /\ ps[i] = ks[i]
<1>1. ks \in Seq(Chunks) /\ Len(ks) \in Nat /\ DOMAIN ks = 1..Len(ks)
  BY DEF FileOk
<1>2. FirstOf(ks, n, ps)
  BY <1>1 DEF FirstOf
<1> QED
  BY <1>2, FirstOk DEF FirstOf

LEMMA EmptyFileOk ==
    FileOk(<<>>)
<1>1. <<>> \in Seq(Chunks) /\ Len(<<>>) = 0 /\ DOMAIN <<>> = {}
  OBVIOUS
<1>2. Hosted(<<>>)
  BY <1>1 DEF Hosted, HostedAt, Named
<1> QED
  BY <1>1, <1>2 DEF FileOk, CfgFirst, StoresSaved, StoresOnce, MsgsBacked,
     RetainsBacked, RetainsOnce, SubsOnce

\* What is saved is such a file.
LEMMA DumpOk ==
    ASSUME NEW d, StoreSound(d, 0, 0), ClientsSound(d), NEW ks, Dump(d, ks)
    PROVE  FileOk(ks)
<1>1. /\ ks \in Seq(Chunks) /\ 1 \in DOMAIN ks /\ ks[1].last = d.last
      /\ Len(ks) \in Nat /\ DOMAIN ks = 1..Len(ks) /\ StoresOnce(ks)
  BY DEF Dump, CfgOf
<1>2. CfgFirst(ks)
  BY DumpIs DEF CfgFirst
<1>3. \A i \in DOMAIN ks : ks[i].chunk = "MSG_STORE"
         => ks[i].db_id \in DOMAIN d.store /\ ks[i].topic = d.store[ks[i].db_id].topic
  BY DumpIs DEF StoreOf
<1>4. StoresSaved(ks)
  BY <1>1, <1>3 DEF StoresSaved, StoreSound, IdsBounded
<1>5. MsgsBacked(ks)
  <2> SUFFICES ASSUME NEW i \in DOMAIN ks, ks[i].chunk = "CLIENT_MSG"
               PROVE  StoreBefore(ks, i, ks[i].msg.store)
    BY DEF MsgsBacked
  <2>1. PICK h \in Durable(d) : MsgSays(d, h, ks[i])
    BY DumpIs
  <2>2. h \in DOMAIN d.ctxs /\ ks[i].msg.store \in DOMAIN d.store
    BY <2>1 DEF Durable, MsgSays, MsgOf, StoreSound, ListsValid
  <2>3. i # 1 /\ StoresBefore(d, ks, i)
    BY <1>2 DEF Dump, CfgFirst
  <2>4. PICK j \in 1..(i - 1) : ks[j] = StoreOf(d, ks[i].msg.store)
    BY <2>2, <2>3 DEF StoresBefore
  <2> QED
    BY <2>4 DEF StoreBefore, StoreOf
<1>6. ASSUME NEW i \in DOMAIN ks, ks[i].chunk = "RETAIN"
      PROVE  /\ ks[i].db_id \in DOMAIN d.store
             /\ d.store[ks[i].db_id].topic \in Topics
             /\ d.retained[d.store[ks[i].db_id].topic] = ks[i].db_id
             /\ d.store[ks[i].db_id].retain /\ d.store[ks[i].db_id].payload
  <2>1. PICK t \in Topics : RetainSays(d, t, ks[i])
    BY <1>6, DumpIs
  <2>2. d.retained[t] # NULL /\ ks[i].db_id = d.retained[t]
    BY <2>1 DEF RetainSays, RetainOf
  <2> QED
    BY <2>2 DEF StoreSound, RetainedValid
<1>7. RetainsBacked(ks)
  <2> SUFFICES ASSUME NEW i \in DOMAIN ks, ks[i].chunk = "RETAIN"
               PROVE  RetainedBefore(ks, i, ks[i].db_id)
    BY DEF RetainsBacked
  <2>1. i # 1 /\ StoresBefore(d, ks, i)
    BY <1>2 DEF Dump, CfgFirst
  <2>2. PICK j \in 1..(i - 1) : ks[j] = StoreOf(d, ks[i].db_id)
    BY <2>1, <1>6 DEF StoresBefore
  <2> QED
    BY <2>2, <1>6 DEF RetainedBefore, StoreOf
<1>8. RetainsOnce(ks)
  <2>1. \A s, t : TopicIs(ks, s, t) => t = d.store[s].topic
    BY <1>3 DEF TopicIs
  <2> QED
    BY <2>1, <1>6 DEF RetainsOnce
<1>9. SubsOnce(ks)
  <2> SUFFICES ASSUME NEW i \in DOMAIN ks, NEW j \in DOMAIN ks,
                      ks[i].chunk = "SUB", ks[j].chunk = "SUB",
                      ks[i].client = ks[j].client, ks[i].topic = ks[j].topic
               PROVE  ks[i].qos = ks[j].qos
    BY DEF SubsOnce
  <2>1. PICK t \in Topics : \E a \in DOMAIN d.leaves[t] : LeafSays(d, t, a, ks[i])
    BY DumpIs
  <2>2. PICK a \in DOMAIN d.leaves[t] : LeafSays(d, t, a, ks[i])
    BY <2>1
  <2>3. PICK u \in Topics : \E b \in DOMAIN d.leaves[u] : LeafSays(d, u, b, ks[j])
    BY DumpIs
  <2>4. PICK b \in DOMAIN d.leaves[u] : LeafSays(d, u, b, ks[j])
    BY <2>3
  <2> DEFINE g == d.leaves[t][a].ctx
             h == d.leaves[u][b].ctx
  <2>5. /\ ks[i].client = d.ctxs[g].id /\ ks[i].topic = t
        /\ ks[i].qos = d.leaves[t][a].qos /\ ~d.ctxs[g].clean
    <3>1. ks[i] = SubOf(d.ctxs[g].id, t, d.leaves[t][a].qos) /\ ~d.ctxs[g].clean
      BY <2>2, Zenon DEF LeafSays
    <3> HIDE DEF g
    <3> QED
      BY <3>1 DEF SubOf
  <2>6. /\ ks[j].client = d.ctxs[h].id /\ ks[j].topic = u
        /\ ks[j].qos = d.leaves[u][b].qos
    <3>1. ks[j] = SubOf(d.ctxs[h].id, u, d.leaves[u][b].qos)
      BY <2>4, Zenon DEF LeafSays
    <3> HIDE DEF h
    <3> QED
      BY <3>1 DEF SubOf
  <2>7. g \in DOMAIN d.ctxs /\ h \in DOMAIN d.ctxs
    BY DEF ClientsSound, LeavesValid
  <2>8. t = u /\ g = h
    BY <2>5, <2>6, <2>7 DEF ClientsSound, OneHome, NoName
  <2>9. a = b
    BY <2>8 DEF ClientsSound, LeavesOnce, Once
  <2> QED
    BY <2>5, <2>6, <2>8, <2>9
<1>10. Hosted(ks)
  <2> DEFINE J == [c \in Clients |-> CHOOSE h \in Durable(d) : d.ctxs[h].id = c]
  <2>1. ASSUME NEW c \in Clients, Named(ks, Len(ks), c)
        PROVE  \E h \in Durable(d) : d.ctxs[h].id = c
    <3>1. PICK i \in DOMAIN ks : /\ ks[i].chunk \in {"CLIENT", "CLIENT_MSG", "SUB"}
                                 /\ ks[i].client = c
      BY <2>1, <1>1 DEF Named
    <3>2. CASE ks[i].chunk = "CLIENT"
      BY <3>1, <3>2, DumpIs DEF ClientOf
    <3>3. CASE ks[i].chunk = "CLIENT_MSG"
      BY <3>1, <3>3, DumpIs DEF MsgSays, MsgOf
    <3>4. CASE ks[i].chunk = "SUB"
      <4>1. PICK t \in Topics : \E a \in DOMAIN d.leaves[t] : LeafSays(d, t, a, ks[i])
        BY <3>4, DumpIs
      <4>2. PICK a \in DOMAIN d.leaves[t] : LeafSays(d, t, a, ks[i])
        BY <4>1
      <4> DEFINE g == d.leaves[t][a].ctx
      <4>3. d.ctxs[g].id = c /\ ~d.ctxs[g].clean
        BY <4>2, <3>1 DEF LeafSays, SubOf
      <4>4. g \in DOMAIN d.ctxs
        BY DEF ClientsSound, LeavesValid
      <4> QED
        BY <4>3, <4>4, DurableIs
    <3> QED
      BY <3>1, <3>2, <3>3, <3>4
  <2>2. \A c \in Clients : Named(ks, Len(ks), c) => J[c] \in Durable(d) /\ d.ctxs[J[c]].id = c
    BY <2>1
  <2> HIDE DEF J
  <2>3. Durable(d) \subseteq Contexts
    BY DbIs DEF Durable, StoreSound
  <2>4. HostedAt(ks, J)
    BY <2>2, <2>3 DEF HostedAt
  <2> QED
    BY <2>4 DEF Hosted
<1> QED
  BY <1>1, <1>2, <1>4, <1>5, <1>7, <1>8, <1>9, <1>10 DEF FileOk
\* The subscriptions and messages of the durable sessions are in the file.
SubSaved(ks, c, t, q) == \E i \in DOMAIN ks : ks[i] = SubOf(c, t, q)

MsgSaved(ks, c, s) ==
    \E i \in DOMAIN ks : /\ ks[i].chunk = "CLIENT_MSG" /\ ks[i].client = c
                         /\ ks[i].msg.store = s /\ ks[i].msg.dir = "out"

SessionOk(ks, w, o) ==
    /\ \A c \in Clients, t \in Topics : w[c][t] # NULL => SubSaved(ks, c, t, w[c][t])
    /\ \A c \in Clients : \A s \in o[c] : MsgSaved(ks, c, s)

LEMMA DumpSessions ==
    ASSUME NEW d, StoreSound(d, 0, 0), ClientsSound(d), NEW ks, Dump(d, ks),
           NEW w, NEW o, Wants(d, w), Owes(d, o)
    PROVE  SessionOk(ks, w, o)
<1>1. ASSUME NEW c \in Clients, NEW t \in Topics, w[c][t] # NULL
      PROVE  SubSaved(ks, c, t, w[c][t])
  <2>1. PICK h \in DOMAIN d.ctxs : /\ d.ctxs[h].id = c /\ ~d.ctxs[h].clean
                                   /\ Has(d.leaves[t], h, w[c][t])
    BY <1>1 DEF Wants
  <2>2. PICK i \in DOMAIN d.leaves[t] : /\ d.leaves[t][i].ctx = h
                                        /\ d.leaves[t][i].qos = w[c][t]
    BY <2>1 DEF Has
  <2>3. LeafSays(d, t, i, SubOf(c, t, w[c][t]))
    BY <2>1, <2>2 DEF LeafSays
  <2>4. Says(d, SubOf(c, t, w[c][t]))
    BY <2>3 DEF Says, TreeSays, NodeSays
  <2> QED
    BY <2>4 DEF Dump, SubSaved
<1>2. ASSUME NEW c \in Clients, NEW s \in o[c] PROVE MsgSaved(ks, c, s)
  <2>1. PICK h \in DOMAIN d.ctxs : /\ d.ctxs[h].id = c /\ ~d.ctxs[h].clean
                                   /\ Holds(d, h, s, "out")
    BY DEF Owes
  <2>2. PICK i \in DOMAIN d.ctxs[h].msgs : /\ d.ctxs[h].msgs[i].store = s
                                           /\ d.ctxs[h].msgs[i].dir = "out"
    BY <2>1 DEF Holds
  <2>3. h \in Durable(d)
    BY <2>1, DurableIs
  <2> DEFINE m == d.ctxs[h].msgs[i]
  <2>4. MsgSays(d, h, MsgOf(c, m))
    BY <2>1, <2>2 DEF MsgSays
  <2>5. Says(d, MsgOf(c, m))
    BY <2>3, <2>4 DEF Says, ClientSays
  <2>6. PICK j \in DOMAIN ks : ks[j] = MsgOf(c, m)
    BY <2>5 DEF Dump
  <2> QED
    BY <2>2, <2>6 DEF MsgSaved, MsgOf
<1> QED
  BY <1>1, <1>2 DEF SessionOk

----------------------------------------------------------------------------
(***************************************************************************)
(* Reading the file.  After k chunks the database has what they say.       *)
(***************************************************************************)
HomesTo(ks, x, k) ==
    /\ \A h \in DOMAIN x.ctxs : /\ ~x.ctxs[h].clean /\ ~x.ctxs[h].sock
                                /\ x.ctxs[h].id \in Clients /\ Named(ks, k, x.ctxs[h].id)
    /\ \A c : Named(ks, k, c) => \E h \in DOMAIN x.ctxs : x.ctxs[h].id = c

StoresTo(ks, x, k) ==
    /\ \A i \in 1..k : ks[i].chunk = "MSG_STORE"
          => /\ ks[i].db_id \in DOMAIN x.store
             /\ SameStored(x.store[ks[i].db_id], ks[i])
    /\ \A s \in DOMAIN x.store :
          \E i \in 1..k : ks[i].chunk = "MSG_STORE" /\ ks[i].db_id = s

LastTo(ks, x, k) == k # 0 => x.last = ks[1].last

LeavesTo(ks, x, k) ==
    \A h \in DOMAIN x.ctxs, t \in Topics : \A q :
        Has(x.leaves[t], h, q) <=> \E i \in 1..k : ks[i] = SubOf(x.ctxs[h].id, t, q)

RetainsTo(ks, x, k) ==
    \A t \in Topics : \A s \in Nat :
        x.retained[t] = s <=> \E i \in 1..k : ks[i] = RetainOf(s) /\ x.store[s].topic = t

\* The list of a client: the messages that name it, in their order.
IsLetter(ks, i, c) == ks[i].chunk = "CLIENT_MSG" /\ ks[i].client = c

Letters(ks, c) ==
    LET after[k \in 0..Len(ks)] ==
            IF k = 0 THEN <<>>
            ELSE IF IsLetter(ks, k, c) THEN Append(after[k - 1], ks[k].msg)
            ELSE after[k - 1]
    IN  after

MsgsTo(ks, x, k) ==
    \A h \in DOMAIN x.ctxs : x.ctxs[h].msgs = Letters(ks, x.ctxs[h].id)[k]

ContentsTo(ks, x, k) ==
    /\ StoresTo(ks, x, k) /\ LastTo(ks, x, k) /\ LeavesTo(ks, x, k)
    /\ RetainsTo(ks, x, k) /\ MsgsTo(ks, x, k)

Restored(ks, x, k) ==
    /\ StoreSound(x, 0, 0) /\ ClientsSound(x)
    /\ HomesTo(ks, x, k) /\ ContentsTo(ks, x, k)

\* What the list of a client is made of.
LettersOf(ks, c, k, m) ==
    /\ m \in Seq(Msgs) /\ (~Named(ks, k, c) => m = <<>>)
    /\ \A i \in 1..k : IsLetter(ks, i, c) => \E j \in DOMAIN m : m[j] = ks[i].msg

LEMMA LettersStep ==
    ASSUME NEW ks \in Seq(Chunks), NEW c, NEW k \in 1..Len(ks), NEW m,
           LettersOf(ks, c, k - 1, m),
           NEW r, r = IF IsLetter(ks, k, c) THEN Append(m, ks[k].msg) ELSE m
    PROVE  LettersOf(ks, c, k, r)
<1>1. m \in Seq(Msgs) /\ \A i \in 1..k : i \in 1..(k - 1) \/ i = k
  BY DEF LettersOf
<1>2. \A n : Named(ks, k - 1, n) => Named(ks, k, n)
  BY DEF Named
<1>3. CASE IsLetter(ks, k, c)
  <2>1. r = Append(m, ks[k].msg)
    BY <1>3
  <2>2. ks[k].msg \in Msgs
    BY <1>3, ChunkIs DEF IsLetter, MsgKind
  <2>3. Named(ks, k, c)
    BY <1>3 DEF Named, IsLetter
  <2>4. /\ r \in Seq(Msgs) /\ \A j \in DOMAIN m : j \in DOMAIN r /\ r[j] = m[j]
        /\ Len(m) + 1 \in DOMAIN r /\ r[Len(m) + 1] = ks[k].msg
    BY <1>1, <2>1, <2>2, AppendIs
  <2>5. ASSUME NEW i \in 1..k, IsLetter(ks, i, c) PROVE \E j \in DOMAIN r : r[j] = ks[i].msg
    <3>1. CASE i = k
      BY <3>1, <2>4
    <3>2. CASE i \in 1..(k - 1)
      BY <3>2, <2>4, <2>5 DEF LettersOf
    <3> QED
      BY <3>1, <3>2, <1>1
  <2> QED
    BY <2>3, <2>4, <2>5 DEF LettersOf
<1>4. CASE ~IsLetter(ks, k, c)
  <2>1. r = m
    BY <1>4
  <2>2. ASSUME NEW i \in 1..k, IsLetter(ks, i, c) PROVE i \in 1..(k - 1)
    BY <1>1, <1>4, <2>2
  <2> QED
    BY <2>1, <2>2, <1>1, <1>2 DEF LettersOf
<1> QED
  BY <1>3, <1>4

LettersAre(ks, c, f) ==
    /\ f[0] = <<>> /\ \A k \in 0..Len(ks) : LettersOf(ks, c, k, f[k])
    /\ \A k \in 1..Len(ks) : f[k] = IF IsLetter(ks, k, c)
                                    THEN Append(f[k - 1], ks[k].msg) ELSE f[k - 1]

LEMMA LettersIs ==
    ASSUME NEW ks \in Seq(Chunks), NEW c
    PROVE  LettersAre(ks, c, Letters(ks, c))
<1> DEFINE n == Len(ks)
           step(k, m) == IF IsLetter(ks, k, c) THEN Append(m, ks[k].msg) ELSE m
           D == [k \in 0..n |-> {m \in Seq(Msgs) : LettersOf(ks, c, k, m)}]
           F == [k \in 1..n |-> [m \in Seq(Msgs) |-> step(k, m)]]
           P(g) == g = [k \in 0..n |-> IF k = 0 THEN <<>> ELSE step(k, g[k - 1])]
<1>1. n \in Nat
  OBVIOUS
<1>2. <<>> \in D[0]
  <2>1. <<>> \in Seq(Msgs)
    OBVIOUS
  <2>2. LettersOf(ks, c, 0, <<>>)
    BY <2>1 DEF LettersOf
  <2> QED
    BY <2>1, <2>2, <1>1
<1>3. ASSUME NEW k \in 1..n, NEW m \in D[k - 1]
      PROVE  step(k, m) \in D[k] /\ m \in Seq(Msgs)
  <2>1. m \in Seq(Msgs) /\ LettersOf(ks, c, k - 1, m) /\ k \in 0..n
    BY <1>1
  <2>2. LettersOf(ks, c, k, step(k, m))
    BY <2>1, LettersStep
  <2> HIDE DEF step
  <2>3. step(k, m) \in Seq(Msgs)
    BY <2>2 DEF LettersOf
  <2> QED
    BY <2>1, <2>2, <2>3
<1>4. Letters(ks, c) = (CHOOSE g : P(g))
  BY DEF Letters
<1> HIDE DEF n, D, step
<1>5. \A k \in 1..n : \A m \in D[k - 1] : F[k][m] \in D[k]
  BY <1>3
<1>6. \E g : P(g)
  <2> HIDE DEF F
  <2>1. PICK g : Loops(g, n, <<>>, F, D)
    BY <1>1, <1>2, <1>5, LoopExists
  <2>2. \A k \in 1..n : k - 1 \in 0..n /\ F[k][g[k - 1]] = step(k, g[k - 1])
    <3> SUFFICES ASSUME NEW k \in 1..n
                 PROVE  k - 1 \in 0..n /\ F[k][g[k - 1]] = step(k, g[k - 1])
      OBVIOUS
    <3>1. k - 1 \in 0..n
      BY <1>1
    <3>2. g[k - 1] \in Seq(Msgs)
      BY <3>1, <2>1, <1>3 DEF Loops
    <3> QED
      BY <3>1, <3>2 DEF F
  <2>3. P(g)
    BY <2>1, <2>2, <1>1 DEF Loops
  <2> QED
    BY <2>3
<1> DEFINE a == CHOOSE g : P(g)
<1>7. P(a)
  BY <1>6
<1> HIDE DEF a, P
<1>8. a[0] = <<>> /\ \A k \in 1..n : a[k] = step(k, a[k - 1])
  BY <1>7, <1>1 DEF P
<1>9. \A k \in 0..n : a[k] \in D[k]
  BY <1>1, <1>2, <1>3, <1>8, LoopKeeps
<1>10. \A k \in 0..n : LettersOf(ks, c, k, a[k])
  BY <1>1, <1>9 DEF D
<1>11. Letters(ks, c) = a
  BY <1>4 DEF a
<1> QED
  BY <1>8, <1>10, <1>11 DEF LettersAre, step, n
\* Chunks of other kinds change nothing of what is said of one kind.
LEMMA SkipStores ==
    ASSUME NEW ks, NEW x, NEW k \in Nat \ {0}, StoresTo(ks, x, k - 1),
           ks[k].chunk # "MSG_STORE"
    PROVE  StoresTo(ks, x, k)
<1>1. \A i \in 1..k : i \in 1..(k - 1) \/ i = k
  OBVIOUS
<1>2. \A i \in 1..(k - 1) : i \in 1..k
  OBVIOUS
<1> QED
  BY <1>1, <1>2 DEF StoresTo

LEMMA SkipLeaves ==
    ASSUME NEW ks, NEW x, NEW k \in Nat \ {0}, LeavesTo(ks, x, k - 1),
           ks[k].chunk # "SUB"
    PROVE  LeavesTo(ks, x, k)
<1>1. \A i \in 1..k : i \in 1..(k - 1) \/ i = k
  OBVIOUS
<1>2. \A i \in 1..(k - 1) : i \in 1..k
  OBVIOUS
<1>3. \A c, t, q : ks[k] # SubOf(c, t, q)
  BY DEF SubOf
<1> QED
  BY <1>1, <1>2, <1>3 DEF LeavesTo

LEMMA SkipRetains ==
    ASSUME NEW ks, NEW x, NEW k \in Nat \ {0}, RetainsTo(ks, x, k - 1),
           ks[k].chunk # "RETAIN"
    PROVE  RetainsTo(ks, x, k)
<1>1. \A i \in 1..k : i \in 1..(k - 1) \/ i = k
  OBVIOUS
<1>2. \A i \in 1..(k - 1) : i \in 1..k
  OBVIOUS
<1>3. \A s : ks[k] # RetainOf(s)
  BY DEF RetainOf
<1> QED
  BY <1>1, <1>2, <1>3 DEF RetainsTo

LEMMA SkipMsgs ==
    ASSUME NEW ks \in Seq(Chunks), NEW x, NEW k \in 1..Len(ks), MsgsTo(ks, x, k - 1),
           ks[k].chunk # "CLIENT_MSG"
    PROVE  MsgsTo(ks, x, k)
<1> SUFFICES ASSUME NEW h \in DOMAIN x.ctxs
             PROVE  x.ctxs[h].msgs = Letters(ks, x.ctxs[h].id)[k]
  BY DEF MsgsTo
<1> DEFINE c == x.ctxs[h].id
           f == Letters(ks, c)
<1>1. LettersAre(ks, c, f)
  BY LettersIs
<1> HIDE DEF f
<1>2. f[k] = f[k - 1]
  BY <1>1 DEF LettersAre, IsLetter
<1>3. x.ctxs[h].msgs = f[k - 1]
  BY DEF MsgsTo, f
<1> QED
  BY <1>2, <1>3 DEF f

LEMMA SkipHomes ==
    ASSUME NEW ks, NEW x, NEW k \in Nat \ {0}, HomesTo(ks, x, k - 1),
           ks[k].chunk \notin {"CLIENT", "CLIENT_MSG", "SUB"}
    PROVE  HomesTo(ks, x, k)
<1>1. \A i \in 1..k : i \in 1..(k - 1) \/ i = k
  OBVIOUS
<1>2. \A i \in 1..(k - 1) : i \in 1..k
  OBVIOUS
<1>3. \A c : Named(ks, k, c) <=> Named(ks, k - 1, c)
  BY <1>1, <1>2 DEF Named
<1> QED
  BY <1>3 DEF HomesTo

LEMMA SkipLast ==
    ASSUME NEW ks, NEW x, NEW k \in Nat \ {0}, LastTo(ks, x, k - 1), k # 1
    PROVE  LastTo(ks, x, k)
  BY DEF LastTo

LEMMA StoresToSame ==
    ASSUME NEW ks, NEW k, NEW x, NEW e, StoresTo(ks, x, k), DOMAIN e.store = DOMAIN x.store,
           \A u \in DOMAIN x.store : SameStored(e.store[u], x.store[u])
    PROVE  StoresTo(ks, e, k)
<1>1. ASSUME NEW i \in 1..k, ks[i].chunk = "MSG_STORE"
      PROVE  ks[i].db_id \in DOMAIN e.store /\ SameStored(e.store[ks[i].db_id], ks[i])
  <2>1. ks[i].db_id \in DOMAIN x.store /\ SameStored(x.store[ks[i].db_id], ks[i])
    BY <1>1 DEF StoresTo
  <2>2. SameStored(e.store[ks[i].db_id], x.store[ks[i].db_id])
    BY <2>1
  <2> QED
    BY <2>1, <2>2 DEF SameStored
<1>2. \A s \in DOMAIN e.store :
         \E i \in 1..k : ks[i].chunk = "MSG_STORE" /\ ks[i].db_id = s
  BY DEF StoresTo
<1> QED
  BY <1>1, <1>2 DEF StoresTo

LEMMA LeavesToSame ==
    ASSUME NEW ks, NEW x, NEW k, LeavesTo(ks, x, k), NEW e, e.leaves = x.leaves,
           \A h \in DOMAIN e.ctxs : h \in DOMAIN x.ctxs /\ e.ctxs[h].id = x.ctxs[h].id
    PROVE  LeavesTo(ks, e, k)
<1> SUFFICES ASSUME NEW h \in DOMAIN e.ctxs, NEW t \in Topics, NEW q
             PROVE  Has(e.leaves[t], h, q)
                       <=> \E i \in 1..k : ks[i] = SubOf(e.ctxs[h].id, t, q)
  BY DEF LeavesTo
<1>1. h \in DOMAIN x.ctxs /\ e.ctxs[h].id = x.ctxs[h].id
  OBVIOUS
<1>2. Has(x.leaves[t], h, q) <=> \E i \in 1..k : ks[i] = SubOf(x.ctxs[h].id, t, q)
  BY <1>1 DEF LeavesTo
<1> QED
  BY <1>1, <1>2

\* CFG.
LEMMA CfgRestored ==
    ASSUME NEW ks, FileOk(ks), NEW k \in 1..Len(ks), NEW x, Restored(ks, x, k - 1),
           ks[k].chunk = "CFG", NEW e, e = ChunkRestore(x, ks[k])
    PROVE  Restored(ks, e, k)
<1> DEFINE l == ks[k].last
<1>1. ks \in Seq(Chunks) /\ k \in DOMAIN ks /\ k \in Nat \ {0}
  BY DEF FileOk
<1>2. k = 1 /\ l \in Nat
  BY <1>1, ChunkIs DEF FileOk, CfgFirst
<1>3. e = [x EXCEPT !.last = l]
  BY DEF ChunkRestore
<1>4. x \in Dbs
  BY DEF Restored, StoreSound
<1> HIDE DEF l
<1>5. /\ e \in Dbs /\ e.last = l /\ e.store = x.store /\ e.ctxs = x.ctxs
      /\ e.leaves = x.leaves /\ e.retained = x.retained /\ e.free = x.free
  BY <1>2, <1>3, <1>4 DEF Dbs
<1>6. DOMAIN x.store = {}
  BY <1>2 DEF Restored, ContentsTo, StoresTo
<1>7. StoreSound(e, 0, 0)
  <2>1. SameLists(x, e)
    BY <1>5 DEF SameLists
  <2>2. EntriesFinite(e)
    BY <2>1, <1>5, RefsSame DEF Restored, StoreSound
  <2>3. ListsValid(e) /\ RetainedValid(e)
    BY <1>5 DEF Restored, StoreSound, ListsValid, RetainedValid
  <2>4. IdsBounded(e) /\ Counted(e, 0, 0)
    BY <1>5, <1>6 DEF IdsBounded, Counted
  <2> QED
    BY <2>2, <2>3, <2>4, <1>5 DEF StoreSound
<1>8. ClientsSound(e)
  <2>1. ClientsSame(x, e)
    BY <1>5 DEF ClientsSame, SameClient
  <2> QED
    BY <2>1, ClientsSameSound DEF Restored
<1>9. HomesTo(ks, e, k - 1) /\ StoresTo(ks, e, k - 1)
  BY <1>5 DEF Restored, ContentsTo, HomesTo, StoresTo
<1>10. LeavesTo(ks, e, k - 1) /\ RetainsTo(ks, e, k - 1) /\ MsgsTo(ks, e, k - 1)
  <2>1. LeavesTo(ks, x, k - 1) /\ RetainsTo(ks, x, k - 1) /\ MsgsTo(ks, x, k - 1)
    BY DEF Restored, ContentsTo
  <2>2. LeavesTo(ks, e, k - 1)
    BY <2>1, <1>5, LeavesToSame
  <2>3. RetainsTo(ks, e, k - 1)
    BY <2>1, <1>5 DEF RetainsTo
  <2>4. MsgsTo(ks, e, k - 1)
    BY <2>1, <1>5 DEF MsgsTo
  <2> QED
    BY <2>2, <2>3, <2>4
<1>11. HomesTo(ks, e, k) /\ StoresTo(ks, e, k)
  BY <1>1, <1>9, SkipHomes, SkipStores
<1>12. LeavesTo(ks, e, k) /\ RetainsTo(ks, e, k) /\ MsgsTo(ks, e, k)
  BY <1>1, <1>10, SkipLeaves, SkipRetains, SkipMsgs
<1>13. LastTo(ks, e, k)
  BY <1>2, <1>5 DEF LastTo, l
<1> QED
  BY <1>7, <1>8, <1>11, <1>12, <1>13 DEF Restored, ContentsTo

\* MSG_STORE: the message has the number it had.
LEMMA StoreRestored ==
    ASSUME NEW ks, FileOk(ks), NEW k \in 1..Len(ks), NEW d, Restored(ks, d, k - 1),
           ks[k].chunk = "MSG_STORE", NEW e, e = ChunkRestore(d, ks[k])
    PROVE  Restored(ks, e, k)
<1> DEFINE c == ks[k]
           s == c.db_id
           m == [topic |-> c.topic, qos |-> c.qos, retain |-> c.retain,
                 payload |-> c.payload, ref |-> 0]
           st == With(d.store, s, m)
<1>1. /\ ks \in Seq(Chunks) /\ k \in DOMAIN ks /\ k \in Nat \ {0} /\ DOMAIN ks = 1..Len(ks)
      /\ c.chunk = "MSG_STORE" /\ c \in Chunks /\ StoreSound(d, 0, 0)
  BY DEF FileOk, Restored
<1>2. /\ d \in Dbs /\ d.last \in Nat /\ d.store \in Tables(Nat, Stored) /\ s \in Nat
      /\ DOMAIN d.store \subseteq Nat
  BY <1>1, DbIs, ChunkIs DEF StoreSound, StoreTables, StoreKind
<1>3. m \in Stored /\ m.ref = 0 /\ SameStored(m, c)
  <2>1. c \in StoreKind
    BY <1>1, ChunkIs
  <2> QED
    BY <2>1 DEF Stored, SameStored, StoreKind
<1>4. e = [d EXCEPT !.store = st]
  <2>1. e = msg_store_chunk_restore(d, c)
    BY <1>1 DEF ChunkRestore
  <2> QED
    BY <2>1 DEF msg_store_chunk_restore
<1> HIDE DEF m
<1>5. st \in Tables(Nat, Stored) /\ Entered(st, d.store, s, m)
  BY <1>2, <1>3, WithIs
<1> HIDE DEF st
<1>6. e \in Dbs /\ e.store = st /\ OnlyStore(d, e)
  <2>1. st \in StoreTables
    BY <1>5 DEF StoreTables
  <2> QED
    BY <2>1, <1>2, <1>4, SetStore
<1>7. s \notin DOMAIN d.store
  <2> SUFFICES ASSUME s \in DOMAIN d.store PROVE FALSE
    OBVIOUS
  <2>1. PICK i \in 1..(k - 1) : ks[i].chunk = "MSG_STORE" /\ ks[i].db_id = s
    BY DEF Restored, ContentsTo, StoresTo
  <2>2. i \in DOMAIN ks /\ i # k
    BY <1>1
  <2> QED
    BY <2>1, <2>2, <1>1 DEF FileOk, StoresOnce
<1>8. /\ DOMAIN e.store = DOMAIN d.store \cup {s} /\ e.store[s] = m
      /\ \A u \in DOMAIN d.store : e.store[u] = d.store[u]
      /\ e.last = d.last /\ e.ctxs = d.ctxs /\ e.leaves = d.leaves
      /\ e.retained = d.retained /\ e.free = d.free
  BY <1>5, <1>6, <1>7 DEF Entered, OnlyStore
<1> HIDE DEF s, c
<1>9. (\A u : Refs(e, u) = Refs(d, u)) /\ EntriesFinite(e)
  <2>1. SameLists(d, e) /\ e.retained = d.retained
    BY <1>8 DEF SameLists
  <2> QED
    BY <2>1, <1>1, RefsSame DEF StoreSound
<1>10. Refs(e, s) = 0
  <2>1. Entries(e, s) = {}
    <3>1. \A y : y \notin Entries(e, s)
      BY <1>1, <1>7, <1>8, EntryIs DEF StoreSound, ListsValid
    <3> QED
      BY <3>1
  <2>2. Retaining(e, s) = {}
    <3>1. s # NULL
      BY <1>2, StoreAssumption
    <3>2. \A y \in Topics : d.retained[y] # s
      BY <3>1, <1>1, <1>7 DEF StoreSound, RetainedValid
    <3> QED
      BY <3>2, <1>8 DEF Retaining
  <2> QED
    BY <2>1, <2>2, RefsNone
<1>11. ListsValid(e) /\ RetainedValid(e)
  BY <1>1, <1>8 DEF StoreSound, ListsValid, RetainedValid
<1>12. k # 1 /\ 1 <= s /\ s <= d.last
  <2>1. 1 <= s /\ s <= ks[1].last /\ k # 1
    BY <1>1 DEF FileOk, StoresSaved, CfgFirst, s, c
  <2>2. d.last = ks[1].last
    BY <2>1 DEF Restored, ContentsTo, LastTo
  <2> QED
    BY <2>1, <2>2
<1>13. IdsBounded(e)
  BY <1>1, <1>8, <1>12 DEF StoreSound, IdsBounded
<1>14. Counted(e, 0, 0)
  <2> SUFFICES ASSUME NEW u \in DOMAIN e.store
               PROVE  e.store[u].ref = Refs(e, u) + One(u, 0) + One(u, 0)
    BY DEF Counted
  <2>1. CASE u = s
    <3>1. u # 0
      BY <2>1, <1>2, <1>12
    <3> QED
      BY <3>1, <2>1, <1>3, <1>8, <1>10 DEF One
  <2>2. CASE u \in DOMAIN d.store
    BY <2>2, <1>1, <1>8, <1>9 DEF StoreSound, Counted
  <2> QED
    BY <2>1, <2>2, <1>8
<1>15. StoreSound(e, 0, 0)
  BY <1>6, <1>9, <1>11, <1>13, <1>14 DEF StoreSound
<1>16. ClientsSound(e)
  <2>1. ClientsSame(d, e)
    BY <1>8 DEF ClientsSame, SameClient
  <2> QED
    BY <2>1, ClientsSameSound DEF Restored
<1>17. HomesTo(ks, e, k)
  <2>1. HomesTo(ks, e, k - 1)
    BY <1>8 DEF Restored, HomesTo
  <2> QED
    BY <2>1, <1>1, SkipHomes
<1>18. LeavesTo(ks, e, k) /\ MsgsTo(ks, e, k) /\ LastTo(ks, e, k)
  <2>1. LeavesTo(ks, e, k - 1) /\ MsgsTo(ks, e, k - 1) /\ LastTo(ks, e, k - 1)
    <3>1. LeavesTo(ks, d, k - 1) /\ MsgsTo(ks, d, k - 1) /\ LastTo(ks, d, k - 1)
      BY DEF Restored, ContentsTo
    <3>2. LeavesTo(ks, e, k - 1)
      BY <3>1, <1>8, LeavesToSame
    <3>3. MsgsTo(ks, e, k - 1) /\ LastTo(ks, e, k - 1)
      BY <3>1, <1>8 DEF MsgsTo, LastTo
    <3> QED
      BY <3>2, <3>3
  <2> QED
    BY <2>1, <1>1, <1>12, SkipLeaves, SkipMsgs, SkipLast
<1>19. RetainsTo(ks, e, k)
  <2>1. RetainsTo(ks, e, k - 1)
    <3> SUFFICES ASSUME NEW t \in Topics, NEW u \in Nat
                 PROVE  e.retained[t] = u
                           <=> \E i \in 1..(k - 1) : ks[i] = RetainOf(u) /\ e.store[u].topic = t
      BY DEF RetainsTo
    <3>1. d.retained[t] = u
             <=> \E i \in 1..(k - 1) : ks[i] = RetainOf(u) /\ d.store[u].topic = t
      BY DEF Restored, ContentsTo, RetainsTo
    <3>2. ASSUME NEW i \in 1..(k - 1), ks[i] = RetainOf(u) PROVE u \in DOMAIN d.store
      <4>1. i \in DOMAIN ks /\ ks[i].chunk = "RETAIN" /\ ks[i].db_id = u
        BY <3>2, <1>1 DEF RetainOf
      <4>2. PICK j \in 1..(i - 1) : ks[j].chunk = "MSG_STORE" /\ ks[j].db_id = u
        BY <4>1 DEF FileOk, RetainsBacked, RetainedBefore
      <4>3. j \in 1..(k - 1)
        OBVIOUS
      <4> QED
        BY <4>2, <4>3 DEF Restored, ContentsTo, StoresTo
    <3> QED
      BY <3>1, <3>2, <1>8
  <2> QED
    BY <2>1, <1>1, SkipRetains
<1>20. StoresTo(ks, e, k)
  <2>1. ASSUME NEW i \in 1..k, ks[i].chunk = "MSG_STORE"
        PROVE  ks[i].db_id \in DOMAIN e.store /\ SameStored(e.store[ks[i].db_id], ks[i])
    <3>1. CASE i = k
      BY <3>1, <1>3, <1>8 DEF s, c
    <3>2. CASE i # k
      <4>1. i \in 1..(k - 1)
        BY <3>2
      <4> QED
        BY <4>1, <2>1, <1>8 DEF Restored, ContentsTo, StoresTo
    <3> QED
      BY <3>1, <3>2
  <2>2. ASSUME NEW u \in DOMAIN e.store
        PROVE  \E i \in 1..k : ks[i].chunk = "MSG_STORE" /\ ks[i].db_id = u
    <3>1. CASE u = s
      BY <3>1, <1>1 DEF s, c
    <3>2. CASE u \in DOMAIN d.store
      <4>1. PICK i \in 1..(k - 1) : ks[i].chunk = "MSG_STORE" /\ ks[i].db_id = u
        BY <3>2 DEF Restored, ContentsTo, StoresTo
      <4>2. i \in 1..k
        OBVIOUS
      <4> QED
        BY <4>1, <4>2
    <3> QED
      BY <3>1, <3>2, <1>8
  <2> QED
    BY <2>1, <2>2 DEF StoresTo
<1> QED
  BY <1>15, <1>16, <1>17, <1>18, <1>19, <1>20 DEF Restored, ContentsTo
\* A client that the file names finds memory for its context.
LEMMA RoomIs ==
    ASSUME NEW ks, FileOk(ks), NEW x, x \in Dbs, OneHome(x),
           NEW k \in 0..Len(ks), HomesTo(ks, x, k), NEW c \in Clients,
           Named(ks, Len(ks), c), ById(x, c) = {}
    PROVE  Unused(x) # {}
<1> SUFFICES ASSUME Unused(x) = {} PROVE FALSE
  OBVIOUS
<1>1. DOMAIN x.ctxs = Contexts
  BY DbIs DEF Unused
<1>2. PICK J : HostedAt(ks, J)
  BY DEF FileOk, Hosted
<1> DEFINE f == [h \in Contexts |-> J[x.ctxs[h].id]]
<1>3. \A h \in Contexts : x.ctxs[h].id \in Clients /\ Named(ks, Len(ks), x.ctxs[h].id)
  <2>1. \A a : Named(ks, k, a) => Named(ks, Len(ks), a)
    <3>1. Len(ks) \in Nat
      BY DEF FileOk
    <3> QED
      BY <3>1 DEF Named
  <2> QED
    BY <2>1, <1>1 DEF HomesTo
<1>4. f \in [Contexts -> Contexts]
  BY <1>2, <1>3 DEF HostedAt
<1>5. ASSUME NEW g \in Contexts, NEW h \in Contexts, f[g] = f[h] PROVE g = h
  <2>1. x.ctxs[g].id = x.ctxs[h].id
    BY <1>2, <1>3, <1>5 DEF HostedAt
  <2>2. x.ctxs[g].id # NULL
    BY <1>3, StoreAssumption
  <2> QED
    BY <2>1, <2>2, <1>1 DEF OneHome
<1>6. f \in Injection(Contexts, Contexts)
  BY <1>4, <1>5 DEF Injection, IsInjective
<1>7. f \in Surjection(Contexts, Contexts)
  <2> HIDE DEF f
  <2> QED
    BY <1>6, StoreAssumption, FS_Injection
<1>8. J[c] \in Contexts
  BY <1>2 DEF HostedAt
<1>9. PICK h \in Contexts : f[h] = J[c]
  BY <1>7, <1>8 DEF Surjection
<1>10. x.ctxs[h].id = c
  BY <1>2, <1>3, <1>9 DEF HostedAt
<1> QED
  BY <1>1, <1>9, <1>10 DEF ById

Found(ks, f, k) ==
    /\ StoreSound(f, 0, 0) /\ ClientsSound(f)
    /\ HomesTo(ks, f, k) /\ ContentsTo(ks, f, k - 1)

LEMMA HomeIs ==
    ASSUME NEW ks, NEW k, NEW f, HomesTo(ks, f, k), NEW c, Named(ks, k, c)
    PROVE  Home(f, c) \in DOMAIN f.ctxs /\ f.ctxs[Home(f, c)].id = c
  BY DEF Home, HomesTo, ById

LEMMA FindOrAddSound ==
    ASSUME NEW ks, FileOk(ks), NEW k \in 1..Len(ks), NEW x, Restored(ks, x, k - 1),
           ks[k].chunk \in {"CLIENT", "CLIENT_MSG", "SUB"},
           NEW c, c = ks[k].client, NEW f, f = FindOrAdd(x, c)
    PROVE  Found(ks, f, k) /\ Named(ks, k, c) /\ c \in Clients
<1>1. /\ ks \in Seq(Chunks) /\ k \in Nat \ {0} /\ ks[k] \in Chunks
      /\ StoreSound(x, 0, 0) /\ ClientsSound(x) /\ x \in Dbs
      /\ HomesTo(ks, x, k - 1) /\ ContentsTo(ks, x, k - 1)
  BY DEF FileOk, Restored, StoreSound
<1>2. c \in Clients
  BY <1>1, ChunkIs DEF ClientKind, MsgKind, SubKind
<1>3. \A a : Named(ks, k, a) <=> (Named(ks, k - 1, a) \/ a = c)
  <2>1. \A i \in 1..k : i \in 1..(k - 1) \/ i = k
    OBVIOUS
  <2>2. \A i \in 1..(k - 1) : i \in 1..k
    OBVIOUS
  <2> QED
    BY <2>1, <2>2 DEF Named
<1>4. CASE ById(x, c) # {}
  <2>1. f = x
    BY <1>4 DEF FindOrAdd
  <2>2. \E h \in DOMAIN x.ctxs : x.ctxs[h].id = c
    BY <1>4 DEF ById
  <2>3. HomesTo(ks, f, k)
    BY <2>1, <2>2, <1>1, <1>3 DEF HomesTo
  <2> QED
    BY <2>1, <2>3, <1>1, <1>2, <1>3 DEF Found
<1>5. CASE ById(x, c) = {}
  <2> DEFINE h == NextUnused(x)
             v == [mqtt3_context_init(FALSE) EXCEPT !.id = c, !.clean = FALSE]
  <2>1. f = [x EXCEPT !.ctxs = With(x.ctxs, h, v)]
    BY <1>5 DEF FindOrAdd
  <2>2. h \in Contexts /\ h \notin DOMAIN x.ctxs
    <3>1. Named(ks, Len(ks), c)
      BY <1>1, <1>3 DEF Named
    <3>2. Unused(x) # {}
      <4>1. k - 1 \in 0..Len(ks) /\ OneHome(x)
        BY <1>1 DEF ClientsSound
      <4> QED
        BY <3>1, <4>1, <1>1, <1>2, <1>5, RoomIs
    <3> QED
      BY <3>2, NextUnusedIs
  <2>3. /\ v \in Ctxs /\ v.id = c /\ v.subs = {} /\ v.msgs = <<>>
        /\ ~v.clean /\ ~v.sock
    <3>1. <<>> \in Seq(Msgs) /\ {} \in SUBSET Topics
      OBVIOUS
    <3> QED
      BY <3>1, <1>2 DEF mqtt3_context_init, Ctxs, States
  <2> HIDE DEF h, v
  <2>4. \A g \in DOMAIN x.ctxs : x.ctxs[g].id # c
    BY <1>5 DEF ById
  <2>5. v.id # NULL
    BY <2>3, <1>2, StoreAssumption
  <2>6. StoreSound(f, 0, 0) /\ ClientsSound(f) /\ Added(x, f, h, v)
    BY <2>1, <2>2, <2>3, <2>4, <2>5, <1>1, AddSound
  <2>7. /\ DOMAIN f.ctxs = DOMAIN x.ctxs \cup {h} /\ f.ctxs[h] = v
        /\ \A g \in DOMAIN x.ctxs : g # h /\ f.ctxs[g] = x.ctxs[g]
        /\ f.leaves = x.leaves /\ f.store = x.store /\ f.last = x.last
        /\ f.retained = x.retained
    BY <2>2, <2>6 DEF Added, Entered, OnlyCtxs
  <2>8. ~Named(ks, k - 1, c)
    BY <2>4, <1>1 DEF HomesTo
  <2>9. HomesTo(ks, f, k)
    <3>1. \A g \in DOMAIN f.ctxs : /\ ~f.ctxs[g].clean /\ ~f.ctxs[g].sock
                                   /\ f.ctxs[g].id \in Clients
                                   /\ Named(ks, k, f.ctxs[g].id)
      BY <2>3, <2>7, <1>1, <1>2, <1>3 DEF HomesTo
    <3>2. \A a : Named(ks, k, a) => \E g \in DOMAIN f.ctxs : f.ctxs[g].id = a
      BY <2>3, <2>7, <1>1, <1>3 DEF HomesTo
    <3> QED
      BY <3>1, <3>2 DEF HomesTo
  <2>10. StoresTo(ks, f, k - 1) /\ LastTo(ks, f, k - 1)
    BY <2>7, <1>1 DEF ContentsTo, StoresTo, LastTo
  <2>11. RetainsTo(ks, f, k - 1)
    <3>1. RetainsTo(ks, x, k - 1)
      BY <1>1 DEF ContentsTo
    <3> QED
      BY <3>1, <2>7 DEF RetainsTo
  <2>12. LeavesTo(ks, f, k - 1)
    <3> SUFFICES ASSUME NEW g \in DOMAIN f.ctxs, NEW t \in Topics, NEW q
                 PROVE  Has(f.leaves[t], g, q)
                           <=> \E i \in 1..(k - 1) : ks[i] = SubOf(f.ctxs[g].id, t, q)
      BY DEF LeavesTo
    <3>1. CASE g \in DOMAIN x.ctxs
      <4>1. LeavesTo(ks, x, k - 1)
        BY <1>1 DEF ContentsTo
      <4>2. Has(x.leaves[t], g, q)
               <=> \E i \in 1..(k - 1) : ks[i] = SubOf(x.ctxs[g].id, t, q)
        BY <3>1, <4>1 DEF LeavesTo
      <4> QED
        BY <4>2, <3>1, <2>7
    <3>2. CASE g = h
      <4>1. LeavesValid(x)
        BY <1>1 DEF ClientsSound
      <4>2. ~Has(f.leaves[t], g, q)
        BY <4>1, <3>2, <2>2, <2>7 DEF LeavesValid, Has
      <4>3. \A i \in 1..(k - 1) : ks[i] # SubOf(c, t, q)
        BY <2>8 DEF Named, SubOf
      <4> QED
        BY <4>2, <4>3, <3>2, <2>3, <2>7
    <3> QED
      BY <3>1, <3>2, <2>7
  <2>13. MsgsTo(ks, f, k - 1)
    <3> SUFFICES ASSUME NEW g \in DOMAIN f.ctxs
                 PROVE  f.ctxs[g].msgs = Letters(ks, f.ctxs[g].id)[k - 1]
      BY DEF MsgsTo
    <3>1. CASE g \in DOMAIN x.ctxs
      BY <3>1, <2>7, <1>1 DEF ContentsTo, MsgsTo
    <3>2. CASE g = h
      <4> DEFINE l == Letters(ks, c)
      <4>1. LettersAre(ks, c, l)
        BY <1>1, LettersIs
      <4>2. k - 1 \in 0..Len(ks)
        OBVIOUS
      <4> HIDE DEF l
      <4>3. l[k - 1] = <<>>
        BY <4>1, <4>2, <2>8 DEF LettersAre, LettersOf
      <4> QED
        BY <4>3, <3>2, <2>3, <2>7 DEF l
    <3> QED
      BY <3>1, <3>2, <2>7
  <2> QED
    BY <2>6, <2>9, <2>10, <2>11, <2>12, <2>13, <1>2, <1>3 DEF Found, ContentsTo
<1> QED
  BY <1>4, <1>5

\* CLIENT.
LEMMA ClientRestored ==
    ASSUME NEW ks, FileOk(ks), NEW k \in 1..Len(ks), NEW x, Restored(ks, x, k - 1),
           ks[k].chunk = "CLIENT", NEW e, e = ChunkRestore(x, ks[k])
    PROVE  Restored(ks, e, k)
<1> DEFINE c == ks[k].client
<1>1. ks \in Seq(Chunks) /\ k \in DOMAIN ks /\ k \in Nat \ {0}
  BY DEF FileOk
<1>2. e = FindOrAdd(x, c)
  BY DEF ChunkRestore, client_chunk_restore
<1>3. Found(ks, e, k)
  BY <1>2, FindOrAddSound
<1>4. k # 1
  BY <1>1 DEF FileOk, CfgFirst
<1>5. StoresTo(ks, e, k) /\ LeavesTo(ks, e, k)
  BY <1>1, <1>3, SkipStores, SkipLeaves DEF Found, ContentsTo
<1>6. RetainsTo(ks, e, k) /\ MsgsTo(ks, e, k) /\ LastTo(ks, e, k)
  BY <1>1, <1>3, <1>4, SkipRetains, SkipMsgs, SkipLast DEF Found, ContentsTo
<1> QED
  BY <1>3, <1>5, <1>6 DEF Restored, ContentsTo, Found
\* SUB.
LEMMA SubRestored ==
    ASSUME NEW ks, FileOk(ks), NEW k \in 1..Len(ks), NEW x, Restored(ks, x, k - 1),
           ks[k].chunk = "SUB", NEW e, e = ChunkRestore(x, ks[k])
    PROVE  Restored(ks, e, k)
<1> DEFINE c == ks[k].client
           t == ks[k].topic
           q == ks[k].qos
           f == FindOrAdd(x, c)
           h == Home(f, c)
<1>1. /\ ks \in Seq(Chunks) /\ k \in DOMAIN ks /\ k \in Nat \ {0} /\ DOMAIN ks = 1..Len(ks)
      /\ ks[k] \in SubKind
  BY ChunkIs DEF FileOk
<1>2. c \in Clients /\ t \in Topics /\ q \in 0..2 /\ ks[k] = SubOf(c, t, q)
  BY <1>1 DEF SubKind, SubOf
<1>3. e = mqtt3_sub_add(f, h, t, q)
  <2>1. e = sub_chunk_restore(x, ks[k])
    BY DEF ChunkRestore
  <2> QED
    BY <2>1 DEF sub_chunk_restore
<1>4. Found(ks, f, k) /\ Named(ks, k, c)
  BY FindOrAddSound
<1> HIDE DEF f
<1>5. h \in DOMAIN f.ctxs /\ f.ctxs[h].id = c
  BY <1>4, HomeIs DEF Found
<1> HIDE DEF h
<1>6. StoreSound(f, 0, 0) /\ ClientsSound(f) /\ f.ctxs[h].id # NULL
  BY <1>2, <1>4, <1>5, StoreAssumption DEF Found
<1>7. StoreSound(e, 0, 0) /\ ClientsSound(e) /\ Adding(f, e, h, t, q)
  BY <1>2, <1>3, <1>5, <1>6, SubAddSound
<1>8. /\ e.last = f.last /\ e.store = f.store /\ e.retained = f.retained
      /\ DOMAIN e.ctxs = DOMAIN f.ctxs
      /\ \A g \in DOMAIN f.ctxs : /\ e.ctxs[g].id = f.ctxs[g].id
                                  /\ e.ctxs[g].clean = f.ctxs[g].clean
                                  /\ e.ctxs[g].sock = f.ctxs[g].sock
                                  /\ e.ctxs[g].msgs = f.ctxs[g].msgs
  BY <1>7 DEF Adding, Replanted, SameButSubs
<1>9. k # 1
  BY <1>1 DEF FileOk, CfgFirst
<1>10. HomesTo(ks, e, k)
  BY <1>4, <1>8 DEF Found, HomesTo
<1>11. StoresTo(ks, e, k) /\ LastTo(ks, e, k)
  <2>1. StoresTo(ks, e, k - 1) /\ LastTo(ks, e, k - 1)
    BY <1>4, <1>8 DEF Found, ContentsTo, StoresTo, LastTo
  <2> QED
    BY <2>1, <1>1, <1>9, SkipStores, SkipLast
<1>12. RetainsTo(ks, e, k)
  <2>1. RetainsTo(ks, f, k - 1)
    BY <1>4 DEF Found, ContentsTo
  <2>2. RetainsTo(ks, e, k - 1)
    BY <2>1, <1>8 DEF RetainsTo
  <2> QED
    BY <2>2, <1>1, SkipRetains
<1>13. MsgsTo(ks, e, k)
  <2>1. MsgsTo(ks, e, k - 1)
    BY <1>4, <1>8 DEF Found, ContentsTo, MsgsTo
  <2> QED
    BY <2>1, <1>1, SkipMsgs
<1>14. LeavesTo(ks, e, k)
  <2> SUFFICES ASSUME NEW g \in DOMAIN e.ctxs, NEW u \in Topics, NEW r
               PROVE  Has(e.leaves[u], g, r)
                         <=> \E i \in 1..k : ks[i] = SubOf(e.ctxs[g].id, u, r)
    BY DEF LeavesTo
  <2>0. g \in DOMAIN f.ctxs /\ e.ctxs[g].id = f.ctxs[g].id
    BY <1>8
  <2>1. \A i \in 1..k : i \in 1..(k - 1) \/ i = k
    OBVIOUS
  <2>2. \A i \in 1..(k - 1) : i \in 1..k
    OBVIOUS
  <2>3. Has(f.leaves[u], g, r) <=> \E i \in 1..(k - 1) : ks[i] = SubOf(f.ctxs[g].id, u, r)
    <3>1. LeavesTo(ks, f, k - 1)
      BY <1>4 DEF Found, ContentsTo
    <3> QED
      BY <3>1, <2>0 DEF LeavesTo
  <2>4. ks[k] = SubOf(f.ctxs[g].id, u, r) => f.ctxs[g].id = c /\ u = t /\ r = q
    BY DEF SubOf
  <2>5. CASE u # t
    <3>1. e.leaves[u] = f.leaves[u]
      BY <2>5, <1>7 DEF Adding
    <3> QED
      BY <3>1, <2>0, <2>1, <2>2, <2>3, <2>4, <2>5
  <2>6. CASE u = t /\ g # h
    <3>1. Has(e.leaves[u], g, r) <=> Has(f.leaves[u], g, r)
      BY <2>6, <1>7 DEF Adding, Set
    <3>2. f.ctxs[g].id # c
      <4>1. OneHome(f) /\ g \in DOMAIN f.ctxs /\ h \in DOMAIN f.ctxs
        BY <2>0, <1>5, <1>6 DEF ClientsSound
      <4> QED
        BY <4>1, <2>6, <1>5, <1>6 DEF OneHome
    <3> QED
      BY <3>1, <3>2, <2>0, <2>1, <2>2, <2>3, <2>4
  <2>7. CASE u = t /\ g = h
    <3>1. Has(e.leaves[u], g, r) <=> r = q
      BY <2>7, <1>7 DEF Adding, Set
    <3>2. r = q => ks[k] = SubOf(f.ctxs[g].id, u, r) /\ k \in 1..k
      BY <2>7, <1>2, <1>5
    <3>3. ASSUME NEW i \in 1..k, ks[i] = SubOf(f.ctxs[g].id, u, r) PROVE r = q
      <4>1. ks[i].chunk = "SUB" /\ ks[i].client = c /\ ks[i].topic = t /\ ks[i].qos = r
        BY <3>3, <2>7, <1>5 DEF SubOf
      <4>2. i \in DOMAIN ks
        BY <1>1
      <4> QED
        BY <4>1, <4>2, <1>1 DEF FileOk, SubsOnce
    <3> QED
      BY <3>1, <3>2, <3>3, <2>0
  <2> QED
    BY <2>5, <2>6, <2>7
<1> QED
  BY <1>7, <1>10, <1>11, <1>12, <1>13, <1>14 DEF Restored, ContentsTo

\* It does not matter whether the message is counted before or after the
\* context is found.
LEMMA RefFindOrAdd ==
    ASSUME NEW d \in Dbs, NEW s, NEW c
    PROVE  FindOrAdd(Ref(d, s), c) = Ref(FindOrAdd(d, c), s)
<1> DEFINE r == Ref(d, s)
           v == [mqtt3_context_init(FALSE) EXCEPT !.id = c, !.clean = FALSE]
           st == [d.store EXCEPT ![s].ref = @ + 1]
           y == With(d.ctxs, NextUnused(d), v)
<1>1. r = [d EXCEPT !.store = st]
  BY DEF Ref
<1>2. r.ctxs = d.ctxs /\ ById(r, c) = ById(d, c) /\ NextUnused(r) = NextUnused(d)
  <2>1. r.ctxs = d.ctxs
    BY RefStore DEF OnlyStore
  <2> HIDE DEF r
  <2> QED
    BY <2>1 DEF ById, NextUnused, Unused
<1>3. CASE ById(d, c) # {}
  BY <1>2, <1>3 DEF FindOrAdd
<1>4. CASE ById(d, c) = {}
  <2>1. FindOrAdd(r, c) = [r EXCEPT !.ctxs = y]
    <3> HIDE DEF r
    <3> QED
      BY <1>2, <1>4 DEF FindOrAdd
  <2>2. FindOrAdd(d, c) = [d EXCEPT !.ctxs = y]
    BY <1>4 DEF FindOrAdd
  <2> HIDE DEF y
  <2>3. Ref(FindOrAdd(d, c), s) = [[d EXCEPT !.ctxs = y] EXCEPT !.store = st]
    BY <2>2 DEF Ref, Dbs
  <2>4. FindOrAdd(r, c) = [[d EXCEPT !.store = st] EXCEPT !.ctxs = y]
    BY <2>1, <1>1
  <2> HIDE DEF st
  <2>5. [[d EXCEPT !.store = st] EXCEPT !.ctxs = y]
           = [[d EXCEPT !.ctxs = y] EXCEPT !.store = st]
    BY DEF Dbs
  <2> QED
    BY <2>3, <2>4, <2>5
<1> QED
  BY <1>3, <1>4

\* CLIENT_MSG.
LEMMA MsgRestored ==
    ASSUME NEW ks, FileOk(ks), NEW k \in 1..Len(ks), NEW x, Restored(ks, x, k - 1),
           ks[k].chunk = "CLIENT_MSG", NEW e, e = ChunkRestore(x, ks[k])
    PROVE  Restored(ks, e, k)
<1> DEFINE c == ks[k].client
           msg == ks[k].msg
           s == msg.store
           f == FindOrAdd(x, c)
           y == Ref(f, s)
           h == Home(y, c)
           new == Append(y.ctxs[h].msgs, msg)
<1>1. /\ ks \in Seq(Chunks) /\ k \in DOMAIN ks /\ k \in Nat \ {0} /\ DOMAIN ks = 1..Len(ks)
      /\ ks[k] \in MsgKind /\ x \in Dbs
  BY ChunkIs DEF FileOk, Restored, StoreSound
<1>2. c \in Clients /\ msg \in Msgs
  BY <1>1 DEF MsgKind
<1>3. e = [y EXCEPT !.ctxs[h].msgs = new]
  <2>1. e = client_msg_chunk_restore(x, ks[k])
    BY DEF ChunkRestore
  <2>2. FindOrAdd(Ref(x, s), c) = y
    BY <1>1, RefFindOrAdd
  <2> HIDE DEF y
  <2> QED
    BY <2>1, <2>2 DEF client_msg_chunk_restore, client_msg_restore
<1>4. Found(ks, f, k) /\ Named(ks, k, c)
  BY FindOrAddSound
<1>5. /\ StoreSound(f, 0, 0) /\ ClientsSound(f) /\ HomesTo(ks, f, k)
      /\ ContentsTo(ks, f, k - 1) /\ f \in Dbs
  BY <1>4 DEF Found, StoreSound
<1> HIDE DEF f
<1>6. s \in DOMAIN f.store
  <2>1. PICK j \in 1..(k - 1) : ks[j].chunk = "MSG_STORE" /\ ks[j].db_id = s
    BY <1>1 DEF FileOk, MsgsBacked, StoreBefore
  <2> QED
    BY <2>1, <1>5 DEF ContentsTo, StoresTo
<1>7. StoreSound(y, s, 0) /\ Counting(f, y, s)
  BY <1>5, <1>6, RefSound
<1>8. /\ y.ctxs = f.ctxs /\ y.last = f.last /\ y.leaves = f.leaves
      /\ y.retained = f.retained /\ y.free = f.free /\ DOMAIN y.store = DOMAIN f.store
      /\ \A u \in DOMAIN f.store : SameStored(y.store[u], f.store[u])
  BY <1>7 DEF Counting, OnlyStore
<1>9. h \in DOMAIN y.ctxs /\ y.ctxs[h].id = c
  <2>1. HomesTo(ks, y, k)
    BY <1>5, <1>8 DEF HomesTo
  <2> QED
    BY <2>1, <1>4, HomeIs
<1> HIDE DEF y, h
<1>10. StoreSound(e, 0, 0) /\ ListSet(y, e, h, new)
  <2>1. s \in DOMAIN y.store
    BY <1>6, <1>8
  <2> QED
    BY <2>1, <1>2, <1>3, <1>7, <1>9, AppendSound
<1>11. /\ e.last = f.last /\ e.store = y.store /\ e.leaves = f.leaves
       /\ e.retained = f.retained /\ e.free = f.free /\ DOMAIN e.ctxs = DOMAIN f.ctxs
       /\ \A g \in DOMAIN f.ctxs : SameClient(e.ctxs[g], f.ctxs[g])
       /\ \A g \in DOMAIN f.ctxs : g # h => e.ctxs[g].msgs = f.ctxs[g].msgs
       /\ h \in DOMAIN f.ctxs /\ f.ctxs[h].id = c
       /\ e.ctxs[h].msgs = Append(f.ctxs[h].msgs, msg)
  BY <1>8, <1>9, <1>10 DEF ListSet, OnlyCtxs, SameClient
<1>12. ClientsSound(e)
  <2>1. ClientsSame(f, e)
    BY <1>11 DEF ClientsSame
  <2> QED
    BY <2>1, <1>5, ClientsSameSound
<1>13. k # 1
  BY <1>1 DEF FileOk, CfgFirst
<1>14. HomesTo(ks, e, k)
  <2>1. HomesTo(ks, f, k)
    BY <1>5
  <2>2. /\ DOMAIN e.ctxs = DOMAIN f.ctxs
        /\ \A g \in DOMAIN f.ctxs : SameClient(e.ctxs[g], f.ctxs[g])
    BY <1>11
  <2> QED
    BY <2>1, <2>2 DEF HomesTo, SameClient
<1>15. StoresTo(ks, e, k) /\ LastTo(ks, e, k)
  <2>1. LastTo(ks, e, k - 1)
    BY <1>5, <1>11 DEF ContentsTo, LastTo
  <2>2. StoresTo(ks, e, k - 1)
    <3>1. StoresTo(ks, f, k - 1)
      BY <1>5 DEF ContentsTo
    <3>2. DOMAIN e.store = DOMAIN f.store
      BY <1>8, <1>11
    <3>3. \A u \in DOMAIN f.store : SameStored(e.store[u], f.store[u])
      BY <1>8, <1>11
    <3> QED
      BY <3>1, <3>2, <3>3, StoresToSame
  <2> QED
    BY <2>1, <2>2, <1>1, <1>13, SkipStores, SkipLast
<1>16. LeavesTo(ks, e, k)
  <2>1. LeavesTo(ks, f, k - 1)
    BY <1>5 DEF ContentsTo
  <2>2. \A g \in DOMAIN e.ctxs : g \in DOMAIN f.ctxs /\ e.ctxs[g].id = f.ctxs[g].id
    BY <1>11 DEF SameClient
  <2>3. LeavesTo(ks, e, k - 1)
    BY <2>1, <2>2, <1>11, LeavesToSame
  <2> QED
    BY <2>3, <1>1, SkipLeaves
<1>17. RetainsTo(ks, e, k)
  <2>1. RetainsTo(ks, f, k - 1) /\ StoresTo(ks, f, k - 1)
    BY <1>5 DEF ContentsTo
  <2>2. RetainsTo(ks, e, k - 1)
    <3> SUFFICES ASSUME NEW t \in Topics, NEW u \in Nat
                 PROVE  e.retained[t] = u
                           <=> \E i \in 1..(k - 1) : ks[i] = RetainOf(u) /\ e.store[u].topic = t
      BY DEF RetainsTo
    <3>1. f.retained[t] = u
             <=> \E i \in 1..(k - 1) : ks[i] = RetainOf(u) /\ f.store[u].topic = t
      BY <2>1 DEF RetainsTo
    <3>2. ASSUME NEW i \in 1..(k - 1), ks[i] = RetainOf(u) PROVE u \in DOMAIN f.store
      <4>1. i \in DOMAIN ks /\ ks[i].chunk = "RETAIN" /\ ks[i].db_id = u
        BY <3>2, <1>1 DEF RetainOf
      <4>2. PICK j \in 1..(i - 1) : ks[j].chunk = "MSG_STORE" /\ ks[j].db_id = u
        BY <4>1 DEF FileOk, RetainsBacked, RetainedBefore
      <4>3. j \in 1..(k - 1)
        OBVIOUS
      <4> QED
        BY <4>2, <4>3, <2>1 DEF StoresTo
    <3>3. u \in DOMAIN f.store => e.store[u].topic = f.store[u].topic
      BY <1>8, <1>11 DEF SameStored
    <3> QED
      BY <3>1, <3>2, <3>3, <1>11
  <2> QED
    BY <2>2, <1>1, SkipRetains
<1>18. MsgsTo(ks, e, k)
  <2> SUFFICES ASSUME NEW g \in DOMAIN f.ctxs
               PROVE  e.ctxs[g].msgs = Letters(ks, f.ctxs[g].id)[k]
    BY <1>11, SMTT(60) DEF MsgsTo, SameClient
  <2> DEFINE l == Letters(ks, f.ctxs[g].id)
  <2>1. LettersAre(ks, f.ctxs[g].id, l)
    BY <1>1, LettersIs
  <2>2. f.ctxs[g].msgs = l[k - 1]
    BY <1>5 DEF ContentsTo, MsgsTo
  <2> HIDE DEF l
  <2>3. CASE g = h
    <3>1. IsLetter(ks, k, f.ctxs[g].id)
      BY <2>3, <1>11 DEF IsLetter
    <3>2. l[k] = Append(l[k - 1], msg)
      BY <3>1, <2>1 DEF LettersAre
    <3> QED
      BY <3>2, <2>2, <2>3, <1>11 DEF l
  <2>4. CASE g # h
    <3>1. f.ctxs[g].id # c
      <4>1. c # NULL
        BY <1>2, StoreAssumption
      <4> QED
        BY <4>1, <2>4, <1>5, <1>11 DEF ClientsSound, OneHome
    <3>2. ~IsLetter(ks, k, f.ctxs[g].id)
      BY <3>1 DEF IsLetter
    <3>3. l[k] = l[k - 1]
      BY <3>2, <2>1 DEF LettersAre
    <3> QED
      BY <3>3, <2>2, <2>4, <1>11 DEF l
  <2> QED
    BY <2>3, <2>4
<1> QED
  BY <1>10, <1>12, <1>14, <1>15, <1>16, <1>17, <1>18 DEF Restored, ContentsTo
\* RETAIN.
LEMMA RetainRestored ==
    ASSUME NEW ks, FileOk(ks), NEW k \in 1..Len(ks), NEW x, Restored(ks, x, k - 1),
           ks[k].chunk = "RETAIN", NEW e, e = ChunkRestore(x, ks[k])
    PROVE  Restored(ks, e, k)
<1> DEFINE s == ks[k].db_id
           t == x.store[s].topic
<1>1. /\ ks \in Seq(Chunks) /\ k \in DOMAIN ks /\ k \in Nat \ {0} /\ DOMAIN ks = 1..Len(ks)
      /\ ks[k] \in RetainKind
  BY ChunkIs DEF FileOk
<1>2. s \in Nat /\ ks[k] = RetainOf(s)
  BY <1>1 DEF RetainKind, RetainOf
<1>3. e = mqtt3_db_messages_queue(x, s, FALSE)
  <2>1. e = retain_chunk_restore(x, ks[k])
    BY DEF ChunkRestore
  <2> QED
    BY <2>1 DEF retain_chunk_restore
<1>4. /\ StoreSound(x, 0, 0) /\ ClientsSound(x) /\ LeavesValid(x) /\ x \in Dbs
      /\ HomesTo(ks, x, k - 1) /\ StoresTo(ks, x, k - 1) /\ LastTo(ks, x, k - 1)
      /\ LeavesTo(ks, x, k - 1) /\ RetainsTo(ks, x, k - 1) /\ MsgsTo(ks, x, k - 1)
  BY DEF Restored, ContentsTo, StoreSound, ClientsSound
\* A message that a RETAIN names is in the store by now.
<1>5. ASSUME NEW i \in 1..k, NEW u, ks[i] = RetainOf(u)
      PROVE  /\ u \in DOMAIN x.store /\ TopicIs(ks, u, x.store[u].topic)
             /\ x.store[u].topic \in Topics /\ x.store[u].retain /\ x.store[u].payload
  <2>1. i \in DOMAIN ks /\ ks[i].chunk = "RETAIN" /\ ks[i].db_id = u
    BY <1>1, <1>5 DEF RetainOf
  <2>2. RetainedBefore(ks, i, u)
    BY <2>1 DEF FileOk, RetainsBacked
  <2>3. PICK j \in 1..(i - 1) : /\ ks[j].chunk = "MSG_STORE" /\ ks[j].db_id = u
                                /\ ks[j].retain /\ ks[j].payload
    BY <2>2 DEF RetainedBefore
  <2>4. j \in 1..(k - 1) /\ j \in DOMAIN ks
    BY <1>1
  <2>5. u \in DOMAIN x.store /\ SameStored(x.store[u], ks[j])
    BY <2>3, <2>4, <1>4 DEF StoresTo
  <2>6. ks[j].topic \in Topics
    <3>1. ks[j] \in StoreKind
      BY <2>3, <2>4, <1>1, ChunkIs
    <3> QED
      BY <3>1 DEF StoreKind
  <2>7. x.store[u].topic = ks[j].topic /\ x.store[u].retain /\ x.store[u].payload
    BY <2>3, <2>5 DEF SameStored
  <2> QED
    BY <2>3, <2>4, <2>5, <2>6, <2>7 DEF TopicIs
<1>6. /\ s \in DOMAIN x.store /\ TopicIs(ks, s, t) /\ t \in Topics
      /\ x.store[s].retain /\ x.store[s].payload
  <2>1. k \in 1..k
    BY <1>1
  <2> QED
    BY <2>1, <1>2, <1>5
<1>7. ASSUME NEW i \in 1..k, NEW u, ks[i] = RetainOf(u), x.store[u].topic = t
      PROVE  u = s
  <2>1. TopicIs(ks, u, t)
    BY <1>5, <1>7
  <2>2. i \in DOMAIN ks /\ ks[i].chunk = "RETAIN" /\ ks[i].db_id = u
    BY <1>1, <1>7 DEF RetainOf
  <2> QED
    BY <2>1, <2>2, <1>1, <1>6 DEF FileOk, RetainsOnce
<1>8. x.retained[t] \in {NULL, s}
  <2>1. x.retained[t] \in Nat \cup {NULL}
    BY <1>4, <1>6 DEF Dbs
  <2>2. ASSUME x.retained[t] \in Nat PROVE x.retained[t] = s
    <3> DEFINE u == x.retained[t]
    <3>1. \E i \in 1..(k - 1) : ks[i] = RetainOf(u) /\ x.store[u].topic = t
      <4>1. \A v \in Nat : x.retained[t] = v
               <=> \E i \in 1..(k - 1) : ks[i] = RetainOf(v) /\ x.store[v].topic = t
        BY <1>4, <1>6 DEF RetainsTo
      <4> QED
        BY <4>1, <2>2
    <3> HIDE DEF u
    <3>2. \A i \in 1..(k - 1) : i \in 1..k
      OBVIOUS
    <3>3. u = s
      BY <3>1, <3>2, <1>7
    <3> QED
      BY <3>3 DEF u
  <2> QED
    BY <2>1, <2>2
<1>9. StoreSound(e, 0, 0) /\ Routes(x, e, s, FALSE)
  BY <1>3, <1>4, <1>6, QueueSound
<1>10. /\ Routed(x, e) /\ e.ctxs = x.ctxs /\ DOMAIN e.store = DOMAIN x.store
       /\ e.retained = [x.retained EXCEPT ![t] = s]
  BY <1>6, <1>8, <1>9 DEF Routes
<1>11. /\ e.last = x.last /\ e.leaves = x.leaves /\ e.free = x.free
       /\ \A u \in DOMAIN x.store : SameStored(e.store[u], x.store[u])
  BY <1>10 DEF Routed
<1>12. ClientsSound(e)
  <2>1. ClientsSame(x, e)
    BY <1>10, <1>11 DEF ClientsSame, SameClient
  <2> QED
    BY <2>1, <1>4, ClientsSameSound
<1>13. k # 1
  BY <1>1 DEF FileOk, CfgFirst
<1>14. HomesTo(ks, e, k)
  <2>1. HomesTo(ks, e, k - 1)
    BY <1>4, <1>10 DEF HomesTo
  <2> QED
    BY <2>1, <1>1, SkipHomes
<1>15. StoresTo(ks, e, k) /\ LastTo(ks, e, k)
  <2>1. LastTo(ks, e, k - 1)
    BY <1>4, <1>11 DEF LastTo
  <2>2. StoresTo(ks, e, k - 1)
    BY <1>4, <1>10, <1>11, StoresToSame
  <2> QED
    BY <2>1, <2>2, <1>1, <1>13, SkipStores, SkipLast
<1>16. LeavesTo(ks, e, k)
  <2>1. \A g \in DOMAIN e.ctxs : g \in DOMAIN x.ctxs /\ e.ctxs[g].id = x.ctxs[g].id
    BY <1>10
  <2>2. LeavesTo(ks, e, k - 1)
    BY <2>1, <1>4, <1>11, LeavesToSame
  <2> QED
    BY <2>2, <1>1, SkipLeaves
<1>17. MsgsTo(ks, e, k)
  <2>1. MsgsTo(ks, e, k - 1)
    BY <1>4, <1>10 DEF MsgsTo
  <2> QED
    BY <2>1, <1>1, SkipMsgs
<1>18. RetainsTo(ks, e, k)
  <2> SUFFICES ASSUME NEW v \in Topics, NEW u \in Nat
               PROVE  e.retained[v] = u
                         <=> \E i \in 1..k : ks[i] = RetainOf(u) /\ e.store[u].topic = v
    BY DEF RetainsTo
  <2>1. \A i \in 1..k : i \in 1..(k - 1) \/ i = k
    OBVIOUS
  <2>2. (\A i \in 1..(k - 1) : i \in 1..k) /\ k \in 1..k
    BY <1>1
  <2>3. x.retained[v] = u
           <=> \E i \in 1..(k - 1) : ks[i] = RetainOf(u) /\ x.store[u].topic = v
    BY <1>4 DEF RetainsTo
  <2>4. \A i \in 1..k : ks[i] = RetainOf(u) => e.store[u].topic = x.store[u].topic
    BY <1>5, <1>11 DEF SameStored
  <2>5. x.retained \in [Topics -> Nat \cup {NULL}]
    BY <1>4 DEF Dbs
  <2>6. CASE v = t
    <3>1. e.retained[v] = s
      BY <2>5, <2>6, <1>6, <1>10
    <3>2. \A i \in 1..k : ks[i] = RetainOf(u) /\ e.store[u].topic = v => u = s
      BY <2>4, <2>6, <1>7
    <3>3. u = s => ks[k] = RetainOf(u) /\ e.store[u].topic = v
      BY <2>2, <2>4, <2>6, <1>2
    <3> QED
      BY <3>1, <3>2, <3>3, <2>2
  <2>7. CASE v # t
    <3>1. e.retained[v] = x.retained[v]
      BY <2>5, <2>7, <1>10
    <3>2. ks[k] = RetainOf(u) => u = s
      BY DEF RetainOf
    <3>3. ~(ks[k] = RetainOf(u) /\ e.store[u].topic = v)
      BY <3>2, <2>2, <2>4, <2>7
    <3> QED
      BY <3>1, <3>3, <2>1, <2>2, <2>3, <2>4
  <2> QED
    BY <2>6, <2>7
<1> QED
  BY <1>9, <1>12, <1>14, <1>15, <1>16, <1>17, <1>18 DEF Restored, ContentsTo

\* Reading a chunk.
LEMMA ChunkRestored ==
    ASSUME NEW ks, FileOk(ks), NEW k \in 1..Len(ks), NEW x, Restored(ks, x, k - 1),
           NEW e, e = ChunkRestore(x, ks[k])
    PROVE  Restored(ks, e, k)
<1>1. ks[k] \in Chunks
  BY DEF FileOk
<1>2. ks[k].chunk \in {"CFG", "MSG_STORE", "CLIENT", "CLIENT_MSG", "SUB", "RETAIN"}
  BY <1>1 DEF Chunks, StoreKind, ClientKind, MsgKind, SubKind, RetainKind
<1> QED
  BY <1>2, CfgRestored, StoreRestored, ClientRestored, MsgRestored, SubRestored,
     RetainRestored
\* A database without anything in it.
LEMMA OpenSound ==
    /\ mqtt3_db_open \in Dbs /\ StoreSound(mqtt3_db_open, 0, 0)
    /\ ClientsSound(mqtt3_db_open) /\ Settled(mqtt3_db_open)
<1> DEFINE o == mqtt3_db_open
<1>1. /\ o.last = 0 /\ o.store = <<>> /\ o.ctxs = <<>> /\ o.free = <<>>
      /\ o.leaves = [t \in Topics |-> <<>>] /\ o.retained = [t \in Topics |-> NULL]
  BY DEF mqtt3_db_open
<1>2. DOMAIN o.store = {} /\ DOMAIN o.ctxs = {} /\ DOMAIN o.free = {}
  BY <1>1
<1>3. \A t \in Topics : DOMAIN o.leaves[t] = {} /\ o.retained[t] = NULL
  BY <1>1
<1>4. o \in Dbs
  <2>1. <<>> \in StoreTables /\ <<>> \in CtxTables
    <3>1. <<>> \in [{} -> Stored] /\ <<>> \in [{} -> Ctxs]
      OBVIOUS
    <3> QED
      BY <3>1, IsTable DEF StoreTables, CtxTables
  <2>2. <<>> \in Seq(Leaves) /\ <<>> \in Seq(Contexts)
    OBVIOUS
  <2> QED
    BY <2>1, <2>2 DEF mqtt3_db_open, Dbs
<1> HIDE DEF o
<1>5. EntriesFinite(o)
  <2>1. \A u : Entries(o, u) = {}
    BY <1>2 DEF Entries
  <2> QED
    BY <2>1, FS_EmptySet DEF EntriesFinite
<1>6. StoreSound(o, 0, 0)
  BY <1>2, <1>3, <1>4, <1>5
     DEF StoreSound, IdsBounded, ListsValid, RetainedValid, Counted
<1>7. ClientsSound(o) /\ Settled(o)
  BY <1>2, <1>3 DEF ClientsSound, LeavesValid, LeavesOnce, Once, SubsMatch, FreeValid,
                    OneHome, NoName, Settled
<1> QED
  BY <1>4, <1>6, <1>7 DEF o

\* Before the first chunk.
LEMMA NothingRestored ==
    ASSUME NEW ks
    PROVE  Restored(ks, mqtt3_db_open, 0)
<1> DEFINE o == mqtt3_db_open
<1>1. /\ DOMAIN o.store = {} /\ DOMAIN o.ctxs = {}
      /\ \A t \in Topics : o.retained[t] = NULL
  BY DEF mqtt3_db_open
<1> HIDE DEF o
<1>2. 1..0 = {}
  OBVIOUS
<1>3. HomesTo(ks, o, 0) /\ StoresTo(ks, o, 0) /\ LastTo(ks, o, 0)
  BY <1>1, <1>2 DEF HomesTo, Named, StoresTo, LastTo
<1>4. LeavesTo(ks, o, 0) /\ MsgsTo(ks, o, 0)
  BY <1>1 DEF LeavesTo, MsgsTo
<1>5. RetainsTo(ks, o, 0)
  BY <1>1, <1>2, StoreAssumption DEF RetainsTo
<1> QED
  BY <1>3, <1>4, <1>5, OpenSound DEF Restored, ContentsTo, o

\* A file is read to its end, and the database is what its chunks say.
LEMMA RestoreIs ==
    ASSUME NEW ks, FileOk(ks), NEW e, e = mqtt3_db_restore(ks)
    PROVE  Restored(ks, e, Len(ks))
<1> DEFINE n == Len(ks)
           D == [k \in 0..n |-> {x \in Dbs : Restored(ks, x, k)}]
           F == [k \in 1..n |-> [x \in Dbs |-> ChunkRestore(x, ks[k])]]
           P(g) == g = [k \in 0..n |-> IF k = 0 THEN mqtt3_db_open
                                       ELSE ChunkRestore(g[k - 1], ks[k])]
<1>1. n \in Nat
  BY LenProperties DEF FileOk
<1>2. mqtt3_db_open \in D[0]
  BY <1>1, OpenSound, NothingRestored
<1>3. ASSUME NEW k \in 1..n, NEW x \in D[k - 1]
      PROVE  ChunkRestore(x, ks[k]) \in D[k] /\ x \in Dbs
  <2> DEFINE y == ChunkRestore(x, ks[k])
  <2>1. x \in Dbs /\ Restored(ks, x, k - 1) /\ k \in 0..n
    BY <1>1
  <2>2. Restored(ks, y, k)
    BY <2>1, ChunkRestored
  <2> HIDE DEF y
  <2>3. y \in D[k]
    BY <2>1, <2>2 DEF Restored, StoreSound
  <2> QED
    BY <2>1, <2>3 DEF y
<1>4. mqtt3_db_restore(ks) = (CHOOSE g : P(g))[n]
  BY DEF mqtt3_db_restore
<1> HIDE DEF n, D
<1>5. \A k \in 1..n : \A x \in D[k - 1] : F[k][x] \in D[k]
  BY <1>3
<1>6. \E g : P(g)
  <2> HIDE DEF F
  <2>1. PICK g : Loops(g, n, mqtt3_db_open, F, D)
    BY <1>1, <1>2, <1>5, LoopExists
  <2>2. \A k \in 1..n : k - 1 \in 0..n /\ F[k][g[k - 1]] = ChunkRestore(g[k - 1], ks[k])
    <3> SUFFICES ASSUME NEW k \in 1..n
                 PROVE  k - 1 \in 0..n /\ F[k][g[k - 1]] = ChunkRestore(g[k - 1], ks[k])
      OBVIOUS
    <3>1. k - 1 \in 0..n
      BY <1>1
    <3>2. g[k - 1] \in Dbs
      BY <3>1, <2>1, <1>3 DEF Loops
    <3> QED
      BY <3>1, <3>2 DEF F
  <2>3. P(g)
    BY <2>1, <2>2, <1>1 DEF Loops
  <2> QED
    BY <2>3
<1> DEFINE a == CHOOSE g : P(g)
<1>7. P(a)
  BY <1>6
<1>8. e = a[n]
  BY <1>4
<1> HIDE DEF a, P
<1>9. a[0] = mqtt3_db_open /\ \A k \in 1..n : a[k] = ChunkRestore(a[k - 1], ks[k])
  BY <1>7, <1>1 DEF P
<1>10. \A k \in 0..n : a[k] \in D[k]
  BY <1>1, <1>2, <1>3, <1>9, LoopKeeps
<1> QED
  BY <1>1, <1>8, <1>10 DEF D, n

\* The database a file leads to has the sessions the file stands for.
LEMMA RestoredInv ==
    ASSUME NEW ks, FileOk(ks), NEW x, Restored(ks, x, Len(ks)),
           NEW w, NEW o, SessionOk(ks, w, o), SessionsTyped(w, o)
    PROVE  BrokerInv(x, w, o)
<1> DEFINE n == Len(ks)
<1>1. n \in Nat /\ DOMAIN ks = 1..n /\ ks \in Seq(Chunks)
  BY LenProperties DEF FileOk
<1>2. /\ StoreSound(x, 0, 0) /\ ClientsSound(x) /\ HomesTo(ks, x, n)
      /\ LeavesTo(ks, x, n) /\ MsgsTo(ks, x, n)
  BY DEF Restored, ContentsTo
<1> HIDE DEF n
<1>3. Settled(x)
  BY <1>2 DEF HomesTo, Settled
<1>4. ASSUME NEW c, Named(ks, n, c)
      PROVE  \E h \in DOMAIN x.ctxs : x.ctxs[h].id = c /\ ~x.ctxs[h].clean
  BY <1>2, <1>4 DEF HomesTo
<1>5. Wants(x, w)
  <2> SUFFICES ASSUME NEW c \in Clients, NEW t \in Topics, w[c][t] # NULL
               PROVE  \E h \in DOMAIN x.ctxs : /\ x.ctxs[h].id = c /\ ~x.ctxs[h].clean
                                               /\ Has(x.leaves[t], h, w[c][t])
    BY DEF Wants
  <2> DEFINE q == w[c][t]
  <2>1. PICK i \in DOMAIN ks : ks[i] = SubOf(c, t, q)
    BY DEF SessionOk, SubSaved
  <2>2. i \in 1..n /\ ks[i].chunk = "SUB" /\ ks[i].client = c
    BY <2>1, <1>1 DEF SubOf
  <2>3. PICK h \in DOMAIN x.ctxs : x.ctxs[h].id = c /\ ~x.ctxs[h].clean
    BY <2>2, <1>4 DEF Named
  <2> HIDE DEF q
  <2>4. Has(x.leaves[t], h, q) <=> \E j \in 1..n : ks[j] = SubOf(x.ctxs[h].id, t, q)
    BY <1>2 DEF LeavesTo
  <2>5. Has(x.leaves[t], h, q)
    BY <2>1, <2>2, <2>3, <2>4
  <2> QED
    BY <2>3, <2>5 DEF q
<1>6. Owes(x, o)
  <2> SUFFICES ASSUME NEW c \in Clients, NEW s \in o[c]
               PROVE  \E h \in DOMAIN x.ctxs : /\ x.ctxs[h].id = c /\ ~x.ctxs[h].clean
                                               /\ Holds(x, h, s, "out")
    BY DEF Owes
  <2>1. PICK i \in DOMAIN ks : /\ ks[i].chunk = "CLIENT_MSG" /\ ks[i].client = c
                               /\ ks[i].msg.store = s /\ ks[i].msg.dir = "out"
    BY DEF SessionOk, MsgSaved
  <2>2. PICK h \in DOMAIN x.ctxs : x.ctxs[h].id = c /\ ~x.ctxs[h].clean
    BY <2>1, <1>1, <1>4 DEF Named
  <2> DEFINE l == Letters(ks, c)
  <2>3. LettersAre(ks, c, l)
    BY <1>1, LettersIs
  <2>4. x.ctxs[h].msgs = l[n]
    BY <2>2, <1>2 DEF MsgsTo
  <2> HIDE DEF l
  <2>5. \E j \in DOMAIN l[n] : l[n][j] = ks[i].msg
    BY <2>1, <2>3, <1>1 DEF LettersAre, LettersOf, IsLetter, n
  <2>6. Holds(x, h, s, "out")
    BY <2>1, <2>4, <2>5 DEF Holds
  <2> QED
    BY <2>2, <2>6
<1> QED
  BY <1>2, <1>3, <1>5, <1>6 DEF BrokerInv
----------------------------------------------------------------------------
(***************************************************************************)
(* What is read is what was written.                                       *)
(***************************************************************************)
\* The messages of client c are those of m, after the first b chunks.
LettersAt(ks, c, m, b) ==
    /\ \A k \in 1..Len(ks) : IsLetter(ks, k, c) <=> k - b \in 1..Len(m)
    /\ \A j \in 1..Len(m) : ks[b + j].msg = m[j]

\* How much of m is read after k chunks.
Arrived(m, b, k) ==
    IF k <= b THEN 0 ELSE IF k - b <= Len(m) THEN k - b ELSE Len(m)

Begins(l, m, n) == Len(l) = n /\ \A j \in 1..n : l[j] = m[j]

LEMMA LettersExact ==
    ASSUME NEW ks \in Seq(Chunks), NEW c, NEW m \in Seq(Msgs), NEW b \in Nat,
           b + Len(m) <= Len(ks), LettersAt(ks, c, m, b)
    PROVE  Letters(ks, c)[Len(ks)] = m
<1> DEFINE n == Len(ks)
           f == Letters(ks, c)
           D == [k \in 0..n |-> {l \in Seq(Msgs) : Begins(l, m, Arrived(m, b, k))}]
<1>1. n \in Nat /\ Len(m) \in Nat /\ b + Len(m) <= n
  BY LenProperties
<1>2. LettersAre(ks, c, f)
  BY LettersIs
<1> HIDE DEF f
<1>3. f[0] = <<>> /\ \A k \in 1..n : f[k] = IF IsLetter(ks, k, c)
                                           THEN Append(f[k - 1], ks[k].msg) ELSE f[k - 1]
  BY <1>2 DEF LettersAre
<1>4. f[0] \in D[0]
  <2>1. Arrived(m, b, 0) = 0
    BY DEF Arrived
  <2>2. <<>> \in Seq(Msgs) /\ Begins(<<>>, m, 0)
    BY DEF Begins
  <2> QED
    BY <2>1, <2>2, <1>1, <1>3
<1>5. ASSUME NEW k \in 1..n, f[k - 1] \in D[k - 1] PROVE f[k] \in D[k]
  <2> DEFINE l == f[k - 1]
             a == Arrived(m, b, k - 1)
  <2>1. l \in Seq(Msgs) /\ Begins(l, m, a) /\ k \in 0..n
    BY <1>1, <1>5
  <2>2. IsLetter(ks, k, c) <=> k - b \in 1..Len(m)
    BY DEF LettersAt
  <2> HIDE DEF l
  <2>3. CASE IsLetter(ks, k, c)
    <3>1. k - b \in 1..Len(m)
      BY <2>2, <2>3
    <3>2. a = k - b - 1 /\ Arrived(m, b, k) = k - b
      BY <3>1, <1>1 DEF Arrived
    <3>3. ks[k].msg = m[k - b]
      <4>1. b + (k - b) = k
        BY <1>1
      <4> QED
        BY <3>1, <4>1 DEF LettersAt
    <3>4. m[k - b] \in Msgs
      BY <3>1, ElementOfSeq
    <3>5. f[k] = Append(l, m[k - b])
      BY <2>3, <3>3, <1>3 DEF l
    <3>6. Len(l) = k - b - 1 /\ \A j \in 1..(k - b - 1) : l[j] = m[j]
      BY <2>1, <3>2 DEF Begins
    <3>7. f[k] \in Seq(Msgs) /\ Begins(f[k], m, k - b)
      BY <2>1, <3>1, <3>4, <3>5, <3>6 DEF Begins
    <3> QED
      BY <2>1, <3>2, <3>7
  <2>4. CASE ~IsLetter(ks, k, c)
    <3>1. Arrived(m, b, k) = a
      BY <2>2, <2>4, <1>1 DEF Arrived
    <3>2. f[k] = l
      BY <2>4, <1>3 DEF l
    <3> QED
      BY <2>1, <3>1, <3>2
  <2> QED
    BY <2>3, <2>4
<1>6. \A k \in 0..n : f[k] \in D[k]
  <2> HIDE DEF D, n
  <2> QED
    BY <1>1, <1>4, <1>5, LoopKeeps
<1>7. f[n] \in Seq(Msgs) /\ Begins(f[n], m, Arrived(m, b, n))
  BY <1>1, <1>6
<1>8. Arrived(m, b, n) = Len(m)
  BY <1>1 DEF Arrived
<1>9. Len(f[n]) = Len(m) /\ \A j \in 1..Len(m) : f[n][j] = m[j]
  BY <1>7, <1>8 DEF Begins
<1> QED
  BY <1>1, <1>7, <1>9, SMTT(60) DEF f

\* The messages of a durable session are in the file in their order.
LEMMA LettersSaved ==
    ASSUME NEW d, StoreSound(d, 0, 0), ClientsSound(d), Readable(d), NEW h \in Durable(d),
           NEW ks, ks = mqtt3_db_backup(d)
    PROVE  Letters(ks, d.ctxs[h].id)[Len(ks)] = d.ctxs[h].msgs
<1> DEFINE S == StoreChunks(d)
           C == ClientChunks(d)
           T == SubsRetainChunks(d)
           B == [g \in Durable(d) |-> ClientBlock(d, g)]
           c == d.ctxs[h].id
           m == d.ctxs[h].msgs
<1>1. Written(d, ks, S, C, T)
  BY BackupIs
<1> HIDE DEF S, C, T
<1>2. ks \in Seq(Chunks) /\ ks[1] = CfgOf(d) /\ Laid(ks, S, C, T)
  BY <1>1, WrittenLaid DEF StoreSound
<1>3. PICK o : FlatAt(C, Durable(d), B, o)
  BY <1>1 DEF Written, ClientSection, FlatOf
<1>4. /\ Len(S) \in Nat /\ Len(C) \in Nat /\ Len(T) \in Nat
      /\ DOMAIN C = 1..Len(C) /\ Len(ks) = 1 + Len(S) + Len(C) + Len(T)
      /\ DOMAIN S = 1..Len(S) /\ DOMAIN T = 1..Len(T)
      /\ \A i \in 1..Len(S) : ks[1 + i] = S[i]
      /\ \A i \in 1..Len(C) : ks[1 + Len(S) + i] = C[i]
      /\ \A i \in 1..Len(T) : ks[1 + Len(S) + Len(C) + i] = T[i]
  BY <1>2 DEF Laid
<1>5. ASSUME NEW g \in Durable(d)
      PROVE  /\ DOMAIN B[g] = 1..(Len(d.ctxs[g].msgs) + 1)
             /\ B[g][1] = ClientOf(d.ctxs[g].id)
             /\ \A i \in DOMAIN d.ctxs[g].msgs :
                   B[g][i + 1] = MsgOf(d.ctxs[g].id, d.ctxs[g].msgs[i])
             /\ d.ctxs[g].msgs \in Seq(Msgs) /\ Len(d.ctxs[g].msgs) \in Nat
             /\ DOMAIN d.ctxs[g].msgs = 1..Len(d.ctxs[g].msgs)
             /\ g \in DOMAIN d.ctxs /\ d.ctxs[g].id # NULL
  <2>1. B[g] = ClientBlock(d, g) /\ g \in DOMAIN d.ctxs /\ d.ctxs[g].id # NULL
    BY DEF Durable
  <2>2. d.ctxs[g].msgs \in Seq(Msgs)
    BY DbIs, CtxIs DEF StoreSound, Durable
  <2> HIDE DEF B
  <2> QED
    BY <2>1, <2>2, ClientBlockIs
<1> HIDE DEF B
<1>6. /\ m \in Seq(Msgs) /\ Len(m) \in Nat /\ DOMAIN m = 1..Len(m) /\ o[h] \in Nat
  BY <1>3, <1>5 DEF FlatAt
<1> DEFINE b == Len(S) + o[h] + 2
<1>12. /\ Len(S) \in Nat /\ Len(C) \in Nat /\ Len(T) \in Nat /\ Len(m) \in Nat
       /\ o[h] \in Nat /\ Len(ks) = 1 + Len(S) + Len(C) + Len(T)
  BY <1>4, <1>6
<1>7. b \in Nat
  BY <1>12
<1>8. ASSUME NEW j \in 1..Len(m)
      PROVE  b + j \in 1..Len(ks) /\ ks[b + j] = MsgOf(c, m[j])
  <2>1. j + 1 \in DOMAIN B[h] /\ B[h][j + 1] = MsgOf(c, m[j])
    BY <1>5, <1>6
  <2>2. o[h] + (j + 1) \in DOMAIN C /\ C[o[h] + (j + 1)] = B[h][j + 1]
    BY <2>1, <1>3 DEF FlatAt
  <2>3. 1 + Len(S) + (o[h] + (j + 1)) = b + j
    <3> HIDE DEF m
    <3> QED
      BY <1>12, SMTT(60)
  <2>4. ks[b + j] = C[o[h] + (j + 1)]
    BY <2>2, <2>3, <1>4
  <2>5. b + j \in 1..Len(ks)
    BY <2>2, <2>3, <1>4
  <2> QED
    BY <2>1, <2>2, <2>4, <2>5
<1>9. ASSUME NEW k \in 1..Len(ks), IsLetter(ks, k, c)
      PROVE  k - b \in 1..Len(m)
  <2>1. ks[k].chunk = "CLIENT_MSG" /\ ks[k].client = c
    BY <1>9 DEF IsLetter
  <2>2. k # 1
    BY <2>1, <1>2 DEF CfgOf
  <2>3. k - 1 \notin 1..Len(S)
    <3> SUFFICES ASSUME k - 1 \in 1..Len(S) PROVE FALSE
      OBVIOUS
    <3>1. ks[k] = S[k - 1]
      <4>1. 1 + (k - 1) = k
        BY <1>4
      <4> QED
        BY <4>1, <1>4
    <3>2. S[k - 1] \in StoreKind
      BY <1>1, <1>4, ElementOfSeq DEF Written, StoreSection
    <3> QED
      BY <3>1, <3>2, <2>1 DEF StoreKind
  <2>4. k - 1 - Len(S) - Len(C) \notin 1..Len(T)
    <3> DEFINE i == k - 1 - Len(S) - Len(C)
    <3> SUFFICES ASSUME i \in 1..Len(T) PROVE FALSE
      OBVIOUS
    <3>1. ks[k] = T[i]
      <4>1. 1 + Len(S) + Len(C) + i = k
        BY <1>4
      <4> QED
        BY <4>1, <1>4
    <3>2. T[i] \in TreeKind
      BY <1>1, <1>4, ElementOfSeq DEF Written, TreeSection
    <3> QED
      BY <3>1, <3>2, <2>1 DEF TreeKind, SubKind, RetainKind
  <2> DEFINE p == k - 1 - Len(S)
  <2>5. p \in DOMAIN C /\ 1 + Len(S) + p = k
    BY <2>2, <2>3, <2>4, <1>4
  <2>6. PICK g \in Durable(d) : \E l \in DOMAIN B[g] : p = o[g] + l
    BY <2>5, <1>3 DEF FlatAt
  <2>7. PICK l \in DOMAIN B[g] : p = o[g] + l
    BY <2>6
  <2>8. ks[k] = B[g][l]
    <3>1. ks[k] = C[p]
      BY <2>5, <1>4
    <3>2. C[p] = B[g][l]
      BY <2>7, <1>3 DEF FlatAt
    <3> QED
      BY <3>1, <3>2
  <2>9. l # 1
    <3>1. ClientOf(d.ctxs[g].id).chunk = "CLIENT"
      BY DEF ClientOf
    <3> QED
      BY <3>1, <2>1, <2>8, <1>5
  <2>10. l - 1 \in DOMAIN d.ctxs[g].msgs /\ (l - 1) + 1 = l /\ l \in Nat
    BY <2>9, <1>5
  <2>11. ks[k] = MsgOf(d.ctxs[g].id, d.ctxs[g].msgs[l - 1])
    BY <2>8, <2>10, <1>5
  <2>12. g = h
    <3>1. d.ctxs[g].id = c
      BY <2>1, <2>11 DEF MsgOf
    <3> QED
      BY <3>1, <1>5 DEF ClientsSound, OneHome
  <2>13. l - 1 \in 1..Len(m) /\ p = o[h] + l
    BY <2>7, <2>10, <2>12, <1>6
  <2>14. l \in Nat /\ 1 + Len(S) + p = k
    BY <2>5, <2>10
  <2> HIDE DEF m, p
  <2>15. k - b = l - 1
    BY <2>13, <2>14, <1>12, SMTT(60)
  <2> QED
    BY <2>13, <2>15
<1>10. LettersAt(ks, c, m, b)
  <2>1. ASSUME NEW k \in 1..Len(ks), k - b \in 1..Len(m) PROVE IsLetter(ks, k, c)
    <3>1. b + (k - b) = k
      BY <1>7
    <3>2. ks[k] = MsgOf(c, m[k - b])
      BY <2>1, <3>1, <1>8
    <3> QED
      BY <3>2 DEF MsgOf, IsLetter
  <2>2. \A j \in 1..Len(m) : ks[b + j].msg = m[j]
    <3>1. \A x : MsgOf(c, x).msg = x
      BY DEF MsgOf
    <3> HIDE DEF m, b, c
    <3> QED
      BY <3>1, <1>8
  <2> HIDE DEF m, b, c
  <2> QED
    BY <2>1, <2>2, <1>9 DEF LettersAt
<1>11. b + Len(m) <= Len(ks)
  <2>1. CASE Len(m) = 0
    <3>1. 1 \in DOMAIN B[h]
      BY <1>5
    <3>2. o[h] + 1 \in DOMAIN C
      BY <3>1, <1>3 DEF FlatAt
    <3> QED
      BY <3>2, <2>1, <1>4, <1>6
  <2>2. CASE Len(m) # 0
    <3>1. Len(m) \in 1..Len(m)
      BY <2>2, <1>6
    <3>2. b + Len(m) \in 1..Len(ks)
      BY <3>1, <1>8
    <3> HIDE DEF m, b
    <3> QED
      BY <3>2, <1>7, <1>12
  <2> QED
    BY <2>1, <2>2
<1> HIDE DEF m, b
<1> QED
  BY <1>2, <1>6, <1>7, <1>10, <1>11, LettersExact DEF m
\* The parts of what is kept.
DurableOf(d, c) == {h \in ById(d, c) : ~d.ctxs[h].clean}

KeptClients(d) == {c \in Clients : DurableOf(d, c) # {}}
KeptMsgs(d) == [c \in Clients |-> {d.ctxs[h].msgs : h \in DurableOf(d, c)}]
Subscribed(d, c, t, q) ==
    \E i \in DOMAIN d.leaves[t] :
        d.leaves[t][i].ctx \in DurableOf(d, c) /\ d.leaves[t][i].qos = q
KeptSubs(d) ==
    {s \in [client : Clients, topic : Topics, qos : SubQos] :
        Subscribed(d, s.client, s.topic, s.qos)}
Known(d, s) == [topic |-> d.store[s].topic, qos |-> d.store[s].qos]
KeptRetained(d) ==
    [t \in Topics |-> IF d.retained[t] = NULL THEN NULL ELSE Known(d, d.retained[t])]
KeptStore(d) == [s \in DOMAIN d.store |-> Known(d, s)]

LEMMA KeptParts ==
    ASSUME NEW d
    PROVE  Kept(d) = [clients |-> KeptClients(d), msgs |-> KeptMsgs(d), subs |-> KeptSubs(d),
                      retained |-> KeptRetained(d), store |-> KeptStore(d), last |-> d.last]
  BY DEF Kept, KeptClients, KeptMsgs, KeptSubs, Subscribed, Known, KeptRetained, KeptStore,
         DurableOf

\* The clients a file names are those with a durable session.
LEMMA NamedDurable ==
    ASSUME NEW d, StoreSound(d, 0, 0), ClientsSound(d), NEW ks, Dump(d, ks), NEW c
    PROVE  Named(ks, Len(ks), c) <=> \E h \in Durable(d) : d.ctxs[h].id = c
<1>1. DOMAIN ks = 1..Len(ks)
  BY DEF Dump
<1>2. ASSUME NEW h \in Durable(d), d.ctxs[h].id = c PROVE Named(ks, Len(ks), c)
  <2>1. Says(d, ClientOf(c))
    BY <1>2 DEF Says, ClientSays
  <2>2. PICK i \in DOMAIN ks : ks[i] = ClientOf(c)
    BY <2>1 DEF Dump
  <2>3. ks[i].chunk = "CLIENT" /\ ks[i].client = c
    BY <2>2 DEF ClientOf
  <2> QED
    BY <2>3, <1>1 DEF Named
<1>3. ASSUME NEW i \in 1..Len(ks), ks[i].chunk \in {"CLIENT", "CLIENT_MSG", "SUB"},
             ks[i].client = c
      PROVE  \E h \in Durable(d) : d.ctxs[h].id = c
  <2>1. CASE ks[i].chunk = "CLIENT"
    <3>1. PICK h \in Durable(d) : ks[i] = ClientOf(d.ctxs[h].id)
      BY <2>1, <1>1, DumpIs
    <3> QED
      BY <3>1, <1>3 DEF ClientOf
  <2>2. CASE ks[i].chunk = "CLIENT_MSG"
    <3>1. PICK h \in Durable(d) : MsgSays(d, h, ks[i])
      BY <2>2, <1>1, DumpIs
    <3> QED
      BY <3>1, <1>3 DEF MsgSays, MsgOf
  <2>3. CASE ks[i].chunk = "SUB"
    <3>1. PICK t \in Topics : \E j \in DOMAIN d.leaves[t] : LeafSays(d, t, j, ks[i])
      BY <2>3, <1>1, DumpIs
    <3>2. PICK j \in DOMAIN d.leaves[t] : LeafSays(d, t, j, ks[i])
      BY <3>1
    <3> DEFINE h == d.leaves[t][j].ctx
    <3>3. ~d.ctxs[h].clean /\ d.ctxs[h].id = c
      BY <3>2, <1>3 DEF LeafSays, SubOf
    <3>4. h \in DOMAIN d.ctxs
      BY DEF ClientsSound, LeavesValid
    <3>5. h \in Durable(d)
      BY <3>3, <3>4 DEF ClientsSound, NoName, Durable
    <3> QED
      BY <3>3, <3>5
  <2> QED
    BY <1>3, <2>1, <2>2, <2>3
<1> QED
  BY <1>2, <1>3 DEF Named

\* So are its subscriptions.
LEMMA SavedSubscribed ==
    ASSUME NEW d, StoreSound(d, 0, 0), ClientsSound(d), NEW ks, Dump(d, ks),
           NEW c \in Clients, NEW t \in Topics, NEW q
    PROVE  SubSaved(ks, c, t, q) <=> Subscribed(d, c, t, q)
<1>1. ASSUME NEW i \in DOMAIN ks, ks[i] = SubOf(c, t, q) PROVE Subscribed(d, c, t, q)
  <2>1. ks[i].chunk = "SUB"
    BY <1>1 DEF SubOf
  <2>2. PICK u \in Topics : \E j \in DOMAIN d.leaves[u] : LeafSays(d, u, j, ks[i])
    BY <2>1, DumpIs
  <2>3. PICK j \in DOMAIN d.leaves[u] : LeafSays(d, u, j, ks[i])
    BY <2>2
  <2> DEFINE h == d.leaves[u][j].ctx
  <2>4. ~d.ctxs[h].clean /\ SubOf(c, t, q) = SubOf(d.ctxs[h].id, u, d.leaves[u][j].qos)
    BY <2>3, <1>1 DEF LeafSays
  <2>5. c = d.ctxs[h].id /\ t = u /\ q = d.leaves[u][j].qos
    BY <2>4 DEF SubOf
  <2>6. h \in DOMAIN d.ctxs
    BY DEF ClientsSound, LeavesValid
  <2>7. h \in DurableOf(d, c)
    BY <2>4, <2>5, <2>6 DEF DurableOf, ById
  <2> QED
    BY <2>5, <2>7 DEF Subscribed
<1>2. ASSUME Subscribed(d, c, t, q) PROVE SubSaved(ks, c, t, q)
  <2>1. PICK j \in DOMAIN d.leaves[t] :
           d.leaves[t][j].ctx \in DurableOf(d, c) /\ d.leaves[t][j].qos = q
    BY <1>2 DEF Subscribed
  <2>2. LeafSays(d, t, j, SubOf(c, t, q))
    BY <2>1 DEF LeafSays, DurableOf, ById
  <2>3. Says(d, SubOf(c, t, q))
    BY <2>2 DEF Says, TreeSays, NodeSays
  <2> QED
    BY <2>3 DEF Dump, SubSaved
<1> QED
  BY <1>1, <1>2 DEF SubSaved
\* Every durable session is read back, with its messages in their order.
LEMMA ClientsRead ==
    ASSUME NEW d, StoreSound(d, 0, 0), ClientsSound(d), Readable(d),
           NEW ks, ks = mqtt3_db_backup(d), NEW x, Restored(ks, x, Len(ks))
    PROVE  KeptClients(x) = KeptClients(d) /\ KeptMsgs(x) = KeptMsgs(d)
<1>1. Dump(d, ks)
  BY BackupDump
<1>2. HomesTo(ks, x, Len(ks)) /\ MsgsTo(ks, x, Len(ks)) /\ ClientsSound(x)
  BY DEF Restored, ContentsTo
<1>3. ASSUME NEW c \in Clients
      PROVE  /\ DurableOf(x, c) # {} <=> Named(ks, Len(ks), c)
             /\ DurableOf(d, c) # {} <=> Named(ks, Len(ks), c)
  <2>1. DurableOf(x, c) # {} <=> Named(ks, Len(ks), c)
    BY <1>2 DEF HomesTo, DurableOf, ById
  <2>2. c # NULL
    BY StoreAssumption
  <2>3. DurableOf(d, c) # {} <=> \E h \in Durable(d) : d.ctxs[h].id = c
    BY <2>2 DEF DurableOf, ById, Durable
  <2> QED
    BY <2>1, <2>3, <1>1, NamedDurable
<1>4. ASSUME NEW c \in Clients
      PROVE  {x.ctxs[h].msgs : h \in DurableOf(x, c)}
                = {d.ctxs[h].msgs : h \in DurableOf(d, c)}
  <2>1. CASE ~Named(ks, Len(ks), c)
    <3>1. DurableOf(x, c) = {} /\ DurableOf(d, c) = {}
      BY <2>1, <1>3
    <3> QED
      BY <3>1
  <2>2. CASE Named(ks, Len(ks), c)
    <3>1. PICK g : g \in DurableOf(x, c)
      BY <2>2, <1>3
    <3>2. PICK h : h \in DurableOf(d, c)
      BY <2>2, <1>3
    <3>3. c # NULL
      BY StoreAssumption
    <3>4. /\ g \in DOMAIN x.ctxs /\ x.ctxs[g].id = c
          /\ h \in DOMAIN d.ctxs /\ d.ctxs[h].id = c /\ h \in Durable(d)
      BY <3>1, <3>2, <3>3 DEF DurableOf, ById, Durable
    <3>5. DurableOf(x, c) = {g}
      BY <3>1, <3>3, <1>2 DEF DurableOf, ById, ClientsSound, OneHome
    <3>6. DurableOf(d, c) = {h}
      BY <3>2, <3>3 DEF DurableOf, ById, ClientsSound, OneHome
    <3>7. x.ctxs[g].msgs = Letters(ks, c)[Len(ks)]
      BY <3>4, <1>2 DEF MsgsTo
    <3>8. Letters(ks, c)[Len(ks)] = d.ctxs[h].msgs
      BY <3>4, LettersSaved
    <3> QED
      BY <3>5, <3>6, <3>7, <3>8
  <2> QED
    BY <2>1, <2>2
<1>5. KeptClients(x) = KeptClients(d)
  BY <1>3 DEF KeptClients
<1>6. KeptMsgs(x) = KeptMsgs(d)
  BY <1>4 DEF KeptMsgs
<1> QED
  BY <1>5, <1>6

LEMMA SubsRead ==
    ASSUME NEW d, StoreSound(d, 0, 0), ClientsSound(d), NEW ks, Dump(d, ks),
           NEW x, Restored(ks, x, Len(ks))
    PROVE  KeptSubs(x) = KeptSubs(d)
<1>1. /\ HomesTo(ks, x, Len(ks)) /\ LeavesTo(ks, x, Len(ks)) /\ ClientsSound(x)
      /\ DOMAIN ks = 1..Len(ks)
  BY DEF Restored, ContentsTo, Dump
<1>2. ASSUME NEW c \in Clients, NEW t \in Topics, NEW q
      PROVE  Subscribed(x, c, t, q) <=> SubSaved(ks, c, t, q)
  <2>1. ASSUME Subscribed(x, c, t, q) PROVE SubSaved(ks, c, t, q)
    <3>1. PICK i \in DOMAIN x.leaves[t] :
             x.leaves[t][i].ctx \in DurableOf(x, c) /\ x.leaves[t][i].qos = q
      BY <2>1 DEF Subscribed
    <3> DEFINE h == x.leaves[t][i].ctx
    <3>2. Has(x.leaves[t], h, q)
      BY <3>1 DEF Has
    <3>3. h \in DOMAIN x.ctxs /\ x.ctxs[h].id = c
      BY <3>1 DEF DurableOf, ById
    <3> HIDE DEF h
    <3>4. Has(x.leaves[t], h, q) <=> \E j \in 1..Len(ks) : ks[j] = SubOf(x.ctxs[h].id, t, q)
      BY <3>3, <1>1 DEF LeavesTo
    <3> QED
      BY <3>2, <3>3, <3>4, <1>1 DEF SubSaved
  <2>2. ASSUME SubSaved(ks, c, t, q) PROVE Subscribed(x, c, t, q)
    <3>1. PICK j \in 1..Len(ks) : ks[j] = SubOf(c, t, q)
      BY <2>2, <1>1 DEF SubSaved
    <3>2. Named(ks, Len(ks), c)
      BY <3>1 DEF Named, SubOf
    <3>3. PICK h \in DOMAIN x.ctxs : x.ctxs[h].id = c /\ ~x.ctxs[h].clean
      BY <3>2, <1>1 DEF HomesTo
    <3>4. Has(x.leaves[t], h, q) <=> \E i \in 1..Len(ks) : ks[i] = SubOf(x.ctxs[h].id, t, q)
      BY <3>3, <1>1 DEF LeavesTo
    <3>5. Has(x.leaves[t], h, q)
      BY <3>1, <3>3, <3>4
    <3>6. h \in DurableOf(x, c)
      BY <3>3 DEF DurableOf, ById
    <3> QED
      BY <3>5, <3>6 DEF Has, Subscribed
  <2> QED
    BY <2>1, <2>2
<1>3. \A c \in Clients, t \in Topics : \A q : Subscribed(x, c, t, q) <=> Subscribed(d, c, t, q)
  BY <1>2, SavedSubscribed
<1> QED
  BY <1>3 DEF KeptSubs

\* The stored messages, and which of them are retained.
LEMMA StoreRead ==
    ASSUME NEW d, StoreSound(d, 0, 0), ClientsSound(d), NEW ks, Dump(d, ks),
           NEW x, Restored(ks, x, Len(ks))
    PROVE  /\ KeptStore(x) = KeptStore(d) /\ KeptRetained(x) = KeptRetained(d)
           /\ x.last = d.last
<1>1. /\ StoresTo(ks, x, Len(ks)) /\ RetainsTo(ks, x, Len(ks)) /\ LastTo(ks, x, Len(ks))
      /\ x \in Dbs /\ d \in Dbs /\ RetainedValid(d) /\ RetainedValid(x)
  BY DEF Restored, ContentsTo, StoreSound
<1>2. DOMAIN ks = 1..Len(ks) /\ 1 \in DOMAIN ks /\ ks[1] = CfgOf(d) /\ Len(ks) \in Nat
  BY DEF Dump
<1>3. x.last = d.last
  <2>1. Len(ks) # 0
    BY <1>2
  <2> QED
    BY <2>1, <1>1, <1>2 DEF LastTo, CfgOf
<1>4. ASSUME NEW s \in DOMAIN d.store
      PROVE  s \in DOMAIN x.store /\ Known(x, s) = Known(d, s) /\ x.store[s].topic = d.store[s].topic
  <2>1. Says(d, StoreOf(d, s))
    BY DEF Says, StoreSays
  <2>2. PICK i \in DOMAIN ks : ks[i] = StoreOf(d, s)
    BY <2>1 DEF Dump
  <2>3. /\ i \in 1..Len(ks) /\ ks[i].chunk = "MSG_STORE" /\ ks[i].db_id = s
        /\ ks[i].topic = d.store[s].topic /\ ks[i].qos = d.store[s].qos
    BY <2>2, <1>2 DEF StoreOf
  <2>4. s \in DOMAIN x.store /\ SameStored(x.store[s], ks[i])
    BY <2>3, <1>1 DEF StoresTo
  <2> QED
    BY <2>3, <2>4 DEF SameStored, Known
<1>5. ASSUME NEW s \in DOMAIN x.store PROVE s \in DOMAIN d.store
  <2>1. PICK i \in 1..Len(ks) : ks[i].chunk = "MSG_STORE" /\ ks[i].db_id = s
    BY <1>1 DEF StoresTo
  <2>2. PICK u \in DOMAIN d.store : ks[i] = StoreOf(d, u)
    BY <2>1, <1>2, DumpIs
  <2> QED
    BY <2>1, <2>2 DEF StoreOf
<1>6. KeptStore(x) = KeptStore(d)
  <2>1. DOMAIN x.store = DOMAIN d.store
    BY <1>4, <1>5
  <2> QED
    BY <2>1, <1>4 DEF KeptStore
<1>7. ASSUME NEW t \in Topics PROVE x.retained[t] = d.retained[t]
  <2>1. x.retained[t] \in Nat \cup {NULL} /\ d.retained[t] \in Nat \cup {NULL}
    BY <1>1 DEF Dbs
  <2>2. ASSUME NEW s \in Nat
        PROVE  x.retained[t] = s
                  <=> \E i \in 1..Len(ks) : ks[i] = RetainOf(s) /\ x.store[s].topic = t
    BY <1>1 DEF RetainsTo
  <2>3. ASSUME NEW s \in Nat, d.retained[t] = s PROVE x.retained[t] = s
    <3>1. s # NULL
      BY StoreAssumption
    <3>2. s \in DOMAIN d.store /\ d.store[s].topic = t
      BY <3>1, <2>3, <1>1 DEF RetainedValid
    <3>3. RetainSays(d, t, RetainOf(s))
      BY <3>1, <2>3 DEF RetainSays
    <3>4. Says(d, RetainOf(s))
      BY <3>3 DEF Says, TreeSays, NodeSays
    <3>5. PICK i \in 1..Len(ks) : ks[i] = RetainOf(s)
      BY <3>4, <1>2 DEF Dump
    <3> QED
      BY <3>2, <3>5, <2>2, <1>4
  <2>4. ASSUME NEW s \in Nat, x.retained[t] = s PROVE d.retained[t] = s
    <3>1. PICK i \in 1..Len(ks) : ks[i] = RetainOf(s) /\ x.store[s].topic = t
      BY <2>2, <2>4
    <3>2. ks[i].chunk = "RETAIN"
      BY <3>1 DEF RetainOf
    <3>3. PICK u \in Topics : RetainSays(d, u, ks[i])
      BY <3>2, <1>2, DumpIs
    <3>4. d.retained[u] = s /\ d.retained[u] # NULL
      BY <3>1, <3>3 DEF RetainSays, RetainOf
    <3>5. s \in DOMAIN d.store /\ d.store[s].topic = u
      BY <3>4, <1>1 DEF RetainedValid
    <3>6. u = t
      BY <3>1, <3>5, <1>4
    <3> QED
      BY <3>4, <3>6
  <2> QED
    BY <2>1, <2>3, <2>4
<1>8. KeptRetained(x) = KeptRetained(d)
  <2>1. ASSUME NEW t \in Topics, d.retained[t] # NULL
        PROVE  Known(x, d.retained[t]) = Known(d, d.retained[t])
    <3>1. d.retained[t] \in DOMAIN d.store
      BY <2>1, <1>1 DEF RetainedValid
    <3> QED
      BY <3>1, <1>4
  <2> QED
    BY <2>1, <1>7 DEF KeptRetained
<1> QED
  BY <1>3, <1>6, <1>8

\* Saving a database and starting from the file keeps what is promised.
LEMMA KeptRestored ==
    ASSUME NEW d, StoreSound(d, 0, 0), ClientsSound(d), Readable(d)
    PROVE  Kept(mqtt3_db_restore(mqtt3_db_backup(d))) = Kept(d)
<1> DEFINE ks == mqtt3_db_backup(d)
           x == mqtt3_db_restore(ks)
<1>1. Dump(d, ks)
  BY BackupDump
<1>2. FileOk(ks)
  BY <1>1, DumpOk
<1> HIDE DEF ks
<1>3. Restored(ks, x, Len(ks))
  BY <1>2, RestoreIs
<1> HIDE DEF x
<1>4. KeptClients(x) = KeptClients(d) /\ KeptMsgs(x) = KeptMsgs(d)
  BY <1>3, ClientsRead DEF ks
<1>5. KeptSubs(x) = KeptSubs(d)
  BY <1>1, <1>3, SubsRead
<1>6. /\ KeptStore(x) = KeptStore(d) /\ KeptRetained(x) = KeptRetained(d)
      /\ x.last = d.last
  BY <1>1, <1>3, StoreRead
<1> QED
  BY <1>4, <1>5, <1>6, KeptParts DEF x, ks
----------------------------------------------------------------------------
(***************************************************************************)
(* The invariant of the broker and its file.  A broker that runs has the   *)
(* invariant of its database; one that does not has an empty database, and *)
(* the sessions are those of the file.  The file is the beginning of what  *)
(* some sound database was saved as, and stands for those sessions; if it  *)
(* is all of it, it is known which database that was.  Messages nobody     *)
(* refers to were read from it.                                            *)
(***************************************************************************)
SavedFrom(d, f, s) ==
    /\ StoreSound(d, 0, 0) /\ ClientsSound(d) /\ Readable(d)
    /\ f.chunks = mqtt3_db_backup(d) /\ s.kept = Kept(d)

Faithful(f, s) == s.kept # NULL => ~f.short /\ ~f.torn /\ \E d : SavedFrom(d, f, s)

LastSaved(f, s) == Len(f.chunks) # 0 => f.chunks[1].last = s.last

DiskSound(f, s) ==
    /\ FileOk(f.chunks) /\ LastSaved(f, s)
    /\ SessionsTyped(s.sessions.wanted, s.sessions.owed)
    /\ SessionOk(f.chunks, s.sessions.wanted, s.sessions.owed)
    /\ (f.short => s.sessions = Nobody)
    /\ Faithful(f, s)

Leaked(d, n, s) == \A u \in Zeros(d) : n > 1 /\ u <= s.last

PInv ==
    /\ starts \in Nat \ {0}
    /\ up => BrokerInv(db, wanted, owed)
    /\ ~up => /\ db = mqtt3_db_open
              /\ wanted = saved.sessions.wanted /\ owed = saved.sessions.owed
    /\ DiskSound(file, saved) /\ Leaked(db, starts, saved)

\* Nobody wants anything.
LEMMA NobodyOk ==
    /\ SessionsTyped(Nobody.wanted, Nobody.owed)
    /\ \A ks : SessionOk(ks, Nobody.wanted, Nobody.owed)
  BY DEF Nobody, SessionsTyped, SessionOk

LEMMA OpenLeaks ==
    ASSUME NEW n, NEW s
    PROVE  Leaked(mqtt3_db_open, n, s)
<1>1. DOMAIN mqtt3_db_open.store = {}
  BY DEF mqtt3_db_open
<1> QED
  BY <1>1 DEF Leaked, Zeros

LEMMA EmptySound ==
    ASSUME NEW f, f.chunks = <<>>, NEW s, s.sessions = Nobody, s.kept = NULL
    PROVE  DiskSound(f, s)
  BY EmptyFileOk, NobodyOk DEF DiskSound, LastSaved, Faithful

LEMMA PInitInv ==
    ASSUME PInit
    PROVE  PInv
<1>1. /\ db = mqtt3_db_open /\ file = NoFile /\ up = TRUE /\ starts = 1
      /\ saved = Partial(0) /\ wanted = Nobody.wanted /\ owed = Nobody.owed
  BY DEF PInit, Init, Nobody
<1>2. DiskSound(file, saved)
  BY <1>1, EmptySound DEF NoFile, File, Partial
<1>3. BrokerInv(db, wanted, owed)
  <2>1. Wants(db, Nobody.wanted) /\ Owes(db, Nobody.owed)
    BY DEF Wants, Owes, Nobody
  <2> QED
    BY <2>1, <1>1, OpenSound, NobodyOk DEF BrokerInv
<1> QED
  BY <1>1, <1>2, <1>3, OpenLeaks DEF PInv

\* A save, whatever becomes of it.
LEMMA SaveKeeps ==
    ASSUME BrokerInv(db, wanted, owed), DiskSound(file, saved), mqtt3_db_backup_step
    PROVE  /\ DiskSound(file', saved')
           /\ \A d : \A n : Zeros(d) \subseteq DOMAIN db.store /\ Leaked(d, n, saved)
                               => Leaked(d, n, saved')
<1> DEFINE ks == mqtt3_db_backup(db)
<1>1. /\ StoreSound(db, 0, 0) /\ ClientsSound(db) /\ IdsBounded(db) /\ Readable(db)
      /\ SessionsTyped(wanted, owed) /\ Wants(db, wanted) /\ Owes(db, owed)
  BY DEF BrokerInv, StoreSound, mqtt3_db_backup_step
<1>2. Dump(db, ks)
  BY <1>1, BackupDump
<1>3. FileOk(ks) /\ SessionOk(ks, wanted, owed)
  BY <1>1, <1>2, DumpOk, DumpSessions
<1>4. ks[1].last = db.last
  BY <1>2 DEF Dump, CfgOf
<1>5. CASE /\ file' = File(ks, TRUE, FALSE)
           /\ saved' = Complete(db)
  <2>1. /\ file'.chunks = ks /\ ~file'.short /\ ~file'.torn
        /\ saved'.last = db.last /\ saved'.kept = Kept(db)
        /\ saved'.sessions.wanted = wanted /\ saved'.sessions.owed = owed
    BY <1>5 DEF File, Complete
  <2> HIDE DEF ks
  <2>2. Faithful(file', saved')
    <3>1. SavedFrom(db, file', saved')
      BY <2>1, <1>1 DEF SavedFrom, ks
    <3> QED
      BY <3>1, <2>1 DEF Faithful
  <2>3. DiskSound(file', saved')
    BY <2>1, <2>2, <1>1, <1>3, <1>4 DEF DiskSound, LastSaved
  <2> QED
    BY <2>1, <2>3, <1>1 DEF Leaked, IdsBounded
<1>6. CASE /\ file' = File(ks, FALSE, TRUE)
           /\ saved' = Partial(db.last)
  <2>1. /\ file'.chunks = ks /\ saved'.last = db.last /\ saved'.kept = NULL
        /\ saved'.sessions = Nobody
    BY <1>6 DEF File, Partial
  <2> HIDE DEF ks
  <2>2. DiskSound(file', saved')
    BY <2>1, <1>3, <1>4, NobodyOk DEF DiskSound, LastSaved, Faithful
  <2> QED
    BY <2>1, <2>2, <1>1 DEF Leaked, IdsBounded
<1>7. CASE UNCHANGED <<file, saved>>
  BY <1>7
<1> QED
  BY <1>5, <1>6, <1>7 DEF mqtt3_db_backup_step, Renamed, NotRenamed

\* After a save by count persistence_changes starts again.
LEMMA ResetSound ==
    ASSUME NEW d, StoreSound(d, 0, 0), ClientsSound(d), NEW e, e = [d EXCEPT !.changes = 0]
    PROVE  Sound(d, e) /\ ClientsKept(d, e)
<1>1. /\ e \in Dbs /\ e.last = d.last /\ e.ctxs = d.ctxs /\ e.leaves = d.leaves
      /\ e.retained = d.retained /\ e.free = d.free /\ e.store = d.store
  BY DEF StoreSound, Dbs
<1>2. SameStore(d, e)
  BY <1>1 DEF SameStore, SameLists
<1>3. ClientsKept(d, e)
  BY <1>1 DEF ClientsKept, SameClient, Grown
<1>4. StoreSound(e, 0, 0) /\ Zeros(e) = Zeros(d)
  BY <1>1, <1>2, StoreSoundSame
<1>5. ClientsSound(e) /\ (Settled(d) => Settled(e))
  BY <1>3, KeptSound
<1> QED
  BY <1>3, <1>4, <1>5 DEF Sound

\* The broker ends: its memory is gone.
LEMMA StopKeeps ==
    ASSUME PInv, Stop, DiskSound(file', saved')
    PROVE  PInv'
  BY OpenLeaks DEF PInv, Stop

LEMMA ServedKeeps ==
    ASSUME PInv, Served
    PROVE  PInv'
<1>1. /\ up /\ Handler /\ up' = up /\ starts' = starts /\ file' = file /\ saved' = saved
  BY DEF Served
<1>2. BrokerInv(db', wanted', owed') /\ Zeros(db') \subseteq Zeros(db)
  BY <1>1, HandlerKeeps DEF PInv
<1> QED
  BY <1>1, <1>2 DEF PInv, Leaked

LEMMA FreeDisusedKeeps ==
    ASSUME PInv, up, FreeDisused, UNCHANGED <<file, up, starts, saves, late, saved>>
    PROVE  PInv'
<1>1. /\ db' = mosquitto__free_disused_contexts(db)
      /\ wanted' = wanted /\ owed' = owed
  BY DEF FreeDisused, session
<1>2. BrokerInv(db', wanted, owed) /\ Zeros(db') \subseteq Zeros(db)
  BY <1>1, FreeKeeps DEF PInv
<1> QED
  BY <1>1, <1>2 DEF PInv, Leaked

\* Autosave and SIGUSR1.
LEMMA SaveAndFreeKeeps ==
    ASSUME PInv, up, mqtt3_db_backup_step, NEW d, d \in {db, [db EXCEPT !.changes = 0]},
           db' = mosquitto__free_disused_contexts(d), UNCHANGED <<session, up, starts>>
    PROVE  PInv'
<1>1. BrokerInv(db, wanted, owed) /\ StoreSound(db, 0, 0) /\ ClientsSound(db)
  BY DEF PInv, BrokerInv
<1>2. BrokerInv(d, wanted, owed) /\ Zeros(d) \subseteq Zeros(db)
  <2>1. CASE d = db
    BY <2>1, <1>1
  <2>2. CASE d = [db EXCEPT !.changes = 0]
    <3>1. Sound(db, d) /\ ClientsKept(db, d)
      BY <2>2, <1>1, ResetSound
    <3>2. Stay(db, d)
      BY <3>1, KeptStay
    <3> QED
      BY <3>1, <3>2, <1>1, InvStay DEF Sound
  <2> QED
    BY <2>1, <2>2
<1>3. BrokerInv(db', wanted, owed) /\ Zeros(db') \subseteq Zeros(db)
  BY <1>2, FreeKeeps
<1>4. /\ DiskSound(file', saved')
      /\ Zeros(db') \subseteq DOMAIN db.store /\ Leaked(db', starts, saved)
            => Leaked(db', starts, saved')
  BY <1>1, SaveKeeps DEF PInv
<1>5. Zeros(db') \subseteq DOMAIN db.store /\ Leaked(db', starts, saved)
  BY <1>3 DEF PInv, Leaked, Zeros
<1> QED
  BY <1>3, <1>4, <1>5 DEF PInv, session

\* A file that lost its end while it was written, or when the power went.
LEMMA PowerLossKeeps ==
    ASSUME PInv, power_loss
    PROVE  PInv'
<1>1. Stop
  BY DEF power_loss
<1>2. DiskSound(file', saved')
  <2>1. CASE UNCHANGED <<file, saved>>
    BY <2>1 DEF PInv
  <2>2. CASE file' = File(file.chunks, FALSE, TRUE) /\ saved' = Partial(saved.last)
    <3>1. /\ file'.chunks = file.chunks /\ saved'.last = saved.last /\ saved'.kept = NULL
          /\ saved'.sessions = Nobody
      BY <2>2 DEF File, Partial
    <3> QED
      BY <3>1, NobodyOk DEF PInv, DiskSound, LastSaved, Faithful
  <2> QED
    BY <2>1, <2>2 DEF power_loss
<1> QED
  BY <1>1, <1>2, StopKeeps

\* What is read is the file, or a beginning of it.
LEMMA ReadKeeps ==
    ASSUME DiskSound(file, saved), NEW f, f \in IF file.short THEN Cut(file.chunks) ELSE {file}
    PROVE  DiskSound(f, saved)
<1>1. CASE ~file.short
  BY <1>1
<1>2. CASE file.short
  <2>1. saved.sessions = Nobody /\ saved.kept = NULL /\ f \in Cut(file.chunks)
    BY <1>2 DEF DiskSound, Faithful
  <2>2. CASE f = [NoFile EXCEPT !.torn = TRUE]
    <3>1. f.chunks = <<>>
      BY <2>2 DEF NoFile, File
    <3> QED
      BY <3>1, <2>1, EmptySound
  <2>3. ASSUME NEW n \in 1..Len(file.chunks) - 1,
               f = File(SubSeq(file.chunks, 1, n), FALSE, FALSE)
        PROVE  DiskSound(f, saved)
    <3> DEFINE ks == file.chunks
               ps == SubSeq(ks, 1, n)
    <3>1. f.chunks = ps
      BY <2>3 DEF File
    <3>2. FileOk(ks) /\ LastSaved(file, saved)
      BY DEF DiskSound
    <3>3. Len(ks) \in Nat /\ n \in 0..Len(ks)
      BY <3>2 DEF FileOk
    <3>4. FileOk(ps) /\ Len(ps) = n /\ \A i \in DOMAIN ps : i \in DOMAIN ks /\ ps[i] = ks[i]
      <4>1. ps = SubSeq(ks, 1, n)
        OBVIOUS
      <4> HIDE DEF ps, ks
      <4> QED
        BY <4>1, <3>2, <3>3, FileOkPrefix
    <3> HIDE DEF ps
    <3>5. LastSaved(f, saved)
      <4>1. 1 \in DOMAIN ps /\ Len(ks) # 0
        BY <3>3, <3>4 DEF FileOk
      <4> QED
        BY <4>1, <3>1, <3>2, <3>4 DEF LastSaved
    <3> QED
      BY <3>1, <3>4, <3>5, <2>1, NobodyOk DEF DiskSound, Faithful
  <2> QED
    BY <2>1, <2>2, <2>3 DEF Cut
<1> QED
  BY <1>1, <1>2

LEMMA StartKeeps ==
    ASSUME PInv, Start
    PROVE  PInv'
<1>1. /\ ~up /\ starts' = starts + 1 /\ up' = ~file'.torn
      /\ db' = IF file'.torn THEN db ELSE mqtt3_db_restore(file'.chunks)
      /\ wanted' = wanted /\ owed' = owed /\ saved' = saved
      /\ file' \in IF file.short THEN Cut(file.chunks) ELSE {file}
  BY DEF Start, session
<1>2. DiskSound(file', saved)
  BY <1>1, ReadKeeps DEF PInv
<1>3. /\ starts' \in Nat \ {0} /\ starts' > 1 /\ db = mqtt3_db_open
      /\ wanted = saved.sessions.wanted /\ owed = saved.sessions.owed
  BY <1>1 DEF PInv
<1>4. CASE file'.torn
  BY <1>1, <1>2, <1>3, <1>4, OpenLeaks DEF PInv
<1>5. CASE ~file'.torn
  <2> DEFINE ks == file'.chunks
  <2>1. db' = mqtt3_db_restore(ks) /\ FileOk(ks) /\ LastSaved(file', saved)
    BY <1>1, <1>2, <1>5 DEF DiskSound
  <2>2. Restored(ks, db', Len(ks))
    BY <2>1, RestoreIs
  <2>3. SessionOk(ks, wanted, owed) /\ SessionsTyped(wanted, owed)
    BY <1>2, <1>3 DEF DiskSound
  <2>4. BrokerInv(db', wanted, owed)
    BY <2>1, <2>2, <2>3, RestoredInv
  <2>5. Leaked(db', starts', saved)
    <3> SUFFICES ASSUME NEW u \in Zeros(db') PROVE u <= saved.last
      BY <1>3 DEF Leaked
    <3>1. u \in DOMAIN db'.store
      BY DEF Zeros
    <3>2. u <= db'.last
      BY <3>1, <2>4 DEF BrokerInv, StoreSound, IdsBounded
    <3>3. PICK i \in 1..Len(ks) : ks[i].chunk = "MSG_STORE"
      BY <3>1, <2>2 DEF Restored, ContentsTo, StoresTo
    <3>4. Len(ks) # 0
      <4>1. Len(ks) \in Nat
        BY <2>1 DEF FileOk
      <4> QED
        BY <4>1, <3>3
    <3> QED
      BY <3>2, <3>4, <2>1, <2>2 DEF Restored, ContentsTo, LastTo, LastSaved
  <2> QED
    BY <1>1, <1>2, <1>3, <1>5, <2>4, <2>5 DEF PInv
<1> QED
  BY <1>4, <1>5
LEMMA PNextInv ==
    ASSUME PInv, [PNext]_vars
    PROVE  PInv'
<1>1. CASE Served
  BY <1>1, ServedKeeps
<1>2. CASE up /\ FreeDisused /\ UNCHANGED <<file, up, starts, saves, late, saved>>
  BY <1>2, FreeDisusedKeeps
<1>3. CASE Autosave
  <2> DEFINE d == IF autosave_on_changes THEN [db EXCEPT !.changes = 0] ELSE db
  <2>1. /\ up /\ mqtt3_db_backup_step /\ db' = mosquitto__free_disused_contexts(d)
        /\ UNCHANGED <<session, up, starts>>
    BY <1>3 DEF Autosave
  <2>2. d \in {db, [db EXCEPT !.changes = 0]}
    OBVIOUS
  <2> HIDE DEF d
  <2> QED
    BY <2>1, <2>2, SaveAndFreeKeeps
<1>4. CASE sigusr1
  BY <1>4, SaveAndFreeKeeps DEF sigusr1
<1>5. CASE SaveCrash
  <2>1. Stop /\ DiskSound(file', saved')
    BY <1>5 DEF SaveCrash, PInv
  <2> QED
    BY <2>1, StopKeeps
<1>6. CASE Shutdown
  <2>1. Stop /\ up /\ mqtt3_db_backup_step
    BY <1>6 DEF Shutdown
  <2>2. DiskSound(file', saved')
    BY <2>1, SaveKeeps DEF PInv
  <2> QED
    BY <2>1, <2>2, StopKeeps
<1>7. CASE kill
  <2>1. Stop /\ DiskSound(file', saved')
    BY <1>7 DEF kill, PInv
  <2> QED
    BY <2>1, StopKeeps
<1>8. CASE power_loss
  BY <1>8, PowerLossKeeps
<1>9. CASE Start
  BY <1>9, StartKeeps
<1>10. CASE UNCHANGED vars
  BY <1>10 DEF vars, session, PInv
<1> QED
  BY <1>1, <1>2, <1>3, <1>4, <1>5, <1>6, <1>7, <1>8, <1>9, <1>10 DEF PNext

THEOREM PersistenceInvariant ==
    PSpec => []PInv
<1>1. PInit => PInv
  BY PInitInv
<1>2. PInv /\ [PNext]_vars => PInv'
  BY PNextInv
<1> QED
  BY <1>1, <1>2, PTL DEF PSpec

\* A set without two members has at most one.
LEMMA AtMostOne ==
    ASSUME NEW S, \A g, h \in S : g = h
    PROVE  Cardinality(S) <= 1
<1>1. CASE S = {}
  BY <1>1, FS_EmptySet
<1>2. CASE S # {}
  <2>1. PICK h : h \in S
    BY <1>2
  <2>2. S = {h}
    BY <2>1
  <2>3. Cardinality({h}) = 1
    BY FS_Singleton, Zenon
  <2> QED
    BY <2>2, <2>3
<1> QED
  BY <1>1, <1>2

LEMMA SoundPointers ==
    ASSUME StoreSound(db, 0, 0), ClientsSound(db)
    PROVE  PointersValid
<1>1. db \in Dbs
  BY DEF StoreSound
<1>2. \A h \in DOMAIN db.ctxs : \A i \in DOMAIN db.ctxs[h].msgs :
         db.ctxs[h].msgs[i].store \in DOMAIN db.store
  BY DEF StoreSound, ListsValid
<1>3. \A t \in Topics : db.retained[t] \in DOMAIN db.store \cup {NULL}
  BY DEF StoreSound, RetainedValid
<1>4. \A t \in Topics : \A i \in DOMAIN db.leaves[t] :
         db.leaves[t][i].ctx \in DOMAIN db.ctxs
  BY DEF ClientsSound, LeavesValid
<1>5. \A h \in DOMAIN db.ctxs :
         db.ctxs[h].subs = {t \in Topics :
             \E i \in DOMAIN db.leaves[t] : db.leaves[t][i].ctx = h}
  <2> SUFFICES ASSUME NEW h \in DOMAIN db.ctxs
               PROVE  db.ctxs[h].subs = {t \in Topics :
                         \E i \in DOMAIN db.leaves[t] : db.leaves[t][i].ctx = h}
    OBVIOUS
  <2>1. db.ctxs[h].subs \subseteq Topics
    BY <1>1, DbIs, CtxIs
  <2>2. \A t \in Topics : t \in db.ctxs[h].subs <=> \E q : Has(db.leaves[t], h, q)
    BY DEF ClientsSound, SubsMatch
  <2>3. \A t \in Topics : (\E q : Has(db.leaves[t], h, q))
           <=> \E i \in DOMAIN db.leaves[t] : db.leaves[t][i].ctx = h
    BY DEF Has
  <2> QED
    BY <2>1, <2>2, <2>3
<1>6. IsInjective(db.free)
  BY DEF ClientsSound, FreeValid, IsInjective
<1>7. \A h \in ToSet(db.free) : h \in DOMAIN db.ctxs /\ db.ctxs[h].id = NULL
  BY DEF ClientsSound, FreeValid, ToSet
<1>8. ASSUME NEW c \in Clients PROVE Cardinality(ById(db, c)) <= 1
  <2>1. c # NULL
    BY StoreAssumption
  <2>2. \A g, h \in ById(db, c) : g = h
    BY <2>1 DEF ById, ClientsSound, OneHome
  <2> QED
    BY <2>2, AtMostOne
<1> QED
  BY <1>2, <1>3, <1>4, <1>5, <1>6, <1>7, <1>8 DEF PointersValid

LEMMA SoundCounts ==
    ASSUME StoreSound(db, 0, 0)
    PROVE  RefCountExact
<1> SUFFICES ASSUME NEW s \in DOMAIN db.store PROVE db.store[s].ref = Refs(db, s)
  BY DEF RefCountExact
<1>1. 1 <= s /\ s \in Nat
  BY DbIs, TableIs DEF StoreSound, IdsBounded, StoreTables
<1>2. db.store[s].ref = Refs(db, s) + 0 + 0
  BY <1>1 DEF StoreSound, Counted, One
<1>3. Refs(db, s) \in Nat
  BY <1>1, RefsNat DEF StoreSound
<1> QED
  BY <1>2, <1>3

LEMMA PInvSound ==
    ASSUME PInv
    PROVE  StoreSound(db, 0, 0) /\ ClientsSound(db)
  BY OpenSound DEF PInv, BrokerInv

(***************************************************************************)
(* No pointer outlives what it points to (mqtt3_context_cleanup, the       *)
(* takeover of mqtt3_handle_connect, mosquitto__db_msg_store_deref), for   *)
(* any clients, topics and contexts, through saves, crashes and restarts.  *)
(***************************************************************************)
THEOREM PointersAlwaysValid ==
    PSpec => []PointersValid
<1>1. PInv => PointersValid
  BY PInvSound, SoundPointers
<1> QED
  BY <1>1, PersistenceInvariant, PTL

(***************************************************************************)
(* Every reference to a stored message is counted, and only messages read  *)
(* from the file may be without one.                                       *)
(***************************************************************************)
THEOREM StoreAlwaysExact ==
    PSpec => []StoreExact
<1>1. ASSUME PInv PROVE StoreExact
  <2>1. RefCountExact
    BY <1>1, PInvSound, SoundCounts
  <2>2. \A s \in DOMAIN db.store : db.store[s].ref = 0 => starts > 1 /\ s <= saved.last
    BY <1>1 DEF PInv, Leaked, Zeros
  <2> QED
    BY <2>1, <2>2 DEF StoreExact
<1> QED
  BY <1>1, PersistenceInvariant, PTL

(***************************************************************************)
(* A durable session has what it was promised, also after a restart from   *)
(* any file the broker accepts.                                            *)
(***************************************************************************)
THEOREM DurableAlwaysSurvives ==
    PSpec => []DurableSurvives
<1>1. ASSUME PInv PROVE DurableSurvives
  <2> SUFFICES ASSUME up, NEW c \in Clients, NEW s \in owed[c]
               PROVE  \E h \in ById(db, c) : \E i \in DOMAIN db.ctxs[h].msgs :
                         db.ctxs[h].msgs[i].store = s /\ db.ctxs[h].msgs[i].dir = "out"
    BY DEF DurableSurvives, OwedIsQueued
  <2>1. PICK h \in DOMAIN db.ctxs : db.ctxs[h].id = c /\ Holds(db, h, s, "out")
    BY <1>1 DEF PInv, BrokerInv, Owes
  <2> QED
    BY <2>1 DEF ById, Holds
<1> QED
  BY <1>1, PersistenceInvariant, PTL

(***************************************************************************)
(* A start from the file of a complete save brings back exactly the        *)
(* sessions, queued messages in their order, subscriptions and retained    *)
(* messages that were saved (mqtt3_db_backup, mqtt3_db_restore).           *)
(***************************************************************************)
THEOREM RestartAlwaysFaithful ==
    PSpec => RestartIsFaithful
<1>1. ASSUME PInv, Start, saved.kept # NULL PROVE up' /\ Kept(db') = saved.kept
  <2>1. ~file.short /\ ~file.torn /\ \E d : SavedFrom(d, file, saved)
    BY <1>1 DEF PInv, DiskSound, Faithful
  <2>2. PICK d : SavedFrom(d, file, saved)
    BY <2>1
  <2>3. file' = file /\ up' /\ db' = mqtt3_db_restore(file.chunks)
    BY <2>1, <1>1 DEF Start
  <2>4. db' = mqtt3_db_restore(mqtt3_db_backup(d)) /\ saved.kept = Kept(d)
    BY <2>2, <2>3 DEF SavedFrom
  <2>5. Kept(mqtt3_db_restore(mqtt3_db_backup(d))) = Kept(d)
    BY <2>2, KeptRestored DEF SavedFrom
  <2> QED
    BY <2>3, <2>4, <2>5
<1>2. PInv /\ [PNext]_vars => [Start /\ saved.kept # NULL => up' /\ Kept(db') = saved.kept]_vars
  BY <1>1
<1> QED
  BY <1>2, PersistenceInvariant, PTL DEF PSpec, RestartIsFaithful
=============================================================================
