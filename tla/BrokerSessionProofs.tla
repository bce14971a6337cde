------------------------ MODULE BrokerSessionProofs ------------------------
(***************************************************************************)
(* Proofs about BrokerSession: what the operations on packets and on the   *)
(* list of a session return, and that types, list and counter are kept by  *)
(* every step, losses and reconnects included.                             *)
(***************************************************************************)
EXTENDS BrokerSession, FiniteSetTheorems, FunctionTheorems, SequenceTheorems,
        TLAPS

\* The list: finite, and a position names at most one message.
ListInv ==
    /\ IsFiniteSet(msgs)
    /\ \A m, n \in msgs : m.ord = n.ord => m = n
    /\ \A m \in msgs : m.ord < ord
-----------------------------------------------------------------------------
\* The packets of one type in a sequence of packets.
Of(s, type) == {p \in {s[i] : i \in 1..Len(s)} : p.type = type}

\* No packet of type later follows one of type first that has its id.
NoneAfter(s, first, later) ==
    \A i, j \in 1..Len(s) :
        i < j /\ s[i].type = first /\ s[j].type = later => s[i].mid # s[j].mid

\* A message and its PUBLISH packet.
SameTag(x, y) == x.msg = y.msg /\ x.mid = y.mid /\ x.qos = y.qos
-----------------------------------------------------------------------------
(* Sequences of packets. *)

LEMMA HeadOf ==
    ASSUME NEW s \in Seq(Packet), s # <<>>
    PROVE  /\ Head(s) \in Packet
           /\ Head(s) \in Of(s, Head(s).type)
BY DEF Of

LEMMA OfTail ==
    ASSUME NEW s \in Seq(Packet), s # <<>>
    PROVE  /\ Tail(s) \in Seq(Packet)
           /\ \A t : Of(Tail(s), t) \subseteq Of(s, t)
<1>1. Len(s) \in Nat \ {0} /\ Len(Tail(s)) = Len(s) - 1
  OBVIOUS
<1>2. \A i \in 1..Len(Tail(s)) : i + 1 \in 1..Len(s) /\ Tail(s)[i] = s[i + 1]
  BY <1>1
<1> QED
  BY <1>2 DEF Of

LEMMA OfConcat ==
    ASSUME NEW s \in Seq(Packet), NEW r \in Seq(Packet)
    PROVE  /\ s \o r \in Seq(Packet)
           /\ \A t : Of(s \o r, t) \subseteq Of(s, t) \cup Of(r, t)
<1>1. /\ s \o r \in Seq(Packet)
      /\ Len(s) \in Nat /\ Len(r) \in Nat /\ Len(s \o r) = Len(s) + Len(r)
      /\ \A i \in 1..Len(s) + Len(r) :
            (s \o r)[i] = IF i <= Len(s) THEN s[i] ELSE r[i - Len(s)]
  BY ConcatProperties, LenProperties
<1>2. \A i \in 1..Len(s \o r) : \/ i \in 1..Len(s) /\ (s \o r)[i] = s[i]
                                \/ i - Len(s) \in 1..Len(r)
                                   /\ (s \o r)[i] = r[i - Len(s)]
  BY <1>1
<1> QED
  BY <1>1, <1>2 DEF Of

LEMMA OfOne ==
    ASSUME NEW x
    PROVE  \A t : /\ x.type = t => Of(<<x>>, t) = {x}
                  /\ x.type # t => Of(<<x>>, t) = {}
BY DEF Of

LEMMA OfNone == \A t : Of(<<>>, t) = {}
BY DEF Of

LEMMA NoneAfterTail ==
    ASSUME NEW s \in Seq(Packet), s # <<>>, NEW a, NEW b, NoneAfter(s, a, b)
    PROVE  /\ NoneAfter(Tail(s), a, b)
           /\ Head(s).type = a => \A p \in Of(Tail(s), b) : p.mid # Head(s).mid
<1>1. Len(s) \in Nat \ {0} /\ Len(Tail(s)) = Len(s) - 1 /\ Head(s) = s[1]
  OBVIOUS
<1>2. \A i \in 1..Len(Tail(s)) : i + 1 \in 1..Len(s) /\ Tail(s)[i] = s[i + 1]
                                 /\ 1 < i + 1
  BY <1>1
<1>3. NoneAfter(Tail(s), a, b)
  BY <1>1, <1>2 DEF NoneAfter
<1>4. ASSUME Head(s).type = a, NEW p \in Of(Tail(s), b)
      PROVE  p.mid # Head(s).mid
  BY <1>1, <1>2, <1>4 DEF NoneAfter, Of
<1> QED
  BY <1>3, <1>4

LEMMA NoneAfterConcat ==
    ASSUME NEW s \in Seq(Packet), NEW r \in Seq(Packet), NEW a, NEW b,
           NoneAfter(s, a, b), NoneAfter(r, a, b),
           \A p \in Of(s, a), q \in Of(r, b) : p.mid # q.mid
    PROVE  NoneAfter(s \o r, a, b)
<1>1. /\ Len(s) \in Nat /\ Len(r) \in Nat /\ Len(s \o r) = Len(s) + Len(r)
      /\ \A i \in 1..Len(s) + Len(r) :
            (s \o r)[i] = IF i <= Len(s) THEN s[i] ELSE r[i - Len(s)]
  BY ConcatProperties, LenProperties
<1> SUFFICES ASSUME NEW i \in 1..Len(s \o r), NEW j \in 1..Len(s \o r), i < j,
                    (s \o r)[i].type = a, (s \o r)[j].type = b
             PROVE  (s \o r)[i].mid # (s \o r)[j].mid
  BY DEF NoneAfter
<1>2. CASE j <= Len(s)
  BY <1>1, <1>2 DEF NoneAfter
<1>3. CASE i <= Len(s) /\ ~(j <= Len(s))
  <2>1. s[i] \in Of(s, a) /\ r[j - Len(s)] \in Of(r, b)
    BY <1>1, <1>3 DEF Of
  <2> QED
    BY <1>1, <1>3, <2>1
<1>4. CASE ~(i <= Len(s))
  BY <1>1, <1>4 DEF NoneAfter
<1> QED
  BY <1>1, <1>2, <1>3, <1>4

LEMMA NoneAfterOne == ASSUME NEW x, NEW a, NEW b PROVE NoneAfter(<<x>>, a, b)
BY DEF NoneAfter
-----------------------------------------------------------------------------
(* Finite sets in order. *)

AtMost(S, key, m) == {k \in S : key[k] <= key[m]}

\* Every place in a finite set ordered by a key without ties is taken.
LEMMA Ranked ==
    ASSUME NEW S, IsFiniteSet(S), NEW key \in [S -> Nat],
           \A a, b \in S : key[a] = key[b] => a = b,
           NEW i \in 1..Cardinality(S)
    PROVE  \E m \in S : Cardinality(AtMost(S, key, m)) = i
<1> DEFINE n == Cardinality(S)
           below(m) == {k \in S : key[k] <= key[m]}
           f == [m \in S |-> Cardinality(below(m))]
<1>1. n \in Nat
  BY FS_CardinalityType
<1>2. \A m \in S : /\ IsFiniteSet(below(m)) /\ Cardinality(below(m)) <= n
                   /\ Cardinality(below(m)) \in Nat /\ m \in below(m)
  <2> TAKE m \in S
  <2>1. below(m) \in SUBSET S
    OBVIOUS
  <2>2. IsFiniteSet(below(m)) /\ Cardinality(below(m)) <= n
    BY <2>1, FS_Subset
  <2> QED
    BY <2>2, FS_CardinalityType
<1>3. \A m \in S : Cardinality(below(m)) # 0
  BY <1>2, FS_EmptySet
<1>4. f \in [S -> 1..n]
  <2> SUFFICES ASSUME NEW m \in S PROVE Cardinality(below(m)) \in 1..n
    OBVIOUS
  <2> HIDE DEF below, n
  <2> QED
    BY <1>1, <1>2, <1>3
<1>5. ASSUME NEW a \in S, NEW b \in S, f[a] = f[b], key[a] <= key[b]
      PROVE  a = b
  <2>1. below(a) \in SUBSET below(b)
    BY <1>5
  <2>2. Cardinality(below(b)) = Cardinality(below(a))
    BY <1>5
  <2>3. below(b) = below(a)
    BY <1>2, <2>1, <2>2, FS_Subset
  <2>4. key[b] <= key[a]
    BY <1>2, <2>3
  <2> QED
    BY <1>5, <2>4
<1>6. \A a, b \in S : f[a] = f[b] => a = b
  BY <1>5
<1>7. f \in Injection(S, 1..n)
  BY <1>4, <1>6, Fun_IsInj
<1>8. IsFiniteSet(1..n) /\ Cardinality(1..n) = n
  BY <1>1, FS_Interval
<1>9. f \in Surjection(S, 1..n)
  BY <1>7, <1>8, FS_Injection
<1>10. PICK m \in S : f[m] = i
  BY <1>9 DEF Surjection
<1> QED
  BY <1>10 DEF AtMost

\* InOrder enumerates messages of the set.
LEMMA InOrderType ==
    ASSUME NEW S \in SUBSET Message, IsFiniteSet(S),
           \A m, n \in S : m.ord = n.ord => m = n
    PROVE  /\ Cardinality(S) \in Nat
           /\ InOrder(S) \in Seq(S)
           /\ Len(InOrder(S)) = Cardinality(S)
<1> DEFINE key == [m \in S |-> m.ord]
<1>1. key \in [S -> Nat] /\ \A a, b \in S : key[a] = key[b] => a = b
  BY DEF Message
<1>2. Cardinality(S) \in Nat
  BY FS_CardinalityType
<1>3. ASSUME NEW i \in 1..Cardinality(S)
      PROVE  \E m \in S : Cardinality({k \in S : k.ord <= m.ord}) = i
  <2>1. PICK m \in S : Cardinality(AtMost(S, key, m)) = i
    <3> HIDE DEF key
    <3> QED
      BY <1>1, Ranked
  <2>2. AtMost(S, key, m) = {k \in S : k.ord <= m.ord}
    BY DEF AtMost
  <2> QED
    BY <2>1, <2>2
<1>4. InOrder(S) \in [1..Cardinality(S) -> S]
  BY <1>3 DEF InOrder
<1> QED
  BY <1>2, <1>4

\* The order in which the client numbers what it resends.
LEMMA NumberedType ==
    ASSUME NEW S \in SUBSET Nat, IsFiniteSet(S), NEW i \in 1..Cardinality(S)
    PROVE  (CHOOSE m \in S : Cardinality({k \in S : k <= m}) = i) \in S
<1> DEFINE key == [m \in S |-> m]
<1>1. key \in [S -> Nat] /\ \A a, b \in S : key[a] = key[b] => a = b
  OBVIOUS
<1>2. PICK m \in S : Cardinality(AtMost(S, key, m)) = i
  <2> HIDE DEF key
  <2> QED
    BY <1>1, Ranked
<1>3. AtMost(S, key, m) = {k \in S : k <= m}
  BY DEF AtMost
<1> QED
  BY <1>2, <1>3
-----------------------------------------------------------------------------
(* The list. *)

SameMessage(m, n) ==
    /\ n.msg = m.msg /\ n.mid = m.mid /\ n.dir = m.dir
    /\ n.qos = m.qos /\ n.ord = m.ord

LEMMA WithState ==
    ASSUME NEW m \in Message, NEW st \in States
    PROVE  /\ [m EXCEPT !.state = st] \in Message
           /\ SameMessage(m, [m EXCEPT !.state = st])
           /\ [m EXCEPT !.state = st].state = st
BY DEF Message, SameMessage

LEMMA PublishStateType ==
    \A q \in 0..2 : /\ PublishState(q) \in States
                    /\ q = 0 => PublishState(q) = "publish_qos0"
                    /\ q = 1 => PublishState(q) = "publish_qos1"
                    /\ q = 2 => PublishState(q) = "publish_qos2"
BY DEF PublishState, States

\* Messages R of the list, each in its old state or another, as functions.
Restatements(R) ==
    {f \in [R -> Message] : \A m \in R : SameMessage(m, f[m])}

\* A list that keeps some messages and changes only states is a list, and
\* counts as many.
LEMMA RestatedList ==
    ASSUME TypeOK, ListInv, NEW R \in SUBSET msgs, NEW f \in Restatements(R),
           NEW T, T = {f[m] : m \in R}
    PROVE  /\ T \subseteq Message
           /\ IsFiniteSet(T)
           /\ \A m, n \in T : m.ord = n.ord => m = n
           /\ \A m \in T : m.ord < ord
           /\ CountsQos12(T) = CountsQos12(R)
           /\ CountsQos12(R) \in Nat
<1> USE DEF Restatements
<1>1. T \subseteq Message
  OBVIOUS
<1>2. f \in Surjection(R, T)
  BY DEF Surjection
<1>3. IsFiniteSet(R)
  BY FS_Subset DEF ListInv
<1>4. IsFiniteSet(T)
  BY <1>2, <1>3, FS_Surjection
<1>5. \A m, n \in R : f[m].ord = f[n].ord => m = n
  BY DEF ListInv, SameMessage
<1>6. \A m, n \in T : m.ord = n.ord => m = n
  BY <1>5
<1>7. \A m \in T : m.ord < ord
  BY DEF ListInv, SameMessage
<1> DEFINE A == {m \in R : m.qos > 0}
           B == {m \in T : m.qos > 0}
           g == [m \in A |-> f[m]]
<1>8. g \in Bijection(A, B)
  <2>1. \A m \in R : f[m].qos = m.qos
    BY DEF SameMessage
  <2>2. g \in [A -> B]
    BY <2>1
  <2>3. \A a, b \in A : g[a] = g[b] => a = b
    BY <1>5
  <2>4. \A t \in B : \E a \in A : g[a] = t
    BY <2>1
  <2> QED
    BY <2>2, <2>3, <2>4, Fun_IsBij
<1>9. IsFiniteSet(A)
  BY <1>3, FS_Subset
<1>10. Cardinality(B) = Cardinality(A) /\ Cardinality(A) \in Nat
  <2>1. ExistsBijection(A, B)
    BY <1>8 DEF ExistsBijection
  <2> HIDE DEF A, B
  <2> QED
    BY <1>9, <2>1, FS_Bijection, FS_CardinalityType
<1> QED
  BY <1>1, <1>4, <1>6, <1>7, <1>10 DEF CountsQos12

\* What a pass that removes S does to the counter.
LEMMA RemovedCount ==
    ASSUME ListInv, NEW S \in SUBSET msgs
    PROVE  /\ CountsQos12(S) \in Nat
           /\ CountsQos12(msgs) = CountsQos12(msgs \ S) + CountsQos12(S)
<1> DEFINE A == {m \in msgs : m.qos > 0}
           B == {m \in S : m.qos > 0}
<1>1. IsFiniteSet(A)
  BY FS_Subset DEF ListInv
<1>2. IsFiniteSet(A) /\ A \cap B = B /\ A \ B = {m \in msgs \ S : m.qos > 0}
  BY <1>1
<1>3. /\ Cardinality(A \ B) = Cardinality(A) - Cardinality(B)
      /\ IsFiniteSet(A \ B) /\ IsFiniteSet(B)
  <2> HIDE DEF A, B
  <2>1. Cardinality(A \ B) = Cardinality(A) - Cardinality(A \cap B)
        /\ IsFiniteSet(A \ B) /\ IsFiniteSet(A \cap B)
    BY <1>2, FS_Difference, FS_Intersection
  <2> QED
    BY <1>2, <2>1
<1>4. Cardinality(A) \in Nat /\ Cardinality(B) \in Nat
      /\ Cardinality(A \ B) \in Nat
  BY <1>2, <1>3, FS_CardinalityType
<1>5. /\ CountsQos12(msgs) = Cardinality(A) /\ CountsQos12(S) = Cardinality(B)
      /\ CountsQos12(msgs \ S) = Cardinality(A \ B)
  BY <1>2 DEF CountsQos12
<1> HIDE DEF A, B
<1> QED
  BY <1>3, <1>4, <1>5

\* A step that leaves the messages R of the list, each as f says.
Relists(R, f) ==
    /\ msgs' = {f[m] : m \in R}
    /\ ord' = ord
    /\ dangling' \in BOOLEAN /\ (dangling' => dangling)
    /\ msg_count12' = msg_count12 - CountsQos12(msgs \ R)

LEMMA RelistsList ==
    ASSUME TypeOK, ListInv, NEW R \in SUBSET msgs, NEW f \in Restatements(R),
           Relists(R, f)
    PROVE  /\ msgs' \subseteq Message /\ ListInv'
           /\ msg_count12' \in Int /\ ord' \in Nat /\ dangling' \in BOOLEAN
           /\ CountMatches => CountMatches'
<1>1. /\ msgs' \subseteq Message
      /\ IsFiniteSet(msgs')
      /\ \A m, n \in msgs' : m.ord = n.ord => m = n
      /\ \A m \in msgs' : m.ord < ord
      /\ CountsQos12(msgs') = CountsQos12(R)
      /\ CountsQos12(R) \in Nat
  BY RestatedList DEF Relists
<1>2. /\ CountsQos12(msgs \ R) \in Nat
      /\ CountsQos12(msgs) = CountsQos12(msgs \ (msgs \ R)) + CountsQos12(msgs \ R)
  BY RemovedCount
<1>3. msgs \ (msgs \ R) = R
  OBVIOUS
<1>4. msg_count12' \in Int /\ ord' \in Nat /\ dangling' \in BOOLEAN
  BY <1>2 DEF Relists, TypeOK
<1>5. CountMatches => CountMatches'
  <2>1. CountsQos12(msgs) = CountsQos12(R) + CountsQos12(msgs \ R)
    BY <1>2, <1>3, Zenon
  <2>2. CountMatches => msg_count12' = CountsQos12(msgs')
    BY <1>1, <1>2, <2>1 DEF Relists, CountMatches
  <2> QED
    BY <2>2 DEF CountMatches
<1> QED
  BY <1>1, <1>4, <1>5 DEF ListInv, Relists

\* The counter when nothing goes.
LEMMA NothingRemoved == CountsQos12({}) = 0
<1>1. {m \in {} : m.qos > 0} = {}
  OBVIOUS
<1> QED
  BY <1>1, FS_EmptySet DEF CountsQos12

LEMMA PromotedResult ==
    ASSUME NEW m \in Message
    PROVE  /\ Promoted(m) \in Message /\ SameMessage(m, Promoted(m))
           /\ Promoted(m).state = IF m.dir = "out" THEN PublishState(m.qos)
                                                   ELSE "wait_for_pubrel"
<1> DEFINE st == IF m.dir = "out" THEN PublishState(m.qos) ELSE "wait_for_pubrel"
<1>1. m.qos \in 0..2
  BY DEF Message
<1>2. st \in States
  BY <1>1, PublishStateType DEF States
<1>3. Promoted(m) = [m EXCEPT !.state = st]
  BY DEF Promoted
<1> HIDE DEF st
<1>4. /\ Promoted(m) \in Message /\ SameMessage(m, Promoted(m))
      /\ Promoted(m).state = st
  BY <1>2, <1>3, WithState
<1> QED
  BY <1>4 DEF st

\* Stays as it is, or enters the window.
Promotes(m, n) == n = m \/ (m.state = "queued" /\ n = Promoted(m))

LEMMA PromotesType ==
    ASSUME NEW m \in Message, NEW n, Promotes(m, n)
    PROVE  n \in Message /\ SameMessage(m, n)
BY PromotedResult DEF Promotes, SameMessage

LEMMA RemoveResult ==
    ASSUME TypeOK, NEW S \in SUBSET msgs, NEW f, Remove(S, {f[m] : m \in msgs \ S})
    PROVE  Relists(msgs \ S, f)
<1>1. msgs \ (msgs \ S) = S
  OBVIOUS
<1> QED
  BY <1>1 DEF Remove, Relists, TypeOK

LEMMA DeleteResult ==
    ASSUME TypeOK, NEW mid, NEW dir, mqtt3_db_message_delete(mid, dir)
    PROVE  \E R \in SUBSET msgs : \E f \in Restatements(R) :
              /\ Relists(R, f)
              /\ \A m \in msgs \ R : m.mid = mid /\ m.dir = dir
              /\ \A m \in R : Promotes(m, f[m])
<1> DEFINE match == Matching(mid, dir)
           removed == {m \in match :
                          \/ IsFirst(match, m)
                          \/ Cardinality(Before(msgs \ match, m)) <= max_inflight}
           index(m) == Cardinality(Before(msgs \ removed, m)) + 1
           kept(m) == IF m.state = "queued" /\ index(m) <= max_inflight
                        THEN Promoted(m) ELSE m
           R == msgs \ removed
           f == [m \in R |-> kept(m)]
<1>1. Remove(removed, {kept(m) : m \in R})
  BY DEF mqtt3_db_message_delete
<1>2. /\ removed \in SUBSET msgs
      /\ \A m \in removed : m.mid = mid /\ m.dir = dir
  BY DEF Matching
<1> HIDE DEF removed
<1>3. \A m \in R : Promotes(m, f[m])
  BY DEF Promotes
<1>4. {kept(m) : m \in R} = {f[m] : m \in R}
  OBVIOUS
<1>5. R \subseteq Message
  BY DEF TypeOK
<1> HIDE DEF kept, f
<1>6. \A m \in R : f[m] \in Message /\ SameMessage(m, f[m])
  BY <1>3, <1>5, PromotesType
<1>7. f \in Restatements(R)
  BY <1>6 DEF Restatements, f
<1>8. Relists(R, f)
  BY <1>1, <1>2, <1>4, RemoveResult
<1>9. R \in SUBSET msgs /\ msgs \ R = removed
  BY <1>2
<1> QED
  BY <1>2, <1>3, <1>7, <1>8, <1>9

LEMMA StatesOnly ==
    ASSUME TypeOK, NEW f, msgs' = {f[m] : m \in msgs},
           UNCHANGED <<msg_count12, ord, dangling>>
    PROVE  Relists(msgs, f)
<1>1. CountsQos12(msgs \ msgs) = 0
  <2>1. msgs \ msgs = {}
    OBVIOUS
  <2> QED
    BY <2>1, NothingRemoved
<1>2. msg_count12' = msg_count12 - CountsQos12(msgs \ msgs)
  BY <1>1 DEF TypeOK
<1>3. dangling' \in BOOLEAN /\ (dangling' => dangling)
  BY DEF TypeOK
<1> QED
  BY <1>2, <1>3 DEF Relists

\* The first matching message changes its state, the others do not.
LEMMA UpdateResult ==
    ASSUME TypeOK, NEW mid, NEW dir, NEW st \in States,
           mqtt3_db_message_update(mid, dir, st)
    PROVE  \E f \in Restatements(msgs) :
              /\ Relists(msgs, f)
              /\ \A m \in msgs :
                    \/ /\ m \in Matching(mid, dir) /\ IsFirst(Matching(mid, dir), m)
                       /\ f[m].state = st
                    \/ /\ ~(m \in Matching(mid, dir) /\ IsFirst(Matching(mid, dir), m))
                       /\ f[m] = m
<1> DEFINE first(m) == m.mid = mid /\ m.dir = dir /\ IsFirst(Matching(mid, dir), m)
           f == [m \in msgs |-> IF first(m) THEN [m EXCEPT !.state = st] ELSE m]
<1>1. msgs \subseteq Message
  BY DEF TypeOK
<1>2. \A m \in msgs : /\ f[m] \in Message /\ SameMessage(m, f[m])
                      /\ first(m) => f[m].state = st
                      /\ ~first(m) => f[m] = m
  BY <1>1, WithState DEF SameMessage
<1>3. f \in Restatements(msgs)
  BY <1>2 DEF Restatements
<1>4. msgs' = {f[m] : m \in msgs}
  BY DEF mqtt3_db_message_update
<1>5. UNCHANGED <<msg_count12, ord, dangling>>
  BY DEF mqtt3_db_message_update
<1>6. Relists(msgs, f)
  <2> HIDE DEF f
  <2> QED
    BY <1>4, <1>5, StatesOnly
<1>7. \A m \in msgs : first(m) <=> m \in Matching(mid, dir)
                                   /\ IsFirst(Matching(mid, dir), m)
  BY DEF Matching
<1> HIDE DEF f, first
<1> QED
  BY <1>2, <1>3, <1>6, <1>7

\* Packets made from messages in order.
LEMMA PacketsOf ==
    ASSUME NEW S \in SUBSET Message, IsFiniteSet(S),
           \A m, n \in S : m.ord = n.ord => m = n,
           NEW pkt \in [S -> Packet]
    PROVE  LET s == [i \in 1..Len(InOrder(S)) |-> pkt[InOrder(S)[i]]]
           IN  /\ s \in Seq(Packet)
               /\ \A t : Of(s, t) \subseteq {pkt[m] : m \in S}
<1> DEFINE out == InOrder(S)
           s == [i \in 1..Len(out) |-> pkt[out[i]]]
<1>1. out \in Seq(S)
  BY InOrderType
<1> HIDE DEF out
<1>2. Len(out) \in Nat /\ \A i \in 1..Len(out) : out[i] \in S
  BY <1>1
<1>3. s \in [1..Len(out) -> Packet]
  BY <1>2
<1>4. s \in Seq(Packet) /\ Len(s) = Len(out)
  BY <1>2, <1>3
<1>5. \A t : Of(s, t) \subseteq {pkt[m] : m \in S}
  BY <1>2, <1>4 DEF Of
<1> QED
  BY <1>4, <1>5 DEF out

LEMMA InsertStateType ==
    ASSUME NEW dir \in {"out", "in"}, NEW qos \in 0..2
    PROVE  /\ InsertState(dir, qos) \in States \cup {"dropped"}
           /\ dir = "out" => InsertState(dir, qos)
                                \in {PublishState(qos), "queued", "dropped"}
           /\ dir = "in" => InsertState(dir, qos)
                                \in {"wait_for_pubrel", "queued", "dropped"}
           /\ qos = 0 => InsertState(dir, qos) # "queued"
<1>1. PublishState(qos) \in States \ {"queued"}
  BY PublishStateType DEF States
<1> HIDE DEF PublishState
<1> QED
  BY <1>1 DEF InsertState, States

\* A message appended to the list.
Appended(msg, mid, dir, qos) ==
    [msg |-> msg, mid |-> mid, dir |-> dir, qos |-> qos,
     state |-> InsertState(dir, qos), ord |-> ord]

LEMMA InsertResult ==
    ASSUME TypeOK, ListInv,
           NEW msg \in OutMsgs \cup InMsgs, NEW mid \in Mids,
           NEW dir \in {"out", "in"}, NEW qos \in 0..2,
           mqtt3_db_message_insert(msg, mid, dir, qos)
    PROVE  /\ msgs' \subseteq Message /\ ListInv'
           /\ msg_count12' \in Int /\ ord' \in Nat /\ dangling' = dangling
           /\ ~dangling /\ CountMatches => CountMatches'
           /\ \/ UNCHANGED list
              \/ /\ InsertState(dir, qos) # "dropped"
                 /\ msgs' = IF dangling THEN msgs
                            ELSE msgs \cup {Appended(msg, mid, dir, qos)}
                 /\ Appended(msg, mid, dir, qos) \in Message
<1> DEFINE new == Appended(msg, mid, dir, qos)
<1>1. CASE InsertState(dir, qos) = "dropped"
  BY <1>1 DEF mqtt3_db_message_insert, list, TypeOK, ListInv, CountMatches
<1>2. CASE InsertState(dir, qos) # "dropped"
  <2>1. /\ msgs' = IF dangling THEN msgs ELSE msgs \cup {new}
        /\ msg_count12' = msg_count12 + (IF qos > 0 THEN 1 ELSE 0)
        /\ ord' = ord + 1
        /\ dangling' = dangling
    BY <1>2 DEF mqtt3_db_message_insert, Appended
  <2>2. InsertState(dir, qos) \in States
    BY <1>2, InsertStateType
  <2>3. new \in Message /\ new.ord = ord /\ new.qos = qos
    BY <2>2 DEF Appended, Message, TypeOK
  <2> HIDE DEF new
  <2>4. msgs' \subseteq Message
    BY <2>1, <2>3 DEF TypeOK
  <2>5. \A m \in msgs : m.ord \in Nat /\ ord \in Nat /\ m.ord < ord
    BY DEF TypeOK, ListInv, Message
  <2>6. ListInv'
    <3>1. IsFiniteSet(msgs')
      BY <2>1, FS_AddElement DEF ListInv
    <3>2. \A m, n \in msgs' : m.ord = n.ord => m = n
      BY <2>1, <2>3, <2>5 DEF ListInv
    <3>3. \A m \in msgs' : m.ord < ord'
      BY <2>1, <2>3, <2>5 DEF TypeOK
    <3> QED
      BY <3>1, <3>2, <3>3 DEF ListInv
  <2>7. msg_count12' \in Int /\ ord' \in Nat
    BY <2>1 DEF TypeOK
  <2>8. ASSUME ~dangling, CountMatches PROVE CountMatches'
    <3> DEFINE A == {m \in msgs : m.qos > 0}
               B == {m \in msgs' : m.qos > 0}
    <3>1. IsFiniteSet(A) /\ Cardinality(A) \in Nat /\ new \notin A
      BY <2>3, <2>5, FS_Subset, FS_CardinalityType DEF ListInv
    <3>2. B = IF qos > 0 THEN A \cup {new} ELSE A
      BY <2>1, <2>3, <2>8
    <3>3. msg_count12 = Cardinality(A)
      BY <2>8 DEF CountMatches, CountsQos12
    <3> HIDE DEF A, B
    <3>4. Cardinality(B) = Cardinality(A) + (IF qos > 0 THEN 1 ELSE 0)
      BY <3>1, <3>2, FS_AddElement, SMTT(60)
    <3>5. msg_count12' = Cardinality(B)
      BY <2>1, <3>3, <3>4
    <3> QED
      BY <3>5 DEF CountMatches, CountsQos12, B
  <2> QED
    BY <1>2, <2>1, <2>3, <2>4, <2>6, <2>7, <2>8 DEF new
<1> QED
  BY <1>1, <1>2

LEMMA AckType ==
    ASSUME NEW t \in {"PUBACK", "PUBREC", "PUBREL", "PUBCOMP"}, NEW mid \in Mids
    PROVE  /\ Ack(t, mid) \in Packet
           /\ Ack(t, mid).type = t /\ Ack(t, mid).mid = mid
BY DEF Ack, Packet

LEMMA OneAck ==
    ASSUME NEW t, NEW mid
    PROVE  \A u : Of(<<Ack(t, mid)>>, u) = IF u = t THEN {Ack(t, mid)} ELSE {}
<1>1. Ack(t, mid).type = t
  BY DEF Ack
<1> QED
  BY <1>1, OfOne

LEMMA PublishType ==
    ASSUME NEW m \in Message
    PROVE  /\ Publish(m) \in Packet
           /\ Publish(m).type = "PUBLISH" /\ SameTag(m, Publish(m))
BY DEF Publish, Packet, Message, SameTag

\* The list after the release of an id: the first message with it is handed on.
ReleasedList(mid, R, f) ==
    /\ Relists(R, f)
    /\ \A m \in msgs \ R : m \in Matching(mid, "in")
    /\ \A m \in Matching(mid, "in") : IsFirst(Matching(mid, "in"), m) => m \notin R
    /\ \A m \in R : Promotes(m, f[m])
    /\ Forward({m.msg : m \in msgs \ R})

\* PUBREC for incoming messages only.
PubrecsOnly(r) ==
    /\ \A t : t # "PUBREC" => Of(r, t) = {}
    /\ \A p \in Of(r, "PUBREC") : \E m \in msgs : m.dir = "in" /\ p.mid = m.mid

LEMMA ReleaseResult ==
    ASSUME TypeOK, ListInv, NEW mid, NEW after,
           mqtt3_db_message_release(mid, after)
    PROVE  /\ \E R \in SUBSET msgs : \E f \in Restatements(R) : ReleasedList(mid, R, f)
           /\ \E r \in Seq(Packet) : Send(r \o after) /\ PubrecsOnly(r)
<1> DEFINE match == Matching(mid, "in")
           removed == {m \in match : \/ IsFirst(match, m)
                                     \/ Position(m) - 1 <= max_inflight}
           enters(m) == m.state = "queued" /\ Position(m) <= max_inflight
           kept(m) == IF enters(m) THEN Promoted(m) ELSE m
           A == {m \in msgs : m.dir = "in" /\ enters(m)}
           pubrecs == InOrder(A)
           r == [i \in 1..Len(pubrecs) |-> Ack("PUBREC", pubrecs[i].mid)]
           R == msgs \ removed
           f == [m \in R |-> kept(m)]
<1>1. /\ Remove(removed, {kept(m) : m \in R})
      /\ Forward({m.msg : m \in removed})
      /\ Send(r \o after)
  BY DEF mqtt3_db_message_release
<1>2. /\ removed \in SUBSET msgs
      /\ \A m \in removed : m \in Matching(mid, "in")
      /\ \A m \in Matching(mid, "in") :
            IsFirst(Matching(mid, "in"), m) => m \in removed
  BY DEF Matching
<1> HIDE DEF removed
<1>3. \A m \in R : Promotes(m, f[m])
  BY DEF Promotes
<1>4. {kept(m) : m \in R} = {f[m] : m \in R}
  OBVIOUS
<1>5. R \subseteq Message /\ A \in SUBSET msgs /\ \A m \in A : m.dir = "in"
  BY DEF TypeOK
<1> HIDE DEF kept, f
<1>6. \A m \in R : f[m] \in Message /\ SameMessage(m, f[m])
  BY <1>3, <1>5, PromotesType
<1>7. f \in Restatements(R)
  BY <1>6 DEF Restatements, f
<1>8. Relists(R, f)
  BY <1>1, <1>2, <1>4, RemoveResult
<1>9. R \in SUBSET msgs /\ msgs \ R = removed
  BY <1>2
<1> HIDE DEF A
<1>10. /\ A \in SUBSET Message /\ IsFiniteSet(A)
       /\ \A m, n \in A : m.ord = n.ord => m = n
  BY <1>5, FS_Subset DEF ListInv, TypeOK
<1> DEFINE pkt == [m \in A |-> Ack("PUBREC", m.mid)]
<1>11. \A m \in A : pkt[m] \in Packet /\ pkt[m].type = "PUBREC" /\ pkt[m].mid = m.mid
  BY <1>10, AckType DEF Message
<1>12. pkt \in [A -> Packet]
  BY <1>11
<1>13. pubrecs \in Seq(A)
  BY <1>10, InOrderType
<1>14. r = [i \in 1..Len(pubrecs) |-> pkt[pubrecs[i]]]
  BY <1>13
<1> HIDE DEF pkt
<1>15. r \in Seq(Packet) /\ \A t : Of(r, t) \subseteq {pkt[m] : m \in A}
  BY <1>10, <1>12, <1>14, PacketsOf
<1> HIDE DEF r, pubrecs
<1>16. PubrecsOnly(r)
  <2>1. \A t : t # "PUBREC" => Of(r, t) = {}
    BY <1>11, <1>15 DEF Of
  <2>2. \A p \in Of(r, "PUBREC") : \E m \in msgs : m.dir = "in" /\ p.mid = m.mid
    BY <1>5, <1>11, <1>15
  <2> QED
    BY <2>1, <2>2 DEF PubrecsOnly
<1> HIDE DEF R
<1>17. ReleasedList(mid, R, f)
  BY <1>1, <1>2, <1>3, <1>8, <1>9 DEF ReleasedList, R
<1> QED
  BY <1>1, <1>7, <1>9, <1>15, <1>16, <1>17

LEMMA WrittenResult ==
    ASSUME NEW m \in Message
    PROVE  /\ Written(m) \in Message /\ SameMessage(m, Written(m))
           /\ Written(m).state =
                CASE m.state = "publish_qos1" -> "wait_for_puback"
                  [] m.state = "publish_qos2" -> "wait_for_pubrec"
                  [] m.state = "resend_pubrel" -> "wait_for_pubcomp"
                  [] OTHER -> "wait_for_pubrel"
<1> DEFINE st == CASE m.state = "publish_qos1" -> "wait_for_puback"
                   [] m.state = "publish_qos2" -> "wait_for_pubrec"
                   [] m.state = "resend_pubrel" -> "wait_for_pubcomp"
                   [] OTHER -> "wait_for_pubrel"
<1>1. st \in States
  BY DEF States
<1>2. Written(m) = [m EXCEPT !.state = st]
  BY DEF Written
<1> HIDE DEF st
<1>3. /\ Written(m) \in Message /\ SameMessage(m, Written(m))
      /\ Written(m).state = st
  BY <1>1, <1>2, WithState
<1> QED
  BY <1>3 DEF st

LEMMA PacketOfType ==
    ASSUME NEW m \in Message
    PROVE  /\ PacketOf(m) \in Packet
           /\ PacketOf(m).mid = m.mid
           /\ \/ /\ m.state \in {"publish_qos0", "publish_qos1", "publish_qos2"}
                 /\ PacketOf(m).type = "PUBLISH"
                 /\ SameTag(m, PacketOf(m))
              \/ m.state = "resend_pubrel" /\ PacketOf(m).type = "PUBREL"
              \/ /\ m.state \notin {"publish_qos0", "publish_qos1", "publish_qos2",
                                    "resend_pubrel"}
                 /\ PacketOf(m).type = "PUBREC"
<1>1. m.mid \in Mids
  BY DEF Message
<1>2. CASE m.state \in {"publish_qos0", "publish_qos1", "publish_qos2"}
  BY <1>2, PublishType DEF PacketOf, SameTag
<1>3. CASE m.state = "resend_pubrel"
  BY <1>1, <1>3, AckType DEF PacketOf
<1>4. CASE m.state \notin {"publish_qos0", "publish_qos1", "publish_qos2",
                           "resend_pubrel"}
  BY <1>1, <1>4, AckType DEF PacketOf
<1> QED
  BY <1>2, <1>3, <1>4

\* The list once the messages in S are written and those in F are not: those
\* of QoS 0 are gone.
WrittenList(S, F, R, f) ==
    /\ Relists(R, f)
    /\ \A m \in msgs \ R : m \in S /\ m.state = "publish_qos0"
    /\ \A m \in R : IF m \in S
                    THEN m.state # "publish_qos0" /\ f[m] = Written(m)
                    ELSE \/ f[m] = m
                         \/ /\ m \in F /\ m.state = "queued"
                            /\ f[m].state = "send_pubrec"

LEMMA WriteOutResult ==
    ASSUME TypeOK, ListInv, NEW S \in SUBSET msgs, NEW F, WriteOut(S, F)
    PROVE  /\ \E R \in SUBSET msgs : \E f \in Restatements(R) : WrittenList(S, F, R, f)
           /\ \E r \in Seq(Packet) :
                 /\ Send(r)
                 /\ \A t : Of(r, t) \subseteq {PacketOf(m) : m \in S}
<1> DEFINE out == InOrder(S)
           sent == {m \in S : m.state = "publish_qos0"}
           kept(m) == IF m \in S THEN Written(m)
                      ELSE IF m \in F /\ m.state = "queued"
                             THEN [m EXCEPT !.state = "send_pubrec"]
                             ELSE m
           r == [i \in 1..Len(out) |-> PacketOf(out[i])]
           R == msgs \ sent
           f == [m \in R |-> kept(m)]
<1>1. Remove(sent, {kept(m) : m \in R}) /\ Send(r)
  BY DEF WriteOut
<1>2. {kept(m) : m \in R} = {f[m] : m \in R}
  OBVIOUS
<1>3. \A m \in R :
         /\ f[m] \in Message /\ SameMessage(m, f[m])
         /\ m \in S => f[m] = Written(m)
         /\ m \notin S => \/ f[m] = m
                          \/ /\ m \in F /\ m.state = "queued"
                             /\ f[m].state = "send_pubrec"
  <2> TAKE m \in R
  <2>0. m \in Message /\ f[m] = kept(m) /\ "send_pubrec" \in States
    BY DEF TypeOK, States
  <2>1. CASE m \in S
    BY <2>0, <2>1, WrittenResult
  <2>2. CASE m \notin S /\ m \in F /\ m.state = "queued"
    BY <2>0, <2>2, WithState
  <2>3. CASE m \notin S /\ ~(m \in F /\ m.state = "queued")
    BY <2>0, <2>3 DEF SameMessage
  <2> QED
    BY <2>1, <2>2, <2>3
<1> HIDE DEF kept, f
<1>4. f \in Restatements(R)
  BY <1>3 DEF Restatements, f
<1>5. sent \in SUBSET msgs /\ R \in SUBSET msgs /\ msgs \ R = sent
  OBVIOUS
<1>6. Relists(R, f)
  <2>1. Remove(sent, {f[m] : m \in msgs \ sent})
    BY <1>1, <1>2, Zenon
  <2> QED
    BY <1>5, <2>1, RemoveResult, Zenon
<1>7. /\ S \in SUBSET Message /\ IsFiniteSet(S)
      /\ \A m, n \in S : m.ord = n.ord => m = n
  BY FS_Subset DEF ListInv, TypeOK
<1> DEFINE pkt == [m \in S |-> PacketOf(m)]
<1>8. pkt \in [S -> Packet]
  BY <1>7, PacketOfType
<1>9. out \in Seq(S)
  BY <1>7, InOrderType
<1>10. r = [i \in 1..Len(out) |-> pkt[out[i]]]
  BY <1>9
<1>11. {pkt[m] : m \in S} = {PacketOf(m) : m \in S}
  OBVIOUS
<1> HIDE DEF pkt
<1>12. r \in Seq(Packet) /\ \A t : Of(r, t) \subseteq {PacketOf(m) : m \in S}
  BY <1>7, <1>8, <1>10, <1>11, PacketsOf
<1>13. WrittenList(S, F, R, f)
  BY <1>3, <1>5, <1>6 DEF WrittenList
<1> HIDE DEF r, R, sent
<1> QED
  BY <1>1, <1>4, <1>5, <1>12, <1>13

\* A retry takes a handshake one step back.
LEMMA RetryStates ==
    \A st \in DOMAIN Retry :
        \/ st = "wait_for_puback" /\ Retry[st] = "publish_qos1"
        \/ st = "wait_for_pubrec" /\ Retry[st] = "publish_qos2"
        \/ st = "wait_for_pubrel" /\ Retry[st] = "send_pubrec"
        \/ st = "wait_for_pubcomp" /\ Retry[st] = "resend_pubrel"
BY DEF Retry

LEMMA TimeoutResult ==
    ASSUME TypeOK, mqtt3_db_message_timeout_check
    PROVE  \E f \in Restatements(msgs) :
              /\ Relists(msgs, f)
              /\ \A m \in msgs : \/ f[m] = m
                                 \/ /\ m.state \in DOMAIN Retry
                                    /\ f[m].state = Retry[m.state]
<1>1. PICK S \in SUBSET {m \in msgs : m.state \in DOMAIN Retry} :
         msgs' = {IF m \in S THEN [m EXCEPT !.state = Retry[m.state]] ELSE m :
                     m \in msgs}
  BY DEF mqtt3_db_message_timeout_check
<1> DEFINE f == [m \in msgs |-> IF m \in S THEN [m EXCEPT !.state = Retry[m.state]]
                                           ELSE m]
<1>2. \A m \in msgs : /\ f[m] \in Message /\ SameMessage(m, f[m])
                      /\ \/ f[m] = m
                         \/ /\ m.state \in DOMAIN Retry
                            /\ f[m].state = Retry[m.state]
  <2> TAKE m \in msgs
  <2>1. m \in Message
    BY DEF TypeOK
  <2>2. CASE m \in S
    <3>1. m.state \in DOMAIN Retry /\ f[m] = [m EXCEPT !.state = Retry[m.state]]
      BY <2>2
    <3>2. Retry[m.state] \in States
      BY <3>1, RetryStates DEF States
    <3> HIDE DEF f
    <3> QED
      BY <2>1, <3>1, <3>2, WithState
  <2>3. CASE m \notin S
    BY <2>1, <2>3 DEF SameMessage
  <2> QED
    BY <2>2, <2>3
<1>3. msgs' = {f[m] : m \in msgs}
  BY <1>1
<1> HIDE DEF f
<1>4. f \in Restatements(msgs)
  BY <1>2 DEF Restatements, f
<1>5. Relists(msgs, f)
  BY <1>3, StatesOnly DEF mqtt3_db_message_timeout_check
<1> QED
  BY <1>2, <1>4, <1>5

LEMMA ReconnectResetType ==
    ASSUME NEW m \in Message
    PROVE  /\ mqtt3_db_message_reconnect_reset(m) \in Message
           /\ SameMessage(m, mqtt3_db_message_reconnect_reset(m))
<1>1. PublishState(m.qos) \in States /\ "resend_pubrel" \in States
  BY PublishStateType DEF Message, States
<1>2. \/ mqtt3_db_message_reconnect_reset(m) = m
      \/ \E st \in States :
            mqtt3_db_message_reconnect_reset(m) = [m EXCEPT !.state = st]
  BY <1>1 DEF mqtt3_db_message_reconnect_reset, Restarted
<1>3. SameMessage(m, m)
  BY DEF SameMessage
<1> QED
  BY <1>2, <1>3, WithState

\* Id and QoS of what the client publishes.
LEMMA InMidType == \A m \in InMsgs : InMid(m) \in Mids
BY DEF Mids

LEMMA ClientPublishType ==
    ASSUME NEW m \in InMsgs, NEW q \in InQos \cup {0}
    PROVE  /\ ClientPublish(m, q) \in Packet
           /\ ClientPublish(m, q).type = "PUBLISH"
<1>1. q \in 0..2
  BY SessionAssumption
<1> QED
  BY <1>1, InMidType DEF ClientPublish, Packet

\* What the client resends for an unfinished handshake.
Resent(p, k) ==
    \/ pub[k].st = "sent" /\ p = ClientPublish(k, pub[k].qos)
    \/ pub[k].st = "released" /\ p = Ack("PUBREL", InMid(k))

LEMMA ClientResendType ==
    ASSUME TypeOK
    PROVE  /\ ClientResend \in Seq(Packet)
           /\ \A i \in 1..Len(ClientResend) : \E k \in InMsgs : Resent(ClientResend[i], k)
<1> DEFINE unfinished == {m \in InMsgs : pub[m].st \in {"sent", "released"}}
           n == Cardinality(unfinished)
           nth == [i \in 1..n |->
                     CHOOSE m \in unfinished :
                         Cardinality({k \in unfinished : k <= m}) = i]
           pkt(i) == LET p == pub[nth[i]]
                     IN  IF p.st = "sent"
                           THEN ClientPublish(nth[i], p.qos)
                           ELSE Ack("PUBREL", InMid(nth[i]))
<1>1. unfinished \in SUBSET Nat /\ IsFiniteSet(unfinished)
  BY SessionAssumption, FS_Subset
<1>2. n \in Nat
  BY <1>1, FS_CardinalityType
<1>3. \A m \in unfinished : m \in InMsgs /\ pub[m].st \in {"sent", "released"}
  OBVIOUS
<1> HIDE DEF unfinished
<1>4. \A i \in 1..n : nth[i] \in InMsgs /\ pub[nth[i]].st \in {"sent", "released"}
  <2>1. \A i \in 1..n : nth[i] \in unfinished
    BY <1>1, NumberedType
  <2> HIDE DEF nth, n
  <2> QED
    BY <1>3, <2>1
<1>5. ClientResend = [i \in 1..n |-> pkt(i)]
  BY DEF ClientResend, unfinished
<1> HIDE DEF nth, n
<1>6. \A i \in 1..n : pkt(i) \in Packet
  <2> TAKE i \in 1..n
  <2>1. pub[nth[i]].qos \in InQos \cup {0} /\ InMid(nth[i]) \in Mids
    BY <1>4, InMidType DEF TypeOK, Handshake
  <2>2. ClientPublish(nth[i], pub[nth[i]].qos) \in Packet
    BY <1>4, <2>1, ClientPublishType
  <2>3. Ack("PUBREL", InMid(nth[i])) \in Packet
    BY <2>1, AckType
  <2> QED
    BY <2>2, <2>3
<1>7. \A i \in 1..n : Resent(pkt(i), nth[i])
  BY <1>4 DEF Resent
<1> HIDE DEF pkt
<1>8. [i \in 1..n |-> pkt(i)] \in [1..n -> Packet]
  BY <1>6
<1>9. Len(ClientResend) = n /\ \A i \in 1..n : ClientResend[i] = pkt(i)
  BY <1>2, <1>5, <1>8
<1> QED
  BY <1>2, <1>4, <1>5, <1>7, <1>8, <1>9
-----------------------------------------------------------------------------
(* Types and the list, for every step, breaks and reconnects included. *)

LEMMA PacketFields ==
    ASSUME NEW p \in Packet
    PROVE  /\ p.mid \in Mids
           /\ p.type \in {"PUBLISH", "PUBACK", "PUBREC", "PUBREL", "PUBCOMP"}
           /\ p.type = "PUBLISH" => p.qos \in 0..2 /\ p.msg \in OutMsgs \cup InMsgs
BY DEF Packet

LEMMA SendType ==
    ASSUME TypeOK, NEW r \in Seq(Packet), Send(r)
    PROVE  toClient' \in Seq(Packet)
BY OfConcat DEF Send, TypeOK

LEMMA SendAckType ==
    ASSUME TypeOK, NEW t \in {"PUBACK", "PUBREC", "PUBREL", "PUBCOMP"},
           NEW mid \in Mids, Send(<<Ack(t, mid)>>)
    PROVE  toClient' \in Seq(Packet)
<1>1. <<Ack(t, mid)>> \in Seq(Packet)
  BY AckType
<1> QED
  BY <1>1, SendType

LEMMA ClientSendType ==
    ASSUME TypeOK, NEW r \in Seq(Packet), ClientSend(r)
    PROVE  toBroker' \in Seq(Packet)
BY OfConcat DEF ClientSend, TypeOK

LEMMA ConsumeType ==
    ASSUME TypeOK, toBroker # <<>>, Consume
    PROVE  toBroker' \in Seq(Packet)
BY OfTail DEF Consume, TypeOK

LEMMA ForwardType ==
    ASSUME TypeOK, NEW S, Forward(S)
    PROVE  forwarded' \in [InMsgs -> 0..2]
<1>1. \A m \in InMsgs : forwarded[m] \in 0..2
  BY DEF TypeOK
<1> QED
  BY <1>1 DEF Forward

LEMMA SetHandshakeType ==
    ASSUME TypeOK, NEW S, NEW st \in {"new", "sent", "released", "done"},
           SetHandshake(S, st)
    PROVE  pub' \in [InMsgs -> Handshake]
<1>1. \A m \in InMsgs : pub[m] \in Handshake /\ [pub[m] EXCEPT !.st = st] \in Handshake
  BY DEF TypeOK, Handshake
<1> QED
  BY <1>1 DEF SetHandshake

\* mqtt3_db_message_insert compares the counter with the limits.
CountLimited ==
    max_inflight > 0 /\ max_queued > 0 => msg_count12 <= max_inflight + max_queued

\* What the list part of a step has to show.  The counter is exact and within
\* the limits, and no pointer dangles, as long as no message is revoked at a
\* reconnect.
CountInv == Revocable = {} => ~dangling /\ CountMatches /\ CountLimited

ListOK ==
    /\ msgs' \subseteq Message /\ ListInv'
    /\ msg_count12' \in Int /\ ord' \in Nat /\ dangling' \in BOOLEAN
    /\ CountInv => CountInv'

LEMMA RelistsOK ==
    ASSUME TypeOK, ListInv, NEW R \in SUBSET msgs, NEW f \in Restatements(R),
           Relists(R, f)
    PROVE  ListOK
<1>1. dangling' => dangling
  BY DEF Relists
<1>2. CountsQos12(msgs \ R) \in Nat
  BY RemovedCount
<1>3. CountLimited => CountLimited'
  BY <1>2, SessionAssumption DEF Relists, CountLimited, TypeOK
<1> QED
  BY <1>1, <1>3, RelistsList DEF ListOK, CountInv

LEMMA UnchangedOK ==
    ASSUME TypeOK, ListInv, UNCHANGED list
    PROVE  ListOK
BY DEF list, TypeOK, ListInv, ListOK, CountInv, CountMatches, CountLimited

LEMMA InsertOK ==
    ASSUME TypeOK, ListInv,
           NEW msg \in OutMsgs \cup InMsgs, NEW mid \in Mids,
           NEW dir \in {"out", "in"}, NEW qos \in 0..2,
           mqtt3_db_message_insert(msg, mid, dir, qos)
    PROVE  ListOK
<1>1. CountLimited => CountLimited'
  <2>1. InsertState(dir, qos) # "dropped" /\ max_inflight > 0 /\ max_queued > 0
        /\ qos > 0 => msg_count12 < max_inflight + max_queued
    BY SessionAssumption DEF InsertState, TypeOK
  <2>2. \/ UNCHANGED list
        \/ /\ InsertState(dir, qos) # "dropped"
           /\ msg_count12' = msg_count12 + (IF qos > 0 THEN 1 ELSE 0)
    BY DEF mqtt3_db_message_insert
  <2> QED
    BY <2>1, <2>2, SessionAssumption DEF CountLimited, list, TypeOK
<1> QED
  BY <1>1, InsertResult DEF ListOK, CountInv, TypeOK

LEMMA ConnectOK ==
    ASSUME TypeOK, ListInv, mqtt3_handle_connect
    PROVE  ListOK
<1>1. PICK denied \in SUBSET Revocable :
         LET purged == {m \in msgs : m.dir = "out" /\ m.msg \in denied}
         IN  /\ msgs' = {mqtt3_db_message_reconnect_reset(m) : m \in msgs \ purged}
             /\ dangling' = \E m \in purged : IsTail(m)
  BY DEF mqtt3_handle_connect
<1> DEFINE purged == {m \in msgs : m.dir = "out" /\ m.msg \in denied}
           R == msgs \ purged
           f == [m \in R |-> mqtt3_db_message_reconnect_reset(m)]
<1>2. msgs' = {f[m] : m \in R}
  BY <1>1
<1>3. R \in SUBSET msgs /\ R \subseteq Message
  BY DEF TypeOK
<1>4. f \in Restatements(R)
  BY <1>3, ReconnectResetType DEF Restatements
<1>5. (Revocable = {} => R = msgs /\ ~dangling') /\ dangling' \in BOOLEAN
  BY <1>1
<1> HIDE DEF f, R
<1>6. /\ msgs' \subseteq Message
      /\ IsFiniteSet(msgs')
      /\ \A m, n \in msgs' : m.ord = n.ord => m = n
      /\ \A m \in msgs' : m.ord < ord
      /\ CountsQos12(msgs') = CountsQos12(R)
  BY <1>2, <1>3, <1>4, RestatedList
<1>7. CountsQos12(msgs) \in Nat
  BY RemovedCount
<1>8. msg_count12' = CountsQos12(msgs) /\ ord' = ord
  BY DEF mqtt3_handle_connect, Recounted
<1>9. CountInv => CountInv'
  BY <1>5, <1>6, <1>8 DEF CountInv, CountMatches, CountLimited
<1> QED
  BY <1>5, <1>6, <1>7, <1>8, <1>9 DEF ListOK, ListInv, TypeOK

\* Each step keeps the list; then its other effects are typed.
LEMMA StepList ==
    ASSUME TypeOK, ListInv, [Next]_vars
    PROVE  ListOK
<1>1. CASE subs_process
  <2>1. PICK q \in OutQos, m \in pending :
           mqtt3_db_message_insert(m, IF q > 0 THEN mid_generate ELSE 0, "out", q)
    BY <1>1 DEF subs_process
  <2>2. q \in 0..2 /\ m \in OutMsgs \cup InMsgs
    BY SessionAssumption DEF TypeOK
  <2>3. (IF q > 0 THEN mid_generate ELSE 0) \in Mids
    BY SessionAssumption DEF mid_generate, Mids, TypeOK
  <2> QED
    BY <2>1, <2>2, <2>3, InsertOK
<1>2. CASE mqtt3_handle_publish
  <2>1. Packet1 \in Packet /\ Packet1.type = "PUBLISH"
    BY <1>2, HeadOf DEF mqtt3_handle_publish, Reading, Packet1, TypeOK
  <2>2. Packet1.mid \in Mids /\ Packet1.msg \in OutMsgs \cup InMsgs
    BY <2>1, PacketFields
  <2>3. \/ UNCHANGED list
        \/ mqtt3_db_message_insert(Packet1.msg, Packet1.mid, "in", 2)
    BY <1>2 DEF mqtt3_handle_publish
  <2> QED
    BY <2>2, <2>3, InsertOK, UnchangedOK
<1>3. CASE handle_pubackcomp
  BY <1>3, DeleteResult, RelistsOK DEF handle_pubackcomp
<1>4. CASE handle_pubrec
  <2>1. "wait_for_pubcomp" \in States
    BY DEF States
  <2>2. mqtt3_db_message_update(Packet1.mid, "out", "wait_for_pubcomp")
    BY <1>4 DEF handle_pubrec
  <2>3. PICK f \in Restatements(msgs) : Relists(msgs, f)
    BY <2>1, <2>2, UpdateResult
  <2> QED
    BY <2>3, RelistsOK
<1>5. CASE handle_pubrel
  <2>1. PICK R \in SUBSET msgs : \E f \in Restatements(R) : Relists(R, f)
    BY <1>5, ReleaseResult DEF handle_pubrel, ReleasedList
  <2> QED
    BY <2>1, RelistsOK
<1>6. CASE mqtt3_db_message_write
  <2>1. WriteOut(ToWrite, {}) /\ ToWrite \in SUBSET msgs
    BY <1>6 DEF mqtt3_db_message_write, ToWrite
  <2>2. PICK R \in SUBSET msgs : \E f \in Restatements(R) : Relists(R, f)
    BY <2>1, WriteOutResult DEF WrittenList
  <2> QED
    BY <2>2, RelistsOK
<1>7. CASE message_write_fails
  <2>1. PICK f \in ToWrite : WriteOut(Before(ToWrite, f), {f})
    BY <1>7 DEF message_write_fails
  <2>2. Before(ToWrite, f) \in SUBSET msgs
    BY DEF Before, ToWrite
  <2>3. PICK R \in SUBSET msgs : \E g \in Restatements(R) : Relists(R, g)
    BY <2>1, <2>2, WriteOutResult DEF WrittenList
  <2> QED
    BY <2>3, RelistsOK
<1>8. CASE mqtt3_db_message_timeout_check
  <2>1. PICK f \in Restatements(msgs) : Relists(msgs, f)
    BY <1>8, TimeoutResult
  <2> QED
    BY <2>1, RelistsOK
<1>9. CASE mqtt3_handle_connect
  BY <1>9, ConnectOK
<1>10. CASE \/ client_publish \/ Receive \/ do_disconnect \/ link_lost
            \/ client_closed \/ UNCHANGED vars
  <2>1. UNCHANGED list
    BY <1>10 DEF client_publish, Receive, client_on_publish, client_on_pubrel,
                 client_on_pubrec, client_on_pubackcomp, do_disconnect,
                 link_lost, client_closed, vars
  <2> QED
    BY <2>1, UnchangedOK
<1> QED
  BY <1>1, <1>2, <1>3, <1>4, <1>5, <1>6, <1>7, <1>8, <1>9, <1>10
  DEF Next, Exchange, Break, Loop

LEMMA StepType ==
    ASSUME TypeOK, ListInv, ListOK, [Next]_vars
    PROVE  TypeOK'
<1> DEFINE Rest == /\ last_mid' \in 0..LastMid
                   /\ sock' \in BOOLEAN /\ link' \in BOOLEAN
                   /\ toBroker' \in Seq(Packet) /\ toClient' \in Seq(Packet)
                   /\ pending' \subseteq OutMsgs
                   /\ forwarded' \in [InMsgs -> 0..2]
                   /\ pub' \in [InMsgs -> Handshake]
                   /\ rec2' \subseteq Mids
                   /\ got' \in Seq(OutMsgs \cup InMsgs)
                   /\ dups' \subseteq OutMsgs \cup InMsgs
                   /\ losses' \in 0..MaxLosses
<1> SUFFICES Rest
  BY DEF ListOK, TypeOK
<1> USE DEF wire, client
<1>0. <<>> \in Seq(Packet)
  OBVIOUS
<1>a. ASSUME toBroker # <<>> PROVE Packet1 \in Packet
  BY <1>a, HeadOf DEF Packet1, TypeOK
<1>b. ASSUME toClient # <<>>
      PROVE  Head(toClient) \in Packet /\ Tail(toClient) \in Seq(Packet)
  BY <1>b, HeadOf, OfTail DEF TypeOK
<1>1. CASE subs_process
  <2>1. mid_generate \in 0..LastMid
    BY SessionAssumption DEF mid_generate, TypeOK
  <2> QED
    BY <1>1, <2>1 DEF subs_process, TypeOK
<1>2. CASE mqtt3_handle_publish
  <2>1. toBroker # <<>> /\ Packet1.mid \in Mids
    BY <1>2, <1>a, PacketFields DEF mqtt3_handle_publish, Reading
  <2>2. toBroker' \in Seq(Packet)
    BY <1>0, <1>2, <2>1, ConsumeType DEF mqtt3_handle_publish, CloseSocket
  <2>3. toClient' \in Seq(Packet)
    BY <1>2, <2>1, SendAckType DEF mqtt3_handle_publish, TypeOK
  <2>4. forwarded' \in [InMsgs -> 0..2]
    BY <1>2, ForwardType DEF mqtt3_handle_publish, TypeOK
  <2>5. sock' \in BOOLEAN
    BY <1>2 DEF mqtt3_handle_publish, CloseSocket, TypeOK
  <2>6. UNCHANGED <<last_mid, link, pending, pub, rec2, got, dups, losses>>
    BY <1>2 DEF mqtt3_handle_publish
  <2> QED
    BY <2>2, <2>3, <2>4, <2>5, <2>6 DEF TypeOK
<1>3. CASE handle_pubackcomp
  BY <1>3, ConsumeType DEF handle_pubackcomp, Reading, TypeOK
<1>4. CASE handle_pubrec
  <2>1. toBroker # <<>> /\ Packet1.mid \in Mids
    BY <1>4, <1>a, PacketFields DEF handle_pubrec, Reading
  <2>2. toBroker' \in Seq(Packet)
    BY <1>0, <1>4, <2>1, ConsumeType DEF handle_pubrec, CloseSocket
  <2>3. toClient' \in Seq(Packet)
    BY <1>4, <2>1, SendAckType DEF handle_pubrec, TypeOK
  <2>4. sock' \in BOOLEAN
    BY <1>4 DEF handle_pubrec, CloseSocket, TypeOK
  <2> QED
    BY <1>4, <2>2, <2>3, <2>4 DEF handle_pubrec, TypeOK
<1>5. CASE handle_pubrel
  <2>1. toBroker # <<>> /\ Packet1.mid \in Mids
    BY <1>5, <1>a, PacketFields DEF handle_pubrel, Reading
  <2> DEFINE after == <<Ack("PUBCOMP", Packet1.mid)>>
  <2>2. after \in Seq(Packet)
    BY <2>1, AckType
  <2>3. mqtt3_db_message_release(Packet1.mid, after)
    BY <1>5 DEF handle_pubrel
  <2> HIDE DEF after
  <2>4. PICK r \in Seq(Packet) : Send(r \o after)
    BY <2>3, ReleaseResult
  <2>5. toClient' \in Seq(Packet)
    BY <2>2, <2>4, OfConcat, SendType
  <2>6. forwarded' \in [InMsgs -> 0..2]
    BY <2>3, ReleaseResult, ForwardType DEF ReleasedList
  <2>7. toBroker' \in Seq(Packet)
    BY <1>5, <2>1, ConsumeType DEF handle_pubrel
  <2> QED
    BY <1>5, <2>5, <2>6, <2>7 DEF handle_pubrel, TypeOK
<1>6. CASE mqtt3_db_message_write
  <2>1. WriteOut(ToWrite, {}) /\ ToWrite \in SUBSET msgs
    BY <1>6 DEF mqtt3_db_message_write, ToWrite
  <2>2. toClient' \in Seq(Packet)
    BY <2>1, WriteOutResult, SendType
  <2> QED
    BY <1>6, <2>2 DEF mqtt3_db_message_write, TypeOK
<1>7. CASE message_write_fails
  <2>1. PICK f \in ToWrite : WriteOut(Before(ToWrite, f), {f})
    BY <1>7 DEF message_write_fails
  <2>2. Before(ToWrite, f) \in SUBSET msgs
    BY DEF Before, ToWrite
  <2>3. toClient' \in Seq(Packet)
    BY <2>1, <2>2, WriteOutResult, SendType
  <2>4. toBroker' \in Seq(Packet) /\ sock' \in BOOLEAN
    BY <1>0, <1>7 DEF message_write_fails, CloseSocket
  <2> QED
    BY <1>7, <2>3, <2>4 DEF message_write_fails, TypeOK
<1>8. CASE mqtt3_db_message_timeout_check
  BY <1>8 DEF mqtt3_db_message_timeout_check, TypeOK
<1>9. CASE mqtt3_handle_connect
  <2>1. 0 \in 0..LastMid
    BY SessionAssumption
  <2> QED
    BY <1>0, <1>9, <2>1, ClientResendType DEF mqtt3_handle_connect, TypeOK
<1>10. CASE client_publish
  <2>1. PICK m \in InMsgs, q \in InQos :
           /\ pub' = [pub EXCEPT ![m] = [st |-> "sent", qos |-> q]]
           /\ ClientSend(<<ClientPublish(m, q)>>)
    BY <1>10 DEF client_publish
  <2>2. pub' \in [InMsgs -> Handshake]
    BY <2>1 DEF TypeOK, Handshake
  <2>3. <<ClientPublish(m, q)>> \in Seq(Packet)
    BY ClientPublishType
  <2>4. toBroker' \in Seq(Packet)
    BY <2>1, <2>3, ClientSendType
  <2> QED
    BY <1>10, <2>2, <2>4 DEF client_publish, TypeOK
<1>11. CASE client_on_publish
  <2> DEFINE p == Head(toClient)
             ans == CASE p.qos = 0 -> <<>>
                      [] p.qos = 1 -> <<Ack("PUBACK", p.mid)>>
                      [] p.qos = 2 -> <<Ack("PUBREC", p.mid)>>
  <2>1. /\ toClient # <<>> /\ p.type = "PUBLISH" /\ toClient' = Tail(toClient)
        /\ ClientSend(ans)
        /\ got' \in {got, Append(got, p.msg)}
        /\ dups' \in {dups, dups \cup {p.msg}}
        /\ rec2' \in {rec2, rec2 \cup {p.mid}}
        /\ UNCHANGED <<last_mid, sock, link, pending, forwarded, pub, losses>>
    BY <1>11 DEF client_on_publish, ClientReading
  <2>2. /\ p.mid \in Mids /\ p.qos \in 0..2 /\ p.msg \in OutMsgs \cup InMsgs
        /\ toClient' \in Seq(Packet)
    BY <1>b, <2>1, PacketFields
  <2>3. ans \in Seq(Packet)
    BY <2>2, AckType
  <2> HIDE DEF ans, p
  <2>4. toBroker' \in Seq(Packet)
    BY <2>1, <2>3, ClientSendType
  <2>5. got' \in Seq(OutMsgs \cup InMsgs)
    <3>1. got \in Seq(OutMsgs \cup InMsgs)
      BY DEF TypeOK
    <3>2. Append(got, p.msg) \in Seq(OutMsgs \cup InMsgs)
      BY <2>2, <3>1, AppendProperties
    <3> QED
      BY <2>1, <3>1, <3>2
  <2> QED
    BY <2>1, <2>2, <2>4, <2>5 DEF TypeOK
<1>12. CASE client_on_pubrel
  <2>1. /\ toClient' \in Seq(Packet)
        /\ <<Ack("PUBCOMP", Head(toClient).mid)>> \in Seq(Packet)
    BY <1>12, <1>b, PacketFields, AckType DEF client_on_pubrel, ClientReading
  <2>2. toBroker' \in Seq(Packet)
    BY <1>12, <2>1, ClientSendType DEF client_on_pubrel
  <2> QED
    BY <1>12, <2>1, <2>2 DEF client_on_pubrel, TypeOK
<1>13. CASE client_on_pubrec
  <2> DEFINE S == Unfinished(Head(toClient).mid)
             ans == IF S = {} THEN <<>> ELSE <<Ack("PUBREL", Head(toClient).mid)>>
  <2>1. /\ toClient' \in Seq(Packet) /\ ans \in Seq(Packet)
    BY <1>13, <1>b, PacketFields, AckType DEF client_on_pubrec, ClientReading
  <2>2. SetHandshake(S, "released") /\ ClientSend(ans)
    BY <1>13 DEF client_on_pubrec
  <2> HIDE DEF S, ans
  <2>3. toBroker' \in Seq(Packet) /\ pub' \in [InMsgs -> Handshake]
    BY <2>1, <2>2, ClientSendType, SetHandshakeType
  <2> QED
    BY <1>13, <2>1, <2>3 DEF client_on_pubrec, TypeOK
<1>14. CASE client_on_pubackcomp
  <2>1. toClient' \in Seq(Packet)
    BY <1>14, <1>b DEF client_on_pubackcomp, ClientReading
  <2>2. pub' \in [InMsgs -> Handshake]
    BY <1>14, SetHandshakeType DEF client_on_pubackcomp
  <2> QED
    BY <1>14, <2>1, <2>2 DEF client_on_pubackcomp, TypeOK
<1>15. CASE do_disconnect
  BY <1>0, <1>15 DEF do_disconnect, CloseSocket, TypeOK
<1>16. CASE link_lost
  <2>1. losses' \in 0..MaxLosses
    BY <1>16, SessionAssumption DEF link_lost, TypeOK
  <2>2. link' = FALSE /\ toClient' = <<>>
        /\ UNCHANGED <<last_mid, sock, toBroker, pending, forwarded, client>>
    BY <1>16 DEF link_lost
  <2> QED
    BY <1>0, <2>1, <2>2 DEF TypeOK
<1>17. CASE client_closed
  BY <1>17 DEF client_closed, TypeOK
<1>18. CASE UNCHANGED vars
  BY <1>18 DEF vars, TypeOK
<1> QED
  BY <1>1, <1>2, <1>3, <1>4, <1>5, <1>6, <1>7, <1>8, <1>9, <1>10, <1>11, <1>12,
     <1>13, <1>14, <1>15, <1>16, <1>17, <1>18
  DEF Next, Exchange, Break, Loop, Receive
LEMMA BaseInvariant == Spec => [](TypeOK /\ ListInv /\ CountInv)
<1>1. ASSUME Init PROVE TypeOK /\ ListInv /\ CountInv
  <2> USE <1>1 DEF Init
  <2>1. TypeOK
    <3>1. last_mid \in 0..LastMid /\ losses \in 0..MaxLosses /\ msg_count12 \in Int
          /\ ord \in Nat
      BY SessionAssumption
    <3>2. forwarded \in [InMsgs -> 0..2] /\ pub \in [InMsgs -> Handshake]
      BY DEF Handshake
    <3>3. sock \in BOOLEAN /\ link \in BOOLEAN /\ dangling \in BOOLEAN
      OBVIOUS
    <3>4. /\ toBroker \in Seq(Packet) /\ toClient \in Seq(Packet)
          /\ got \in Seq(OutMsgs \cup InMsgs)
      OBVIOUS
    <3> QED
      BY <3>1, <3>2, <3>3, <3>4 DEF TypeOK
  <2>2. ListInv
    BY FS_EmptySet DEF ListInv
  <2>3. CountInv
    BY NothingRemoved, SessionAssumption DEF CountInv, CountMatches, CountLimited
  <2> QED
    BY <2>1, <2>2, <2>3
<1>2. ASSUME TypeOK /\ ListInv /\ CountInv, [Next]_vars
      PROVE  (TypeOK /\ ListInv /\ CountInv)'
  <2>1. ListOK
    BY <1>2, StepList
  <2> QED
    BY <1>2, <2>1, StepType DEF ListOK
<1> QED
  BY <1>1, <1>2, PTL DEF Spec

\* Every state of a session has the declared types: the handlers, the main loop
\* and a reconnect keep list, ids, packets and counters in their ranges.
THEOREM TypeCorrect == Spec => []TypeOK
BY BaseInvariant, PTL

\* While no outgoing message is revoked, msg_count12 is the number of QoS 1 and
\* 2 messages of the list after every handler, removal, promotion, lost
\* connection and takeover of the list by a reconnecting client.
THEOREM CounterExact == Revocable = {} => (Spec => []CountMatches)
<1> SUFFICES ASSUME Revocable = {} PROVE Spec => []CountMatches
  OBVIOUS
<1>1. TypeOK /\ ListInv /\ CountInv => CountMatches
  BY DEF CountInv
<1> QED
  BY <1>1, BaseInvariant, PTL

\* Then max_inflight_messages and max_queued_messages together bound the QoS 1
\* and 2 messages a session holds, whoever publishes them.
THEOREM HeldWithinLimits ==
    Revocable = {} /\ max_inflight > 0 /\ max_queued > 0 =>
        (Spec => [](CountsQos12(msgs) <= max_inflight + max_queued))
<1> SUFFICES ASSUME Revocable = {}, max_inflight > 0, max_queued > 0
             PROVE  Spec => [](CountsQos12(msgs) <= max_inflight + max_queued)
  OBVIOUS
<1>1. TypeOK /\ ListInv /\ CountInv => CountsQos12(msgs) <= max_inflight + max_queued
  BY DEF CountInv, CountMatches, CountLimited
<1> QED
  BY <1>1, BaseInvariant, PTL
-----------------------------------------------------------------------------
(***************************************************************************)
(* The handshakes, in both directions.                                     *)
(*                                                                         *)
(* To the client: over a connection that lasts, and while message ids do   *)
(* not wrap, QoS 2 messages are delivered once and none is forgotten       *)
(* before the client has it, for every window, queue, interleaving and     *)
(* number of retries.                                                      *)
(*                                                                         *)
(* From the client: through lost connections, takeovers of the list,       *)
(* retries and a full queue, each message it publishes is handed to its    *)
(* subscribers as its QoS says.                                            *)
(***************************************************************************)

\* What is under way, by type.
Pubs == Of(toClient, "PUBLISH")
Rels == Of(toClient, "PUBREL")
Acks == Of(toBroker, "PUBACK")
Recs == Of(toBroker, "PUBREC")
Comps == Of(toBroker, "PUBCOMP")

\* What the client has received.
Got == {got[i] : i \in 1..Len(got)}

\* The outgoing messages of the list; together with the PUBLISH packets under
\* way to the client they carry a message, its id and its QoS.
Out == {m \in msgs : m.dir = "out"}
Carriers == Out \cup Pubs

Releasing == {"wait_for_pubcomp", "resend_pubrel"}

\* Each direction, and each QoS, keeps to its own states.
OutStates(qos) ==
    CASE qos = 0 -> {"publish_qos0"}
      [] qos = 1 -> {"publish_qos1", "wait_for_puback", "queued"}
      [] qos = 2 -> {"publish_qos2", "wait_for_pubrec", "queued"} \cup Releasing

StatesOf(dir, qos) ==
    IF dir = "out" THEN OutStates(qos)
                   ELSE {"wait_for_pubrel", "send_pubrec", "queued"}

StateFits == \A m \in msgs : m.state \in StatesOf(m.dir, m.qos)

\* Ids are given out in ascending order, one for each message published, and
\* no packet or answer has one that was not given out.
GivenOut == 1..last_mid

IdsFresh ==
    /\ \A x \in Carriers : /\ IF x.qos = 0 THEN x.mid = 0 ELSE x.mid \in GivenOut
                           /\ x.msg \in OutMsgs \ pending
    /\ \A p \in Rels \cup Acks \cup Recs \cup Comps : p.mid \in GivenOut
    /\ rec2 \subseteq GivenOut
    /\ Got \subseteq OutMsgs \ pending
    /\ last_mid + Cardinality(pending) <= Cardinality(OutMsgs)

\* A message has one id and one QoS wherever it is carried, and an id other
\* than 0 has one message.
IdsUnique ==
    /\ \A x, y \in Carriers :
          x.msg = y.msg \/ (x.mid = y.mid /\ x.mid # 0) => SameTag(x, y)
    /\ \A m, n \in Out : m.msg = n.msg => m = n

\* What is under way on behalf of a message says how far its handshake is.
Acked ==
    \A p \in Acks : /\ \A x \in Carriers : x.mid = p.mid => x.qos = 1
                    /\ \A m \in Out : m.mid = p.mid => m.msg \in Got

Released ==
    /\ \A p \in Rels \cup Comps, m \in Out : m.mid = p.mid => m.state \in Releasing
    /\ \A m \in Out : m.state \in Releasing => m.msg \in Got
    /\ \A p \in Comps, x \in Pubs : x.mid # p.mid

\* Neither does a PUBLISH follow the PUBREL of its id, nor a PUBREC the PUBCOMP.
Ordered ==
    /\ NoneAfter(toClient, "PUBREL", "PUBLISH")
    /\ NoneAfter(toBroker, "PUBCOMP", "PUBREC")

Kept ==
    /\ \A x \in Pubs : x.qos = 2 => \E m \in Out : m.mid = x.mid
    /\ \A p \in Recs : \E m \in Out : m.mid = p.mid /\ m.qos = 2 /\ m.msg \in Got

\* The client remembers exactly the received QoS 2 messages that may still
\* come again.
Remembered ==
    /\ \A x \in Carriers : x.qos = 2 /\ x.mid \in rec2 => x.msg \in Got
    /\ \A m \in Out : m.qos = 2 /\ m.state \notin Releasing /\ m.msg \in Got
                         => m.mid \in rec2
    /\ \A x \in Pubs : x.qos = 2 /\ x.msg \in Got => x.mid \in rec2

SessionInv ==
    /\ ~dangling
    /\ StateFits
    /\ IdsFresh
    /\ IdsUnique
    /\ Acked
    /\ Released
    /\ Ordered
    /\ Kept
    /\ Remembered
    /\ NoDuplicateQos2
-----------------------------------------------------------------------------
(* Steps that restate the outgoing messages. *)

\* Every outgoing message after the step was there before it.
OutFrom ==
    \A n \in Out' : \E m \in Out : SameMessage(m, n)

\* Ids stay fresh and unique when nothing new is carried.
LEMMA TagsKept ==
    ASSUME IdsFresh, IdsUnique, ListInv', OutFrom,
           \A x \in Carriers' : \E y \in Carriers : SameTag(y, x),
           \A p \in (Rels \cup Acks \cup Recs \cup Comps)' : p.mid \in GivenOut,
           rec2' \subseteq GivenOut, Got' \subseteq OutMsgs \ pending,
           UNCHANGED <<last_mid, pending>>
    PROVE  IdsFresh' /\ IdsUnique'
<1>1. GivenOut' = GivenOut
  BY DEF GivenOut
<1>2. IdsFresh'
  <2>1. \A x \in Carriers' : /\ IF x.qos = 0 THEN x.mid = 0 ELSE x.mid \in GivenOut
                             /\ x.msg \in OutMsgs \ pending
    BY DEF IdsFresh, SameTag
  <2> QED
    BY <1>1, <2>1 DEF IdsFresh
<1>3. \A x, y \in Carriers' :
         x.msg = y.msg \/ (x.mid = y.mid /\ x.mid # 0) => SameTag(x, y)
  <2> SUFFICES ASSUME NEW x \in Carriers', NEW y \in Carriers',
                      x.msg = y.msg \/ (x.mid = y.mid /\ x.mid # 0)
               PROVE  SameTag(x, y)
    OBVIOUS
  <2>1. PICK x0 \in Carriers : SameTag(x0, x)
    OBVIOUS
  <2>2. PICK y0 \in Carriers : SameTag(y0, y)
    OBVIOUS
  <2> QED
    BY <2>1, <2>2 DEF IdsUnique, SameTag
<1>4. \A m, n \in Out' : m.msg = n.msg => m = n
  <2> SUFFICES ASSUME NEW m \in Out', NEW n \in Out', m.msg = n.msg
               PROVE  m = n
    OBVIOUS
  <2>1. PICK m0 \in Out : SameMessage(m0, m)
    BY DEF OutFrom
  <2>2. PICK n0 \in Out : SameMessage(n0, n)
    BY DEF OutFrom
  <2>3. m0 = n0
    BY <2>1, <2>2 DEF IdsUnique, SameMessage
  <2>4. m.ord = n.ord
    BY <2>1, <2>2, <2>3 DEF SameMessage
  <2> QED
    BY <2>4 DEF ListInv, Out
<1> QED
  BY <1>2, <1>3, <1>4 DEF IdsUnique

\* Every outgoing message stays, and is being released after the step exactly
\* when it was before.
OutSame ==
    /\ \A n \in Out' : \E m \in Out :
          SameMessage(m, n) /\ (n.state \in Releasing <=> m.state \in Releasing)
    /\ \A m \in Out : \E n \in Out' : SameMessage(m, n)

\* A step that changes neither what is carried nor what the client knows, and
\* puts no packet of an outgoing handshake on its way.
LEMMA Quiet ==
    ASSUME SessionInv, ListInv', ~dangling', StateFits', Ordered', OutSame,
           Pubs' \subseteq Pubs, Rels' \subseteq Rels, Acks' \subseteq Acks,
           Recs' \subseteq Recs, Comps' \subseteq Comps,
           UNCHANGED <<last_mid, pending, rec2, got, dups>>
    PROVE  SessionInv'
<1>1. Got' = Got
  BY DEF Got
<1>2. OutFrom
  BY DEF OutSame, OutFrom
<1>3. \A x \in Carriers' : \E y \in Carriers : SameTag(y, x)
  BY <1>2 DEF OutFrom, Carriers, SameTag, SameMessage
<1>4. IdsFresh' /\ IdsUnique'
  BY <1>1, <1>2, <1>3, TagsKept DEF SessionInv, IdsFresh
<1>5. Acked'
  BY <1>1, <1>2, <1>3 DEF SessionInv, Acked, OutFrom, SameMessage, SameTag
<1>6. Released'
  BY <1>1 DEF SessionInv, Released, OutSame, SameMessage
<1>7. Kept'
  BY <1>1 DEF SessionInv, Kept, OutSame, SameMessage
<1>8. Remembered'
  <2>1. \A x \in Carriers' : x.qos = 2 /\ x.mid \in rec2 => x.msg \in Got
    BY <1>3 DEF SessionInv, Remembered, SameTag
  <2>2. \A m \in Out' : m.qos = 2 /\ m.state \notin Releasing /\ m.msg \in Got
                           => m.mid \in rec2
    BY DEF SessionInv, Remembered, OutSame, SameMessage
  <2> QED
    BY <1>1, <2>1, <2>2 DEF SessionInv, Remembered
<1> QED
  BY <1>4, <1>5, <1>6, <1>7, <1>8 DEF SessionInv, NoDuplicateQos2
-----------------------------------------------------------------------------
(* What a step does to the list and to the wire, as the invariant sees it. *)

LEMMA RelistsOut ==
    ASSUME TypeOK, ~dangling, NEW R \in SUBSET msgs, NEW f \in Restatements(R),
           Relists(R, f)
    PROVE  /\ ~dangling' /\ OutFrom
           /\ \A n \in Out' : \E m \in R : m \in Out /\ n = f[m] /\ SameMessage(m, n)
           /\ \A m \in R : m \in Out => f[m] \in Out' /\ SameMessage(m, f[m])
<1>1. ~dangling' /\ msgs' = {f[m] : m \in R}
  BY DEF Relists
<1>2. \A m \in R : m \in msgs /\ SameMessage(m, f[m])
  BY DEF Restatements
<1>3. \A m \in R : f[m].dir = m.dir
  BY <1>2 DEF SameMessage
<1>4. \A n \in Out' : \E m \in R : m \in Out /\ n = f[m] /\ SameMessage(m, n)
  BY <1>1, <1>2, <1>3 DEF Out
<1>5. \A m \in R : m \in Out => f[m] \in Out' /\ SameMessage(m, f[m])
  BY <1>1, <1>2, <1>3 DEF Out
<1> QED
  BY <1>1, <1>4, <1>5 DEF OutFrom

LEMMA RelistsFit ==
    ASSUME NEW R \in SUBSET msgs, NEW f \in Restatements(R), Relists(R, f),
           \A m \in R : f[m].state \in StatesOf(m.dir, m.qos)
    PROVE  StateFits'
<1>1. \A m \in R : f[m].dir = m.dir /\ f[m].qos = m.qos
  BY DEF Restatements, SameMessage
<1> QED
  BY <1>1 DEF StateFits, Relists

\* Promotion is not a step of a handshake.
LEMMA PromotesFit ==
    ASSUME TypeOK, StateFits, NEW m \in msgs, NEW n, Promotes(m, n)
    PROVE  /\ n.state \in StatesOf(m.dir, m.qos)
           /\ m.dir = "out" => (n.state \in Releasing <=> m.state \in Releasing)
<1>1. m.state \in StatesOf(m.dir, m.qos) /\ m \in Message
  BY DEF StateFits, TypeOK
<1>2. m.qos \in 0..2 /\ m.dir \in {"out", "in"}
  BY <1>1 DEF Message
<1>3. CASE n = m
  BY <1>1, <1>3
<1>4. CASE m.state = "queued" /\ n = Promoted(m)
  <2>1. n.state = IF m.dir = "out" THEN PublishState(m.qos) ELSE "wait_for_pubrel"
    BY <1>1, <1>4, PromotedResult
  <2>2. m.dir = "out" => m.qos \in {1, 2}
    BY <1>1, <1>2, <1>4 DEF StatesOf, OutStates
  <2> QED
    BY <1>2, <1>4, <2>1, <2>2, PublishStateType DEF StatesOf, OutStates, Releasing
<1> QED
  BY <1>3, <1>4 DEF Promotes

LEMMA ConsumeWire ==
    ASSUME TypeOK, Ordered, toBroker # <<>>, toBroker' = Tail(toBroker)
    PROVE  /\ Acks' \subseteq Acks /\ Recs' \subseteq Recs /\ Comps' \subseteq Comps
           /\ NoneAfter(toBroker, "PUBCOMP", "PUBREC")'
           /\ Packet1 \in Packet
           /\ Packet1.type = "PUBACK" => Packet1 \in Acks
           /\ Packet1.type = "PUBREC" => Packet1 \in Recs
           /\ Packet1.type = "PUBCOMP" =>
                 Packet1 \in Comps /\ \A p \in Recs' : p.mid # Packet1.mid
<1>1. toBroker \in Seq(Packet)
  BY DEF TypeOK
<1>2. \A t : Of(Tail(toBroker), t) \subseteq Of(toBroker, t)
  BY <1>1, OfTail
<1>3. /\ NoneAfter(Tail(toBroker), "PUBCOMP", "PUBREC")
      /\ Packet1.type = "PUBCOMP" =>
            \A p \in Of(Tail(toBroker), "PUBREC") : p.mid # Packet1.mid
  BY <1>1, NoneAfterTail DEF Ordered, Packet1
<1>4. Packet1 \in Packet /\ Packet1 \in Of(toBroker, Packet1.type)
  BY <1>1, HeadOf DEF Packet1
<1> QED
  BY <1>2, <1>3, <1>4 DEF Acks, Recs, Comps

LEMMA ClientReadWire ==
    ASSUME TypeOK, Ordered, toClient # <<>>, toClient' = Tail(toClient)
    PROVE  /\ Pubs' \subseteq Pubs /\ Rels' \subseteq Rels
           /\ NoneAfter(toClient, "PUBREL", "PUBLISH")'
           /\ Head(toClient) \in Packet
           /\ Head(toClient).type = "PUBLISH" => Head(toClient) \in Pubs
           /\ Head(toClient).type = "PUBREL" =>
                 /\ Head(toClient) \in Rels
                 /\ \A p \in Pubs' : p.mid # Head(toClient).mid
<1>1. toClient \in Seq(Packet)
  BY DEF TypeOK
<1>2. \A t : Of(Tail(toClient), t) \subseteq Of(toClient, t)
  BY <1>1, OfTail
<1>3. /\ NoneAfter(Tail(toClient), "PUBREL", "PUBLISH")
      /\ Head(toClient).type = "PUBREL" =>
            \A p \in Of(Tail(toClient), "PUBLISH") : p.mid # Head(toClient).mid
  BY <1>1, NoneAfterTail DEF Ordered
<1>4. Head(toClient) \in Packet /\ Head(toClient) \in Of(toClient, Head(toClient).type)
  BY <1>1, HeadOf
<1> QED
  BY <1>2, <1>3, <1>4 DEF Pubs, Rels

LEMMA SendWire ==
    ASSUME TypeOK, Ordered, NEW r \in Seq(Packet), Send(r),
           \A p \in Rels \cup Of(r, "PUBREL"), x \in Of(r, "PUBLISH") : p.mid # x.mid
    PROVE  /\ Pubs' \subseteq Pubs \cup Of(r, "PUBLISH")
           /\ Rels' \subseteq Rels \cup Of(r, "PUBREL")
           /\ NoneAfter(toClient, "PUBREL", "PUBLISH")'
<1>1. toClient \in Seq(Packet)
  BY DEF TypeOK
<1>2. \A t : Of(toClient \o r, t) \subseteq Of(toClient, t) \cup Of(r, t)
  BY <1>1, OfConcat
<1>3. NoneAfter(r, "PUBREL", "PUBLISH")
  BY DEF NoneAfter, Of
<1>4. NoneAfter(toClient \o r, "PUBREL", "PUBLISH")
  BY <1>1, <1>3, NoneAfterConcat DEF Ordered, Rels
<1>5. toClient' = toClient \/ toClient' = toClient \o r
  BY DEF Send
<1> QED
  BY <1>2, <1>4, <1>5 DEF Pubs, Rels, Ordered

LEMMA ClientSendWire ==
    ASSUME TypeOK, Ordered, NEW r \in Seq(Packet), ClientSend(r),
           \A p \in Comps \cup Of(r, "PUBCOMP"), x \in Of(r, "PUBREC") : p.mid # x.mid
    PROVE  /\ Acks' \subseteq Acks \cup Of(r, "PUBACK")
           /\ Recs' \subseteq Recs \cup Of(r, "PUBREC")
           /\ Comps' \subseteq Comps \cup Of(r, "PUBCOMP")
           /\ NoneAfter(toBroker, "PUBCOMP", "PUBREC")'
<1>1. toBroker \in Seq(Packet)
  BY DEF TypeOK
<1>2. \A t : Of(toBroker \o r, t) \subseteq Of(toBroker, t) \cup Of(r, t)
  BY <1>1, OfConcat
<1>3. NoneAfter(r, "PUBCOMP", "PUBREC")
  BY DEF NoneAfter, Of
<1>4. NoneAfter(toBroker \o r, "PUBCOMP", "PUBREC")
  BY <1>1, <1>3, NoneAfterConcat DEF Ordered, Comps
<1>5. toBroker' = toBroker \/ toBroker' = toBroker \o r
  BY DEF ClientSend
<1> QED
  BY <1>2, <1>4, <1>5 DEF Acks, Recs, Comps, Ordered
-----------------------------------------------------------------------------
(* The quiet steps: incoming messages, retries, promotions. *)

LEMMA SameList ==
    ASSUME SessionInv, UNCHANGED list
    PROVE  ~dangling' /\ StateFits' /\ OutSame
<1>1. Out' = Out /\ ~dangling' /\ StateFits'
  BY DEF Out, list, SessionInv, StateFits
<1> QED
  BY <1>1 DEF OutSame, SameMessage

\* A list whose messages change state within their handshake phase.
LEMMA Restates ==
    ASSUME TypeOK, SessionInv, NEW R \in SUBSET msgs, NEW f \in Restatements(R),
           Relists(R, f), \A m \in msgs \ R : m.dir = "in",
           \A m \in R : /\ f[m].state \in StatesOf(m.dir, m.qos)
                        /\ m.dir = "out" =>
                              (f[m].state \in Releasing <=> m.state \in Releasing)
    PROVE  ~dangling' /\ StateFits' /\ OutSame
<1>1. /\ ~dangling'
      /\ \A n \in Out' : \E m \in R : m \in Out /\ n = f[m] /\ SameMessage(m, n)
      /\ \A m \in R : m \in Out => f[m] \in Out' /\ SameMessage(m, f[m])
  BY RelistsOut DEF SessionInv
<1>2. \A m \in Out : m \in R /\ m.dir = "out"
  BY DEF Out
<1>3. StateFits'
  BY RelistsFit
<1> QED
  BY <1>1, <1>2, <1>3 DEF OutSame

LEMMA QuietPublish ==
    ASSUME TypeOK, ListInv, ListInv', SessionInv, mqtt3_handle_publish
    PROVE  SessionInv'
<1>1. /\ sock /\ toBroker # <<>> /\ Packet1.type = "PUBLISH"
      /\ UNCHANGED <<last_mid, pending, rec2, got, dups>>
  BY DEF mqtt3_handle_publish, Reading, Packet1, client
<1>2. Packet1 \in Packet /\ Ordered
  BY <1>1, HeadOf DEF Packet1, TypeOK, SessionInv
<1>3. Packet1.mid \in Mids /\ Packet1.msg \in OutMsgs \cup InMsgs
  BY <1>1, <1>2, PacketFields
<1>4. ~dangling' /\ StateFits' /\ OutSame
  <2>1. CASE UNCHANGED list
    BY <2>1, SameList
  <2>2. CASE mqtt3_db_message_insert(Packet1.msg, Packet1.mid, "in", 2)
    <3> DEFINE new == Appended(Packet1.msg, Packet1.mid, "in", 2)
    <3>1. /\ dangling' = dangling
          /\ \/ UNCHANGED list
             \/ /\ InsertState("in", 2) # "dropped"
                /\ msgs' = IF dangling THEN msgs ELSE msgs \cup {new}
      BY <1>3, <2>2, InsertResult
    <3>2. CASE InsertState("in", 2) # "dropped" /\ msgs' = msgs \cup {new}
      <4>1. InsertState("in", 2) \in {"wait_for_pubrel", "queued"}
        BY <3>2, InsertStateType
      <4>2. new.dir = "in" /\ new.state \in {"wait_for_pubrel", "queued"}
        BY <4>1 DEF Appended
      <4> HIDE DEF new
      <4>3. Out' = Out
        BY <3>2, <4>2 DEF Out
      <4>4. StateFits'
        BY <3>2, <4>2 DEF StateFits, StatesOf, SessionInv
      <4> QED
        BY <3>1, <4>3, <4>4 DEF OutSame, SameMessage, SessionInv
    <3> QED
      BY <3>1, <3>2, SameList DEF SessionInv
  <2>3. \/ UNCHANGED list
        \/ mqtt3_db_message_insert(Packet1.msg, Packet1.mid, "in", 2)
    BY DEF mqtt3_handle_publish
  <2> QED
    BY <2>1, <2>2, <2>3
<1>5. /\ Acks' \subseteq Acks /\ Recs' \subseteq Recs /\ Comps' \subseteq Comps
      /\ NoneAfter(toBroker, "PUBCOMP", "PUBREC")'
  <2>1. CASE toBroker' = Tail(toBroker)
    BY <1>1, <1>2, <2>1, ConsumeWire
  <2>2. CASE toBroker' = <<>>
    BY <2>2, OfNone DEF Acks, Recs, Comps, NoneAfter
  <2> QED
    BY <2>1, <2>2 DEF mqtt3_handle_publish, Consume, CloseSocket
<1>6. /\ Pubs' \subseteq Pubs /\ Rels' \subseteq Rels
      /\ NoneAfter(toClient, "PUBREL", "PUBLISH")'
  <2>1. CASE UNCHANGED toClient
    BY <1>2, <2>1 DEF Pubs, Rels, Ordered
  <2>2. ASSUME NEW t \in {"PUBACK", "PUBREC"}, Send(<<Ack(t, Packet1.mid)>>)
        PROVE  /\ Pubs' \subseteq Pubs /\ Rels' \subseteq Rels
               /\ NoneAfter(toClient, "PUBREL", "PUBLISH")'
    <3> DEFINE r == <<Ack(t, Packet1.mid)>>
    <3>0. r \in Seq(Packet)
      BY <1>3, AckType
    <3>1. r \in Seq(Packet) /\ Of(r, "PUBLISH") = {} /\ Of(r, "PUBREL") = {}
      BY <3>0, OneAck
    <3> HIDE DEF r
    <3> QED
      BY <1>2, <2>2, <3>1, SendWire DEF r
  <2> QED
    BY <2>1, <2>2 DEF mqtt3_handle_publish
<1>7. Ordered'
  BY <1>5, <1>6 DEF Ordered
<1> QED
  BY <1>1, <1>4, <1>5, <1>6, <1>7, Quiet
LEMMA QuietPubrel ==
    ASSUME TypeOK, ListInv, ListInv', SessionInv, handle_pubrel
    PROVE  SessionInv'
<1> DEFINE after == <<Ack("PUBCOMP", Packet1.mid)>>
<1>1. /\ toBroker # <<>> /\ toBroker' = Tail(toBroker)
      /\ mqtt3_db_message_release(Packet1.mid, after)
      /\ UNCHANGED <<last_mid, pending, rec2, got, dups>>
  BY DEF handle_pubrel, Reading, Consume, client
<1>2. Ordered /\ StateFits
  BY DEF SessionInv
<1>3. /\ Acks' \subseteq Acks /\ Recs' \subseteq Recs /\ Comps' \subseteq Comps
      /\ NoneAfter(toBroker, "PUBCOMP", "PUBREC")'
      /\ Packet1 \in Packet
  BY <1>1, <1>2, ConsumeWire
<1>4. after \in Seq(Packet)
  BY <1>3, PacketFields, AckType
<1>5. Of(after, "PUBLISH") = {} /\ Of(after, "PUBREL") = {}
  BY OneAck
<1> HIDE DEF after
<1>6. PICK R \in SUBSET msgs :
         \E f \in Restatements(R) : ReleasedList(Packet1.mid, R, f)
  BY <1>1, ReleaseResult
<1>7. ~dangling' /\ StateFits' /\ OutSame
  <2>1. PICK f \in Restatements(R) : /\ Relists(R, f)
                                     /\ \A m \in msgs \ R : m.dir = "in"
                                     /\ \A m \in R : Promotes(m, f[m])
    BY <1>6 DEF ReleasedList, Matching
  <2>2. \A m \in R : /\ f[m].state \in StatesOf(m.dir, m.qos)
                     /\ m.dir = "out" =>
                           (f[m].state \in Releasing <=> m.state \in Releasing)
    BY <1>2, <2>1, PromotesFit
  <2> QED
    BY <2>1, <2>2, Restates
<1>8. PICK r \in Seq(Packet) : Send(r \o after) /\ PubrecsOnly(r)
  BY <1>1, ReleaseResult
<1>9. /\ r \o after \in Seq(Packet)
      /\ Of(r \o after, "PUBLISH") = {} /\ Of(r \o after, "PUBREL") = {}
  BY <1>4, <1>5, <1>8, OfConcat DEF PubrecsOnly
<1>10. /\ Pubs' \subseteq Pubs /\ Rels' \subseteq Rels
       /\ NoneAfter(toClient, "PUBREL", "PUBLISH")'
  BY <1>2, <1>8, <1>9, SendWire
<1>11. Ordered'
  BY <1>3, <1>10 DEF Ordered
<1> QED
  BY <1>1, <1>3, <1>7, <1>10, <1>11, Quiet

LEMMA QuietTimeout ==
    ASSUME TypeOK, ListInv', SessionInv, mqtt3_db_message_timeout_check
    PROVE  SessionInv'
<1>1. UNCHANGED <<toBroker, toClient, last_mid, pending, rec2, got, dups>>
  BY DEF mqtt3_db_message_timeout_check, wire, client
<1>2. /\ Pubs' = Pubs /\ Rels' = Rels /\ Acks' = Acks /\ Recs' = Recs
      /\ Comps' = Comps /\ Ordered'
  BY <1>1 DEF Pubs, Rels, Acks, Recs, Comps, Ordered, SessionInv
<1>3. PICK f \in Restatements(msgs) :
         /\ Relists(msgs, f)
         /\ \A m \in msgs : \/ f[m] = m
                            \/ /\ m.state \in DOMAIN Retry
                               /\ f[m].state = Retry[m.state]
  BY TimeoutResult
<1>4. ASSUME NEW m \in msgs
      PROVE  /\ f[m].state \in StatesOf(m.dir, m.qos)
             /\ m.dir = "out" => (f[m].state \in Releasing <=> m.state \in Releasing)
  <2>1. m.state \in StatesOf(m.dir, m.qos) /\ m.qos \in 0..2
    BY DEF StateFits, SessionInv, TypeOK, Message
  <2>2. CASE f[m] = m
    BY <2>1, <2>2
  <2>3. CASE m.state \in DOMAIN Retry /\ f[m].state = Retry[m.state]
    BY <2>1, <2>3, RetryStates DEF StatesOf, OutStates, Releasing
  <2> QED
    BY <1>3, <2>2, <2>3
<1>5. ~dangling' /\ StateFits' /\ OutSame
  <2>1. msgs \in SUBSET msgs /\ \A m \in msgs \ msgs : m.dir = "in"
    OBVIOUS
  <2> QED
    BY <1>3, <1>4, <2>1, Restates
<1> QED
  BY <1>1, <1>2, <1>5, Quiet

LEMMA QuietClient ==
    ASSUME TypeOK, ListInv', SessionInv,
           client_publish \/ client_on_pubrec \/ client_on_pubackcomp
           \/ UNCHANGED vars
    PROVE  SessionInv'
<1>1. UNCHANGED <<last_mid, pending, rec2, got, dups>> /\ UNCHANGED list
  BY DEF client_publish, client_on_pubrec, client_on_pubackcomp, vars, client
<1>2. Ordered
  BY DEF SessionInv
<1>3. /\ Pubs' \subseteq Pubs /\ Rels' \subseteq Rels
      /\ NoneAfter(toClient, "PUBREL", "PUBLISH")'
      /\ client_on_pubrec => Head(toClient) \in Packet
  <2>1. CASE client_on_pubrec \/ client_on_pubackcomp
    BY <1>2, <2>1, ClientReadWire
    DEF client_on_pubrec, client_on_pubackcomp, ClientReading
  <2>2. CASE UNCHANGED toClient /\ ~client_on_pubrec
    BY <1>2, <2>2 DEF Pubs, Rels, Ordered
  <2> QED
    BY <2>1, <2>2 DEF client_publish, vars, wire
<1>4. \/ UNCHANGED toBroker
      \/ \E r \in Seq(Packet) :
            /\ ClientSend(r)
            /\ Of(r, "PUBACK") = {} /\ Of(r, "PUBREC") = {} /\ Of(r, "PUBCOMP") = {}
  <2>1. CASE client_publish
    <3>1. PICK m \in InMsgs, q \in InQos : ClientSend(<<ClientPublish(m, q)>>)
      BY <2>1 DEF client_publish
    <3> DEFINE r == <<ClientPublish(m, q)>>
    <3>2. /\ ClientPublish(m, q) \in Packet
          /\ ClientPublish(m, q).type = "PUBLISH"
      BY ClientPublishType
    <3>3. r \in Seq(Packet)
      BY <3>2
    <3>4. Of(r, "PUBACK") = {} /\ Of(r, "PUBREC") = {} /\ Of(r, "PUBCOMP") = {}
      BY <3>2, OfOne
    <3> HIDE DEF r
    <3> QED
      BY <3>1, <3>3, <3>4 DEF r
  <2>2. CASE client_on_pubrec
    <3> DEFINE none == Unfinished(Head(toClient).mid) = {}
               ack == <<Ack("PUBREL", Head(toClient).mid)>>
               r == IF none THEN <<>> ELSE ack
    <3>1. ClientSend(r)
      BY <2>2 DEF client_on_pubrec
    <3>2. ack \in Seq(Packet)
      BY <1>3, <2>2, PacketFields, AckType
    <3>3. Of(ack, "PUBACK") = {} /\ Of(ack, "PUBREC") = {} /\ Of(ack, "PUBCOMP") = {}
      BY OneAck
    <3> HIDE DEF none, ack
    <3>4. /\ r \in Seq(Packet)
          /\ Of(r, "PUBACK") = {} /\ Of(r, "PUBREC") = {} /\ Of(r, "PUBCOMP") = {}
      BY <3>2, <3>3, OfNone
    <3> HIDE DEF r
    <3> QED
      BY <3>1, <3>4
  <2>3. CASE client_on_pubackcomp \/ UNCHANGED vars
    BY <2>3 DEF client_on_pubackcomp, vars, wire
  <2> QED
    BY <2>1, <2>2, <2>3
<1>5. /\ Acks' \subseteq Acks /\ Recs' \subseteq Recs /\ Comps' \subseteq Comps
      /\ NoneAfter(toBroker, "PUBCOMP", "PUBREC")'
  <2>1. CASE UNCHANGED toBroker
    BY <1>2, <2>1 DEF Acks, Recs, Comps, Ordered
  <2>2. ASSUME NEW r \in Seq(Packet), ClientSend(r),
               Of(r, "PUBACK") = {}, Of(r, "PUBREC") = {}, Of(r, "PUBCOMP") = {}
        PROVE  /\ Acks' \subseteq Acks /\ Recs' \subseteq Recs
               /\ Comps' \subseteq Comps
               /\ NoneAfter(toBroker, "PUBCOMP", "PUBREC")'
    BY <1>2, <2>2, ClientSendWire
  <2> QED
    BY <1>4, <2>1, <2>2
<1>6. ~dangling' /\ StateFits' /\ OutSame /\ Ordered'
  BY <1>1, <1>3, <1>5, SameList DEF Ordered
<1> QED
  BY <1>1, <1>3, <1>5, <1>6, Quiet
-----------------------------------------------------------------------------
(* The steps of an outgoing handshake. *)

\* Messages with one id other than 0 are one message.
LEMMA OneOfId ==
    ASSUME IdsUnique, NEW m \in Out, NEW n \in Out, m.mid = n.mid, m.mid # 0
    PROVE  m = n
BY DEF IdsUnique, Carriers, SameTag

\* PUBACK and PUBCOMP: nothing under way needs the message any more.
LEMMA InvPubackcomp ==
    ASSUME TypeOK, ListInv, ListInv', SessionInv, handle_pubackcomp
    PROVE  SessionInv'
<1> USE DEF SessionInv
<1>1. /\ toBroker # <<>> /\ toBroker' = Tail(toBroker)
      /\ Packet1.type \in {"PUBACK", "PUBCOMP"}
      /\ mqtt3_db_message_delete(Packet1.mid, "out")
      /\ UNCHANGED <<last_mid, toClient, pending, rec2, got, dups>>
  BY DEF handle_pubackcomp, Reading, Packet1, Consume, client
<1>2. /\ Acks' \subseteq Acks /\ Recs' \subseteq Recs /\ Comps' \subseteq Comps
      /\ NoneAfter(toBroker, "PUBCOMP", "PUBREC")'
      /\ Packet1.type = "PUBACK" => Packet1 \in Acks
      /\ Packet1.type = "PUBCOMP" =>
            Packet1 \in Comps /\ \A p \in Recs' : p.mid # Packet1.mid
  BY <1>1, ConsumeWire
<1>3. Pubs' = Pubs /\ Rels' = Rels /\ Got' = Got /\ Ordered'
  BY <1>1, <1>2 DEF Pubs, Rels, Got, Ordered
<1>4. PICK R \in SUBSET msgs : \E f \in Restatements(R) :
         /\ Relists(R, f)
         /\ \A m \in msgs \ R : m.mid = Packet1.mid /\ m.dir = "out"
         /\ \A m \in R : Promotes(m, f[m])
  BY <1>1, DeleteResult
<1>5. PICK f \in Restatements(R) : /\ Relists(R, f)
                                   /\ \A m \in R : Promotes(m, f[m])
  BY <1>4
<1>6. /\ ~dangling' /\ OutFrom
      /\ \A n \in Out' : \E m \in R : m \in Out /\ n = f[m] /\ SameMessage(m, n)
      /\ \A m \in R : m \in Out => f[m] \in Out' /\ SameMessage(m, f[m])
  BY <1>5, RelistsOut
<1>7. \A m \in R : /\ f[m].state \in StatesOf(m.dir, m.qos)
                   /\ m \in Out => (f[m].state \in Releasing <=> m.state \in Releasing)
  BY <1>5, PromotesFit DEF Out
<1>8. StateFits'
  BY <1>5, <1>7, RelistsFit
<1>9. \A x \in Carriers' : \E y \in Carriers : SameTag(y, x)
  BY <1>3, <1>6 DEF OutFrom, Carriers, SameTag, SameMessage
<1>10. IdsFresh' /\ IdsUnique'
  BY <1>1, <1>2, <1>3, <1>6, <1>9, TagsKept DEF IdsFresh
<1>11. Acked'
  BY <1>2, <1>3, <1>6, <1>9 DEF Acked, SameMessage, SameTag
<1>12. \A n \in Out' : \E m \in Out :
          SameMessage(m, n) /\ (n.state \in Releasing <=> m.state \in Releasing)
  BY <1>6, <1>7
<1>13. Released'
  BY <1>2, <1>3, <1>12 DEF Released, SameMessage
<1>14. \A m \in Out : m.mid # Packet1.mid => \E n \in Out' : SameMessage(m, n)
  BY <1>4, <1>6 DEF Out
<1>15. Kept'
  <2>1. ASSUME NEW x \in Pubs, x.qos = 2 PROVE x.mid # Packet1.mid
    <3>1. Packet1.type = "PUBACK" => x.mid # Packet1.mid
      BY <1>2, <2>1 DEF Acked, Carriers
    <3> QED
      BY <1>1, <1>2, <3>1 DEF Released
  <2>2. \A x \in Pubs : x.qos = 2 => \E m \in Out' : m.mid = x.mid
    BY <1>14, <2>1 DEF Kept, SameMessage
  <2>3. ASSUME NEW p \in Recs'
        PROVE  \E m \in Out' : m.mid = p.mid /\ m.qos = 2 /\ m.msg \in Got
    <3>1. PICK m \in Out : m.mid = p.mid /\ m.qos = 2 /\ m.msg \in Got
      BY <1>2 DEF Kept
    <3>2. Packet1.type = "PUBACK" => m.mid # Packet1.mid
      BY <1>2, <3>1 DEF Acked, Carriers
    <3>3. m.mid # Packet1.mid
      BY <1>1, <1>2, <3>1, <3>2
    <3> QED
      BY <1>14, <3>1, <3>3 DEF SameMessage
  <2> QED
    BY <1>3, <2>2, <2>3 DEF Kept
<1>16. Remembered'
  <2>1. \A x \in Carriers' : x.qos = 2 /\ x.mid \in rec2 => x.msg \in Got
    BY <1>9 DEF Remembered, SameTag
  <2>2. \A m \in Out' : m.qos = 2 /\ m.state \notin Releasing /\ m.msg \in Got
                           => m.mid \in rec2
    BY <1>12 DEF Remembered, SameMessage
  <2> QED
    BY <1>1, <1>3, <2>1, <2>2 DEF Remembered
<1> QED
  BY <1>1, <1>3, <1>6, <1>8, <1>10, <1>11, <1>13, <1>15, <1>16
  DEF NoDuplicateQos2

\* PUBREC: the only message with its id has been received, and is released.
LEMMA InvPubrec ==
    ASSUME TypeOK, ListInv, ListInv', SessionInv, handle_pubrec
    PROVE  SessionInv'
<1> USE DEF SessionInv
<1> DEFINE mid == Packet1.mid
           r == <<Ack("PUBREL", mid)>>
<1>1. /\ toBroker # <<>> /\ Packet1.type = "PUBREC"
      /\ mqtt3_db_message_update(mid, "out", "wait_for_pubcomp")
      /\ UNCHANGED <<last_mid, pending, rec2, got, dups>>
  BY DEF handle_pubrec, Reading, Packet1, client
<1>2. Packet1 \in Packet /\ Packet1 \in Recs
  BY <1>1, HeadOf DEF Packet1, Recs, TypeOK
<1>3. PICK k \in Out : k.mid = mid /\ k.qos = 2 /\ k.msg \in Got
  BY <1>2 DEF Kept
<1>4. mid \in GivenOut /\ mid # 0
  BY <1>2 DEF IdsFresh, GivenOut
<1>5. Matching(mid, "out") = {k}
  <2>1. \A m \in Out : m.mid = mid => m = k
    BY <1>3, <1>4, OneOfId
  <2> QED
    BY <1>3, <2>1 DEF Matching, Out
<1>6. toBroker' = Tail(toBroker) /\ Send(r)
  BY <1>5 DEF handle_pubrec, Consume
<1>7. /\ Acks' \subseteq Acks /\ Recs' \subseteq Recs /\ Comps' \subseteq Comps
      /\ NoneAfter(toBroker, "PUBCOMP", "PUBREC")'
  BY <1>1, <1>6, ConsumeWire
<1>8. r \in Seq(Packet)
  BY <1>2, PacketFields, AckType
<1>9. Of(r, "PUBLISH") = {} /\ Of(r, "PUBREL") = {Ack("PUBREL", mid)}
  BY OneAck
<1>10. Ack("PUBREL", mid).mid = mid
  BY DEF Ack
<1> HIDE DEF r
<1>11. /\ Pubs' \subseteq Pubs
       /\ \A p \in Rels' : p \in Rels \/ p.mid = mid
       /\ NoneAfter(toClient, "PUBREL", "PUBLISH")'
  BY <1>6, <1>8, <1>9, <1>10, SendWire
<1>12. Got' = Got /\ Ordered'
  BY <1>1, <1>7, <1>11 DEF Got, Ordered
<1>13. "wait_for_pubcomp" \in States
  BY DEF States
<1>14. IsFirst({k}, k)
  BY DEF IsFirst, Before, Out, TypeOK, Message
<1>15. PICK f \in Restatements(msgs) :
          /\ Relists(msgs, f)
          /\ f[k].state = "wait_for_pubcomp"
          /\ \A m \in msgs : m # k => f[m] = m
  <2> DEFINE first(m) == m \in Matching(mid, "out")
                         /\ IsFirst(Matching(mid, "out"), m)
  <2>1. k \in msgs /\ \A m \in msgs : first(m) <=> m = k
    BY <1>5, <1>14 DEF Out
  <2>2. PICK f \in Restatements(msgs) :
           /\ Relists(msgs, f)
           /\ \A m \in msgs : \/ first(m) /\ f[m].state = "wait_for_pubcomp"
                              \/ ~first(m) /\ f[m] = m
    BY <1>1, <1>13, UpdateResult
  <2> HIDE DEF first
  <2> QED
    BY <2>1, <2>2
<1>16. /\ ~dangling' /\ OutFrom
       /\ \A n \in Out' : \E m \in msgs : m \in Out /\ n = f[m] /\ SameMessage(m, n)
       /\ \A m \in msgs : m \in Out => f[m] \in Out' /\ SameMessage(m, f[m])
  <2>1. msgs \in SUBSET msgs
    OBVIOUS
  <2> QED
    BY <1>15, <2>1, RelistsOut
<1>17. StateFits'
  <2>1. k.dir = "out" /\ msgs \in SUBSET msgs
    BY DEF Out
  <2>2. \A m \in msgs : f[m].state \in StatesOf(m.dir, m.qos)
    <3>1. "wait_for_pubcomp" \in StatesOf(k.dir, k.qos)
      BY <1>3, <2>1 DEF StatesOf, OutStates, Releasing
    <3> QED
      BY <1>15, <3>1 DEF StateFits
  <2> QED
    BY <1>15, <2>1, <2>2, RelistsFit
<1>18. \A x \in Carriers' : \E y \in Carriers : SameTag(y, x)
  BY <1>11, <1>16 DEF OutFrom, Carriers, SameTag, SameMessage
<1>19. IdsFresh' /\ IdsUnique'
  BY <1>1, <1>4, <1>7, <1>11, <1>12, <1>16, <1>18, TagsKept DEF IdsFresh
<1>20. Acked'
  BY <1>7, <1>12, <1>16, <1>18 DEF Acked, SameMessage, SameTag
<1>21. \A n \in Out' : \E m \in Out :
          /\ SameMessage(m, n)
          /\ n.state \in Releasing <=> m.state \in Releasing \/ m = k
  BY <1>15, <1>16 DEF Releasing
<1>22. Released'
  <2>1. \A n \in Out' : n.mid = mid => n.state \in Releasing
    BY <1>3, <1>4, <1>21, OneOfId DEF SameMessage
  <2>2. \A p \in (Rels \cup Comps)', n \in Out' :
           n.mid = p.mid => n.state \in Releasing
    BY <1>7, <1>11, <1>21, <2>1 DEF Released, SameMessage
  <2>3. \A n \in Out' : n.state \in Releasing => n.msg \in Got
    BY <1>3, <1>21 DEF Released, SameMessage
  <2> QED
    BY <1>7, <1>11, <1>12, <2>2, <2>3 DEF Released
<1>23. Kept'
  <2>1. \A m \in Out : \E n \in Out' : SameMessage(m, n)
    BY <1>16 DEF Out
  <2> QED
    BY <1>7, <1>11, <1>12, <2>1 DEF Kept, SameMessage
<1>24. Remembered'
  <2>1. \A x \in Carriers' : x.qos = 2 /\ x.mid \in rec2 => x.msg \in Got
    BY <1>18 DEF Remembered, SameTag
  <2>2. \A m \in Out' : m.qos = 2 /\ m.state \notin Releasing /\ m.msg \in Got
                           => m.mid \in rec2
    BY <1>21 DEF Remembered, SameMessage
  <2> QED
    BY <1>1, <1>11, <1>12, <2>1, <2>2 DEF Remembered
<1> QED
  BY <1>1, <1>12, <1>16, <1>17, <1>19, <1>20, <1>22, <1>23, <1>24
  DEF NoDuplicateQos2
\* A message being released has QoS 2, and so an id.
LEMMA ReleasingId ==
    ASSUME TypeOK, StateFits, IdsFresh, NEW m \in Out, m.state \in Releasing
    PROVE  m.qos = 2 /\ m.mid \in GivenOut /\ m.mid # 0
<1>1. m.qos \in 0..2 /\ m.state \in OutStates(m.qos)
  BY DEF Out, TypeOK, Message, StateFits, StatesOf
<1>2. m.qos = 2
  BY <1>1 DEF OutStates, Releasing
<1> QED
  BY <1>2 DEF IdsFresh, Carriers, GivenOut

\* What the pass over the list writes.
LEMMA WrittenFits ==
    ASSUME TypeOK, StateFits, NEW m \in ToWrite
    PROVE  /\ m.dir = "out" => m.state \in {"publish_qos0", "publish_qos1",
                                            "publish_qos2", "resend_pubrel"}
           /\ m.state # "publish_qos0" =>
                 Written(m).state \in StatesOf(m.dir, m.qos)
           /\ m.dir = "out" /\ m.state # "publish_qos0" =>
                 (Written(m).state \in Releasing <=> m.state \in Releasing)
           /\ m.dir = "in" => PacketOf(m).type = "PUBREC"
<1>1. /\ m \in Message /\ m.state \in StatesOf(m.dir, m.qos)
      /\ m.qos \in 0..2 /\ m.dir \in {"out", "in"}
  BY DEF ToWrite, TypeOK, StateFits, Message
<1>2. \/ m.dir = "in" /\ m.state = "queued"
      \/ m.state \in {"publish_qos0", "publish_qos1", "publish_qos2", "send_pubrec",
                      "resend_pubrel"}
  BY DEF ToWrite, Resumes
<1>3. CASE m.dir = "out"
  <2>1. m.state \in {"publish_qos0", "publish_qos1", "publish_qos2", "resend_pubrel"}
    BY <1>1, <1>2, <1>3 DEF StatesOf, OutStates, Releasing
  <2> QED
    BY <1>1, <1>3, <2>1, WrittenResult DEF StatesOf, OutStates, Releasing
<1>4. CASE m.dir = "in"
  <2>1. m.state \in {"queued", "send_pubrec"}
    BY <1>1, <1>2, <1>4 DEF StatesOf
  <2>2. Written(m).state = "wait_for_pubrel"
    BY <1>1, <2>1, WrittenResult
  <2> QED
    BY <1>1, <1>4, <2>1, <2>2, PacketOfType DEF StatesOf
<1> QED
  BY <1>1, <1>3, <1>4

\* The pass of the main loop sends what its messages still have to say.
LEMMA InvWrite ==
    ASSUME TypeOK, ListInv, ListInv', SessionInv, mqtt3_db_message_write
    PROVE  SessionInv'
<1> USE DEF SessionInv
<1>1. /\ WriteOut(ToWrite, {}) /\ ToWrite \in SUBSET msgs
      /\ UNCHANGED <<last_mid, toBroker, pending, rec2, got, dups>>
  BY DEF mqtt3_db_message_write, ToWrite, client
<1>2. /\ Acks' = Acks /\ Recs' = Recs /\ Comps' = Comps /\ Got' = Got
      /\ NoneAfter(toBroker, "PUBCOMP", "PUBREC")'
  BY <1>1 DEF Acks, Recs, Comps, Got, Ordered
<1>3. PICK r \in Seq(Packet) :
         /\ Send(r)
         /\ \A t : Of(r, t) \subseteq {PacketOf(m) : m \in ToWrite}
  BY <1>1, WriteOutResult
<1>4. ASSUME NEW x \in Of(r, "PUBLISH")
      PROVE  \E m \in Out : SameTag(m, x) /\ m.state \notin Releasing
                            /\ m \in ToWrite
  <2>1. PICK m \in ToWrite : x = PacketOf(m) /\ x.type = "PUBLISH"
    BY <1>3 DEF Of
  <2>2. m \in Message /\ m \in msgs
    BY <1>1 DEF TypeOK
  <2>3. m.dir = "out"
    BY <2>1, <2>2, WrittenFits DEF Message
  <2> QED
    BY <2>1, <2>2, <2>3, PacketOfType DEF Out, Releasing
<1>5. ASSUME NEW p \in Of(r, "PUBREL")
      PROVE  \E m \in Out : m.mid = p.mid /\ m.state \in Releasing
  <2>1. PICK m \in ToWrite : p = PacketOf(m) /\ p.type = "PUBREL"
    BY <1>3 DEF Of
  <2>2. m \in Message /\ m \in msgs
    BY <1>1 DEF TypeOK
  <2>3. m.dir = "out"
    BY <2>1, <2>2, WrittenFits DEF Message
  <2> QED
    BY <2>1, <2>2, <2>3, PacketOfType DEF Out, Releasing
<1>6. ASSUME NEW p \in Rels \cup Comps \cup Of(r, "PUBREL"), NEW m \in Out,
             m.mid = p.mid
      PROVE  m.state \in Releasing
  <2>1. CASE p \in Rels \cup Comps
    BY <1>6, <2>1 DEF Released
  <2>2. CASE p \in Of(r, "PUBREL")
    <3>1. PICK n \in Out : n.mid = p.mid /\ n.state \in Releasing
      BY <1>5, <2>2
    <3>2. n = m
      BY <1>6, <3>1, ReleasingId, OneOfId
    <3> QED
      BY <3>1, <3>2
  <2> QED
    BY <2>1, <2>2
<1>7. \A p \in Rels \cup Comps \cup Of(r, "PUBREL"), x \in Of(r, "PUBLISH") :
         p.mid # x.mid
  BY <1>4, <1>6 DEF SameTag
<1>8. /\ Pubs' \subseteq Pubs \cup Of(r, "PUBLISH")
      /\ Rels' \subseteq Rels \cup Of(r, "PUBREL")
      /\ Ordered'
  BY <1>2, <1>3, <1>7, SendWire DEF Ordered
<1>9. PICK R \in SUBSET msgs :
         \E f \in Restatements(R) : WrittenList(ToWrite, {}, R, f)
  BY <1>1, WriteOutResult
<1>10. PICK f \in Restatements(R) :
         /\ Relists(R, f)
         /\ \A m \in msgs \ R : m \in ToWrite /\ m.state = "publish_qos0"
         /\ \A m \in R : IF m \in ToWrite
                         THEN m.state # "publish_qos0" /\ f[m] = Written(m)
                         ELSE f[m] = m
  BY <1>9 DEF WrittenList
<1>11. /\ ~dangling' /\ OutFrom
       /\ \A n \in Out' : \E m \in R : m \in Out /\ n = f[m] /\ SameMessage(m, n)
       /\ \A m \in R : m \in Out => f[m] \in Out' /\ SameMessage(m, f[m])
  BY <1>10, RelistsOut
<1>12. \A m \in R : /\ f[m].state \in StatesOf(m.dir, m.qos)
                    /\ m \in Out => (f[m].state \in Releasing <=> m.state \in Releasing)
  BY <1>10, WrittenFits DEF Out, StateFits
<1>13. StateFits'
  BY <1>10, <1>12, RelistsFit
<1>14. \A n \in Out' : \E m \in Out :
          SameMessage(m, n) /\ (n.state \in Releasing <=> m.state \in Releasing)
  BY <1>11, <1>12
<1>15. \A x \in Carriers' : \E y \in Carriers : SameTag(y, x)
  BY <1>4, <1>8, <1>14 DEF Carriers, SameTag, SameMessage
<1>16. \A p \in Rels' : p.mid \in GivenOut
  BY <1>5, <1>8, ReleasingId DEF IdsFresh
<1>17. IdsFresh' /\ IdsUnique'
  BY <1>1, <1>2, <1>11, <1>15, <1>16, TagsKept DEF IdsFresh
<1>18. Acked'
  BY <1>2, <1>14, <1>15 DEF Acked, SameMessage, SameTag
<1>19. Released'
  <2>1. \A p \in (Rels \cup Comps)', m \in Out' :
           m.mid = p.mid => m.state \in Releasing
    BY <1>2, <1>6, <1>8, <1>14 DEF SameMessage
  <2>2. \A m \in Out' : m.state \in Releasing => m.msg \in Got
    BY <1>14 DEF Released, SameMessage
  <2>3. \A p \in Comps, x \in Pubs' : x.mid # p.mid
    BY <1>7, <1>8 DEF Released
  <2> QED
    BY <1>2, <2>1, <2>2, <2>3 DEF Released
<1>20. Kept'
  <2>1. ASSUME NEW m \in Out, m.qos # 0 PROVE \E n \in Out' : SameMessage(m, n)
    <3>1. m.state # "publish_qos0"
      <4>1. m.qos \in 0..2 /\ m.state \in OutStates(m.qos)
        BY DEF Out, TypeOK, Message, StateFits, StatesOf
      <4> QED
        BY <2>1, <4>1 DEF OutStates, Releasing
    <3> QED
      BY <1>10, <1>11, <3>1 DEF Out
  <2>2. \A x \in Pubs' : x.qos = 2 => \E m \in Out : m.mid = x.mid /\ m.qos # 0
    <3>1. \A x \in Pubs : x.qos = 2 => \E m \in Out : m.mid = x.mid /\ m.qos # 0
      BY DEF Kept, IdsFresh, Carriers, GivenOut
    <3> QED
      BY <1>4, <1>8, <3>1 DEF SameTag
  <2>3. \A x \in Pubs' : x.qos = 2 => \E n \in Out' : n.mid = x.mid
    BY <2>1, <2>2 DEF SameMessage
  <2>4. \A p \in Recs : \E n \in Out' : n.mid = p.mid /\ n.qos = 2 /\ n.msg \in Got
    BY <2>1 DEF Kept, SameMessage
  <2> QED
    BY <1>2, <2>3, <2>4 DEF Kept
<1>21. Remembered'
  <2>1. \A x \in Carriers' : x.qos = 2 /\ x.mid \in rec2 => x.msg \in Got
    BY <1>15 DEF Remembered, SameTag
  <2>2. \A m \in Out' : m.qos = 2 /\ m.state \notin Releasing /\ m.msg \in Got
                           => m.mid \in rec2
    BY <1>14 DEF Remembered, SameMessage
  <2>3. \A x \in Pubs' : x.qos = 2 /\ x.msg \in Got => x.mid \in rec2
    BY <1>4, <1>8 DEF Remembered, SameTag
  <2> QED
    BY <1>1, <1>2, <2>1, <2>2, <2>3 DEF Remembered
<1> QED
  BY <1>1, <1>8, <1>11, <1>13, <1>17, <1>18, <1>19, <1>20, <1>21
  DEF NoDuplicateQos2
\* What the client has received, after one more message.
LEMMA GotAppend ==
    ASSUME TypeOK, NEW x \in OutMsgs \cup InMsgs
    PROVE  /\ Seen(x) <=> x \in Got
           /\ got' = Append(got, x) => Got' = Got \cup {x}
           /\ got' = got => Got' = Got
<1>1. got \in Seq(OutMsgs \cup InMsgs)
  BY DEF TypeOK
<1>2. /\ Len(got) \in Nat /\ Len(Append(got, x)) = Len(got) + 1
      /\ \A i \in 1..Len(got) : Append(got, x)[i] = got[i]
      /\ Append(got, x)[Len(got) + 1] = x
  BY <1>1, AppendProperties, LenProperties
<1>3. ASSUME got' = Append(got, x) PROVE Got' = Got \cup {x}
  <2>1. \A i \in 1..Len(got') : \/ i \in 1..Len(got) /\ got'[i] = got[i]
                                \/ got'[i] = x
    BY <1>2, <1>3
  <2>2. /\ \A i \in 1..Len(got) : i \in 1..Len(got') /\ got'[i] = got[i]
        /\ Len(got) + 1 \in 1..Len(got') /\ got'[Len(got) + 1] = x
    BY <1>2, <1>3
  <2> QED
    BY <2>1, <2>2 DEF Got
<1> QED
  BY <1>3 DEF Got, Seen

\* PUBLISH: the client knows a QoS 2 message by its id until it is released.
LEMMA InvClientPublish ==
    ASSUME TypeOK, ListInv, ListInv', SessionInv, client_on_publish
    PROVE  SessionInv'
<1> USE DEF SessionInv
<1> DEFINE p == Head(toClient)
           new == p.qos < 2 \/ p.mid \notin rec2
           ans == CASE p.qos = 0 -> <<>>
                    [] p.qos = 1 -> <<Ack("PUBACK", p.mid)>>
                    [] p.qos = 2 -> <<Ack("PUBREC", p.mid)>>
<1>1. /\ toClient # <<>> /\ p.type = "PUBLISH" /\ toClient' = Tail(toClient)
      /\ got' = IF new /\ ~Seen(p.msg) THEN Append(got, p.msg) ELSE got
      /\ dups' = IF p.qos = 2 /\ new /\ Seen(p.msg) THEN dups \cup {p.msg} ELSE dups
      /\ rec2' = IF p.qos = 2 THEN rec2 \cup {p.mid} ELSE rec2
      /\ ClientSend(ans)
      /\ UNCHANGED <<last_mid, pending>> /\ UNCHANGED list
  BY DEF client_on_publish, ClientReading
<1>2. /\ Pubs' \subseteq Pubs /\ Rels' \subseteq Rels
      /\ NoneAfter(toClient, "PUBREL", "PUBLISH")'
      /\ p \in Packet /\ p \in Pubs /\ p \in Carriers
  BY <1>1, ClientReadWire DEF Carriers
<1>3. p.mid \in Mids /\ p.qos \in 0..2 /\ p.msg \in OutMsgs \cup InMsgs
  BY <1>1, <1>2, PacketFields
<1>4. ans \in Seq(Packet)
  BY <1>3, AckType
<1>5. /\ \A a \in Of(ans, "PUBACK") : p.qos = 1 /\ a.mid = p.mid
      /\ \A a \in Of(ans, "PUBREC") : p.qos = 2 /\ a.mid = p.mid
      /\ Of(ans, "PUBCOMP") = {}
  <2>1. Ack("PUBACK", p.mid).mid = p.mid /\ Ack("PUBREC", p.mid).mid = p.mid
    BY DEF Ack
  <2> DEFINE ack == <<Ack("PUBACK", p.mid)>>
             rec == <<Ack("PUBREC", p.mid)>>
  <2>2. /\ Of(ack, "PUBACK") = {Ack("PUBACK", p.mid)}
        /\ Of(ack, "PUBREC") = {} /\ Of(ack, "PUBCOMP") = {}
    BY OneAck
  <2>3. /\ Of(rec, "PUBREC") = {Ack("PUBREC", p.mid)}
        /\ Of(rec, "PUBACK") = {} /\ Of(rec, "PUBCOMP") = {}
    BY OneAck
  <2>4. \/ p.qos = 0 /\ ans = <<>>
        \/ p.qos = 1 /\ ans = ack
        \/ p.qos = 2 /\ ans = rec
    BY <1>3
  <2> HIDE DEF ack, rec, ans
  <2> QED
    BY <2>1, <2>2, <2>3, <2>4, OfNone
<1> HIDE DEF ans, p
<1>6. \A c \in Comps : c.mid # p.mid
  BY <1>2 DEF Released
<1>7. /\ Acks' \subseteq Acks \cup Of(ans, "PUBACK")
      /\ Recs' \subseteq Recs \cup Of(ans, "PUBREC")
      /\ Comps' \subseteq Comps
      /\ NoneAfter(toBroker, "PUBCOMP", "PUBREC")'
  BY <1>1, <1>4, <1>5, <1>6, ClientSendWire
<1>8. Ordered'
  BY <1>2, <1>7 DEF Ordered
<1>9. Seen(p.msg) <=> p.msg \in Got
  BY <1>3, GotAppend
<1>10. Got' = Got \cup {p.msg}
  <2>1. ~new => p.msg \in Got
    BY <1>2, <1>3 DEF Remembered
  <2>2. got' = Append(got, p.msg) \/ (got' = got /\ p.msg \in Got)
    BY <1>1, <1>9, <2>1
  <2> QED
    BY <1>3, <2>2, GotAppend
<1>11. dups' = {}
  BY <1>1, <1>2, <1>9 DEF Remembered, NoDuplicateQos2
<1>12. /\ IF p.qos = 0 THEN p.mid = 0 ELSE p.mid \in GivenOut /\ p.mid # 0
       /\ p.msg \in OutMsgs \ pending
  BY <1>2 DEF IdsFresh, GivenOut
<1>13. Out' = Out /\ ~dangling' /\ StateFits'
  BY <1>1 DEF Out, list, StateFits
<1>14. Carriers' \subseteq Carriers /\ OutFrom
  BY <1>2, <1>13 DEF Carriers, OutFrom, SameMessage
<1>15. \A x \in Carriers : p.qos # 0 /\ x.mid = p.mid => SameTag(x, p)
  BY <1>2, <1>12 DEF IdsUnique
<1>16. IdsFresh' /\ IdsUnique'
  <2>1. \A x \in Carriers' : \E y \in Carriers : SameTag(y, x)
    BY <1>14 DEF SameTag
  <2>2. \A a \in (Rels \cup Acks \cup Recs \cup Comps)' : a.mid \in GivenOut
    BY <1>2, <1>5, <1>7, <1>12 DEF IdsFresh
  <2>3. rec2' \subseteq GivenOut /\ Got' \subseteq OutMsgs \ pending
    BY <1>1, <1>10, <1>12 DEF IdsFresh
  <2> QED
    BY <1>1, <1>14, <2>1, <2>2, <2>3, TagsKept
<1>17. Acked'
  BY <1>5, <1>7, <1>10, <1>13, <1>14, <1>15 DEF Acked, SameTag, Carriers
<1>18. Released'
  BY <1>2, <1>7, <1>10, <1>13 DEF Released
<1>19. Kept'
  <2>1. p.qos = 2 => \E m \in Out : m.mid = p.mid /\ m.qos = 2 /\ m.msg = p.msg
    BY <1>2, <1>15 DEF Kept, SameTag, Carriers
  <2>2. \A a \in Recs' : \E m \in Out : m.mid = a.mid /\ m.qos = 2 /\ m.msg \in Got'
    BY <1>5, <1>7, <1>10, <2>1 DEF Kept
  <2> QED
    BY <1>2, <1>13, <2>2 DEF Kept
<1>20. Remembered'
  <2>1. \A x \in Carriers' : x.qos = 2 /\ x.mid \in rec2' => x.msg \in Got'
    BY <1>1, <1>10, <1>14, <1>15 DEF Remembered, SameTag
  <2>2. ASSUME NEW x \in Carriers, x.qos = 2, x.msg = p.msg PROVE x.mid \in rec2'
    BY <1>1, <1>2, <2>2 DEF IdsUnique, SameTag
  <2>3. \A m \in Out : m.qos = 2 /\ m.state \notin Releasing /\ m.msg \in Got'
                          => m.mid \in rec2'
    BY <1>1, <1>10, <2>2 DEF Remembered, Carriers
  <2>4. \A x \in Pubs' : x.qos = 2 /\ x.msg \in Got' => x.mid \in rec2'
    BY <1>1, <1>2, <1>10, <2>2 DEF Remembered, Carriers
  <2> QED
    BY <1>13, <2>1, <2>3, <2>4 DEF Remembered
<1> QED
  BY <1>8, <1>11, <1>13, <1>16, <1>17, <1>18, <1>19, <1>20 DEF NoDuplicateQos2

\* PUBREL: no PUBLISH of the message can follow, so its id is forgotten.
LEMMA InvClientPubrel ==
    ASSUME TypeOK, ListInv, ListInv', SessionInv, client_on_pubrel
    PROVE  SessionInv'
<1> USE DEF SessionInv
<1> DEFINE p == Head(toClient)
           ans == <<Ack("PUBCOMP", p.mid)>>
<1>1. /\ toClient # <<>> /\ p.type = "PUBREL" /\ toClient' = Tail(toClient)
      /\ rec2' = rec2 \ {p.mid}
      /\ ClientSend(ans)
      /\ UNCHANGED <<last_mid, pending, got, dups>> /\ UNCHANGED list
  BY DEF client_on_pubrel, ClientReading
<1>2. /\ Pubs' \subseteq Pubs /\ Rels' \subseteq Rels
      /\ NoneAfter(toClient, "PUBREL", "PUBLISH")'
      /\ p \in Packet /\ p \in Rels
      /\ \A x \in Pubs' : x.mid # p.mid
  BY <1>1, ClientReadWire
<1>3. ans \in Seq(Packet)
  BY <1>2, PacketFields, AckType
<1>4. /\ Of(ans, "PUBACK") = {} /\ Of(ans, "PUBREC") = {}
      /\ \A a \in Of(ans, "PUBCOMP") : a.mid = p.mid
  <2>1. Ack("PUBCOMP", p.mid).mid = p.mid
    BY DEF Ack
  <2>2. /\ Of(ans, "PUBACK") = {} /\ Of(ans, "PUBREC") = {}
        /\ Of(ans, "PUBCOMP") = {Ack("PUBCOMP", p.mid)}
    BY OneAck
  <2> HIDE DEF ans
  <2> QED
    BY <2>1, <2>2
<1> HIDE DEF ans, p
<1>5. /\ Acks' \subseteq Acks /\ Recs' \subseteq Recs
      /\ Comps' \subseteq Comps \cup Of(ans, "PUBCOMP")
      /\ NoneAfter(toBroker, "PUBCOMP", "PUBREC")'
  BY <1>1, <1>3, <1>4, ClientSendWire
<1>6. Ordered' /\ Got' = Got
  BY <1>1, <1>2, <1>5 DEF Ordered, Got
<1>7. Out' = Out /\ ~dangling' /\ StateFits'
  BY <1>1 DEF Out, list, StateFits
<1>8. Carriers' \subseteq Carriers /\ OutFrom
  BY <1>2, <1>7 DEF Carriers, OutFrom, SameMessage
<1>9. IdsFresh' /\ IdsUnique'
  <2>1. \A x \in Carriers' : \E y \in Carriers : SameTag(y, x)
    BY <1>8 DEF SameTag
  <2>2. \A a \in (Rels \cup Acks \cup Recs \cup Comps)' : a.mid \in GivenOut
    BY <1>2, <1>4, <1>5 DEF IdsFresh
  <2>3. rec2' \subseteq GivenOut /\ Got' \subseteq OutMsgs \ pending
    BY <1>1, <1>6 DEF IdsFresh
  <2> QED
    BY <1>1, <1>8, <2>1, <2>2, <2>3, TagsKept
<1>10. Acked'
  BY <1>5, <1>6, <1>7, <1>8 DEF Acked
<1>11. Released'
  BY <1>2, <1>4, <1>5, <1>6, <1>7 DEF Released
<1>12. Kept'
  BY <1>2, <1>5, <1>6, <1>7 DEF Kept
<1>13. \A m \in Out : m.mid = p.mid => m.state \in Releasing
  BY <1>2 DEF Released
<1>14. Remembered'
  BY <1>1, <1>2, <1>6, <1>7, <1>8, <1>13 DEF Remembered
<1> QED
  BY <1>1, <1>6, <1>7, <1>9, <1>10, <1>11, <1>12, <1>14 DEF NoDuplicateQos2
\* A message published to the session: its id is new as long as there are ids.
LEMMA InvSubsProcess ==
    ASSUME TypeOK, ListInv, ListInv', SessionInv, subs_process,
           Cardinality(OutMsgs) <= LastMid
    PROVE  SessionInv'
<1> USE DEF SessionInv
<1>1. PICK q \in OutQos, k \in pending :
         /\ pending' = pending \ {k}
         /\ last_mid' = IF q > 0 THEN mid_generate ELSE last_mid
         /\ mqtt3_db_message_insert(k, IF q > 0 THEN mid_generate ELSE 0, "out", q)
  BY DEF subs_process
<1>2. /\ UNCHANGED <<toBroker, toClient>> /\ UNCHANGED <<rec2, got, dups>>
  BY DEF subs_process, wire, client
<1>3. /\ Pubs' = Pubs /\ Rels' = Rels /\ Acks' = Acks /\ Recs' = Recs
      /\ Comps' = Comps /\ Got' = Got /\ Ordered'
  BY <1>2 DEF Pubs, Rels, Acks, Recs, Comps, Got, Ordered
<1>4. /\ q \in 0..2 /\ k \in OutMsgs /\ last_mid \in Nat /\ LastMid \in Nat
      /\ IsFiniteSet(pending) /\ IsFiniteSet(OutMsgs)
  <2>1. pending \subseteq OutMsgs /\ IsFiniteSet(OutMsgs)
    BY SessionAssumption DEF TypeOK
  <2>2. IsFiniteSet(pending) /\ k \in OutMsgs
    BY <1>1, <2>1, FS_Subset
  <2>3. q \in 0..2 /\ LastMid \in Nat /\ last_mid \in Nat
    BY SessionAssumption DEF TypeOK
  <2> QED
    BY <2>1, <2>2, <2>3
<1>5. /\ Cardinality(pending) \in Nat /\ Cardinality(OutMsgs) \in Nat
      /\ Cardinality(pending') = Cardinality(pending) - 1
      /\ Cardinality(pending) # 0
  BY <1>1, <1>4, FS_CardinalityType, FS_RemoveElement, FS_EmptySet
<1>6. last_mid + Cardinality(pending) <= Cardinality(OutMsgs)
  BY DEF IdsFresh
<1>7. mid_generate = last_mid + 1
  BY <1>4, <1>5, <1>6 DEF mid_generate
<1> DEFINE mid == IF q > 0 THEN mid_generate ELSE 0
           new == Appended(k, mid, "out", q)
<1>8. /\ last_mid' \in Nat /\ GivenOut \subseteq GivenOut' /\ mid \notin GivenOut
      /\ IF q = 0 THEN mid = 0 ELSE mid \in GivenOut'
      /\ last_mid' + Cardinality(pending') <= Cardinality(OutMsgs)
  BY <1>1, <1>4, <1>5, <1>6, <1>7 DEF GivenOut
<1>9. mid \in Mids
  BY <1>4, <1>5, <1>6, <1>7 DEF Mids
<1>10. /\ new.dir = "out" /\ new.msg = k /\ new.mid = mid /\ new.qos = q
       /\ new.state = InsertState("out", q)
  BY DEF Appended
<1>11. mqtt3_db_message_insert(k, mid, "out", q) /\ k \in OutMsgs \cup InMsgs
  BY <1>1, <1>4
<1> HIDE DEF mid
<1>12. /\ ~dangling'
       /\ \/ msgs' = msgs
          \/ InsertState("out", q) # "dropped" /\ msgs' = msgs \cup {new}
  BY <1>4, <1>9, <1>11, InsertResult DEF list
<1> HIDE DEF new
<1>13. InsertState("out", q) # "dropped" =>
          new.state \in OutStates(q) /\ new.state \notin Releasing
  <2>1. InsertState("out", q) \in {PublishState(q), "queued", "dropped"}
        /\ (q = 0 => InsertState("out", q) # "queued")
    BY <1>4, InsertStateType
  <2> QED
    BY <1>4, <1>10, <2>1, PublishStateType DEF OutStates, Releasing
<1>14. StateFits'
  BY <1>10, <1>12, <1>13 DEF StateFits, StatesOf
<1>15. /\ Out \subseteq Out'
       /\ \A n \in Out' : n \in Out \/ (n = new /\ new.state \notin Releasing)
  BY <1>10, <1>12, <1>13 DEF Out
<1>16. \A x \in Carriers' : x \in Carriers \/ x = new
  BY <1>3, <1>15 DEF Carriers
<1>17. k \notin Got /\ \A x \in Carriers : x.msg # k
  BY <1>1 DEF IdsFresh
<1>18. \A x \in Carriers : x.mid = mid => x.mid = 0
  BY <1>8 DEF IdsFresh
<1>19. IdsFresh'
  <2>1. \A x \in Carriers' : /\ IF x.qos = 0 THEN x.mid = 0 ELSE x.mid \in GivenOut'
                             /\ x.msg \in OutMsgs \ pending'
    BY <1>1, <1>4, <1>8, <1>10, <1>16 DEF IdsFresh
  <2>2. Got' \subseteq OutMsgs \ pending'
    BY <1>1, <1>3 DEF IdsFresh
  <2>3. rec2' \subseteq GivenOut'
    BY <1>2, <1>8 DEF IdsFresh
  <2>4. \A p \in (Rels \cup Acks \cup Recs \cup Comps)' : p.mid \in GivenOut'
    BY <1>3, <1>8 DEF IdsFresh
  <2> QED
    BY <1>8, <2>1, <2>2, <2>3, <2>4 DEF IdsFresh
<1>20. IdsUnique'
  <2>1. \A x, y \in Carriers' :
           x.msg = y.msg \/ (x.mid = y.mid /\ x.mid # 0) => SameTag(x, y)
    BY <1>10, <1>16, <1>17, <1>18 DEF IdsUnique, SameTag
  <2>2. \A m, n \in Out' : m.msg = n.msg => m = n
    BY <1>10, <1>15, <1>17 DEF IdsUnique, Carriers
  <2> QED
    BY <2>1, <2>2 DEF IdsUnique
<1>21. \A p \in Rels \cup Acks \cup Recs \cup Comps : p.mid # new.mid
  BY <1>8, <1>10 DEF IdsFresh
<1>22. Acked'
  BY <1>3, <1>15, <1>16, <1>21 DEF Acked
<1>23. Released'
  BY <1>3, <1>15, <1>21 DEF Released
<1>24. Kept'
  BY <1>3, <1>15 DEF Kept
<1>25. Remembered'
  <2>1. new.mid \notin rec2 /\ new.msg \notin Got
    BY <1>8, <1>10, <1>17 DEF IdsFresh
  <2> QED
    BY <1>2, <1>3, <1>15, <1>16, <2>1 DEF Remembered
<1> QED
  BY <1>2, <1>3, <1>12, <1>14, <1>19, <1>20, <1>22, <1>23, <1>24, <1>25
  DEF NoDuplicateQos2
-----------------------------------------------------------------------------
\* Ids do not wrap: the session is told of no more messages than there are ids.
IdsSuffice == Cardinality(OutMsgs) <= LastMid

Connected == Init /\ [][Exchange]_vars

LEMMA DeliveryInvariant ==
    IdsSuffice => (Connected => [](TypeOK /\ ListInv /\ SessionInv))
<1> SUFFICES ASSUME IdsSuffice
             PROVE  Connected => [](TypeOK /\ ListInv /\ SessionInv)
  OBVIOUS
<1>1. ASSUME Init PROVE SessionInv
  <2> USE <1>1 DEF Init
  <2>1. /\ Pubs = {} /\ Rels = {} /\ Acks = {} /\ Recs = {} /\ Comps = {}
    BY OfNone DEF Pubs, Rels, Acks, Recs, Comps
  <2>2. Out = {} /\ Got = {} /\ rec2 = {} /\ Ordered
    BY DEF Out, Got, Ordered, NoneAfter
  <2>3. last_mid + Cardinality(pending) <= Cardinality(OutMsgs)
    BY SessionAssumption, FS_CardinalityType
  <2> QED
    BY <2>1, <2>2, <2>3 DEF SessionInv, StateFits, IdsFresh, IdsUnique, Acked,
       Released, Kept, Remembered, Carriers, NoDuplicateQos2
<1>2. ASSUME TypeOK, ListInv, ListInv', SessionInv, [Exchange]_vars
      PROVE  SessionInv'
  BY <1>2, QuietPublish, QuietPubrel, QuietTimeout, QuietClient, InvPubackcomp,
     InvPubrec, InvWrite, InvClientPublish, InvClientPubrel, InvSubsProcess
  DEF Exchange, Loop, Receive, IdsSuffice
<1>3. Connected => Spec
  <2>1. [Exchange]_vars => [Next]_vars
    BY DEF Next
  <2> QED
    BY <2>1, PTL DEF Connected, Spec
<1> QED
  BY <1>1, <1>2, <1>3, BaseInvariant, PTL DEF Connected

LEMMA ConnectedMeans == ConnectedSpec => Connected
BY PTL DEF ConnectedSpec, Connected

\* A QoS 2 message reaches the client's application once, however often the
\* retry timer sends PUBLISH or PUBREL again and whatever is under way meanwhile.
THEOREM NeverDuplicated == IdsSuffice => (ConnectedSpec => []NoDuplicateQos2)
<1>1. SessionInv => NoDuplicateQos2
  BY DEF SessionInv
<1> QED
  BY <1>1, DeliveryInvariant, ConnectedMeans, PTL

\* handle_pubrec finds the message of every PUBREC, and so never closes the
\* connection of a client that follows the protocol.
THEOREM PubrecAlwaysKnown == IdsSuffice => (ConnectedSpec => []PubrecKnown)
<1>1. TypeOK /\ SessionInv => PubrecKnown
  <2> SUFFICES ASSUME TypeOK, SessionInv, Reading("PUBREC")
               PROVE  Matching(Packet1.mid, "out") # {}
    BY DEF PubrecKnown
  <2>1. Packet1 \in Recs
    BY HeadOf DEF Reading, Packet1, Recs, TypeOK
  <2> QED
    BY <2>1 DEF SessionInv, Kept, Out, Matching
<1> QED
  BY <1>1, DeliveryInvariant, ConnectedMeans, PTL
\* What a step may forget.
Forgets(m) == ~(\E n \in msgs' : n.ord = m.ord)

\* A list that keeps a message, in whatever state, does not forget it.
LEMMA KeptInList ==
    ASSUME NEW R \in SUBSET msgs, NEW f \in Restatements(R), Relists(R, f),
           NEW m \in R
    PROVE  ~Forgets(m)
<1>1. f[m] \in msgs' /\ f[m].ord = m.ord
  BY DEF Relists, Restatements, SameMessage
<1> QED
  BY <1>1 DEF Forgets

LEMMA InsertKeeps ==
    ASSUME TypeOK, ListInv,
           NEW msg \in OutMsgs \cup InMsgs, NEW mid \in Mids,
           NEW dir \in {"out", "in"}, NEW qos \in 0..2,
           mqtt3_db_message_insert(msg, mid, dir, qos), NEW m \in msgs
    PROVE  ~Forgets(m)
<1>1. msgs \subseteq msgs'
  BY InsertResult DEF list
<1> QED
  BY <1>1 DEF Forgets

\* The broker forgets an outgoing QoS 1 or 2 message only after the client has
\* received it: PUBACK and PUBCOMP delete it whatever its state, and no other
\* handler, promotion or retry loses it.
THEOREM ForgottenOnlyDelivered ==
    IdsSuffice => (ConnectedSpec => DeliveredBeforeForgotten)
<1>1. ASSUME TypeOK, ListInv, SessionInv, [Exchange]_vars,
             NEW m \in msgs, m.dir = "out", m.qos > 0, Forgets(m)
      PROVE  Seen(m.msg)
  <2>0. m \in Out /\ m.mid \in GivenOut /\ m.msg \in OutMsgs
    BY <1>1 DEF Out, SessionInv, IdsFresh, Carriers, TypeOK, Message
  <2>1. CASE handle_pubackcomp
    <3>1. /\ toBroker # <<>> /\ toBroker' = Tail(toBroker)
          /\ Packet1.type \in {"PUBACK", "PUBCOMP"}
          /\ mqtt3_db_message_delete(Packet1.mid, "out")
      BY <2>1 DEF handle_pubackcomp, Reading, Packet1, Consume
    <3>2. PICK R \in SUBSET msgs : \E f \in Restatements(R) :
             /\ Relists(R, f)
             /\ \A n \in msgs \ R : n.mid = Packet1.mid /\ n.dir = "out"
             /\ \A n \in R : Promotes(n, f[n])
      BY <1>1, <3>1, DeleteResult
    <3>3. m.mid = Packet1.mid
      BY <1>1, <3>2, KeptInList
    <3>4. Packet1 \in Acks \cup Comps
      BY <1>1, <3>1, ConsumeWire DEF SessionInv
    <3>5. m.msg \in Got
      BY <1>1, <2>0, <3>3, <3>4 DEF SessionInv, Acked, Released
    <3> QED
      BY <1>1, <2>0, <3>5, GotAppend
  <2>2. CASE mqtt3_db_message_write
    <3>1. WriteOut(ToWrite, {}) /\ ToWrite \in SUBSET msgs
      BY <2>2 DEF mqtt3_db_message_write, ToWrite
    <3>2. PICK R \in SUBSET msgs :
             \E f \in Restatements(R) : WrittenList(ToWrite, {}, R, f)
      BY <1>1, <3>1, WriteOutResult
    <3>3. m \in R
      <4>1. m.state # "publish_qos0"
        <5>1. m.qos \in 0..2 /\ m.state \in OutStates(m.qos)
          BY <1>1 DEF SessionInv, TypeOK, Message, StateFits, StatesOf
        <5> QED
          BY <1>1, <5>1 DEF OutStates, Releasing
      <4> QED
        BY <1>1, <3>2, <4>1 DEF WrittenList
    <3> QED
      BY <1>1, <3>2, <3>3, KeptInList DEF WrittenList
  <2>3. CASE subs_process
    <3>1. PICK q \in OutQos, k \in pending :
             mqtt3_db_message_insert(k, IF q > 0 THEN mid_generate ELSE 0, "out", q)
      BY <2>3 DEF subs_process
    <3>2. q \in 0..2 /\ k \in OutMsgs \cup InMsgs
      BY <1>1, SessionAssumption DEF TypeOK
    <3>3. (IF q > 0 THEN mid_generate ELSE 0) \in Mids
      BY <1>1, SessionAssumption DEF mid_generate, Mids, TypeOK
    <3> QED
      BY <1>1, <3>1, <3>2, <3>3, InsertKeeps
  <2>4. CASE mqtt3_handle_publish
    <3>1. Packet1 \in Packet /\ Packet1.type = "PUBLISH"
      BY <1>1, <2>4, HeadOf DEF mqtt3_handle_publish, Reading, Packet1, TypeOK
    <3>2. Packet1.mid \in Mids /\ Packet1.msg \in OutMsgs \cup InMsgs
      BY <3>1, PacketFields
    <3>3. \/ UNCHANGED list
          \/ mqtt3_db_message_insert(Packet1.msg, Packet1.mid, "in", 2)
      BY <2>4 DEF mqtt3_handle_publish
    <3> QED
      BY <1>1, <3>2, <3>3, InsertKeeps DEF Forgets, list
  <2>5. CASE handle_pubrec
    <3>1. "wait_for_pubcomp" \in States /\ msgs \in SUBSET msgs
      BY DEF States
    <3>2. mqtt3_db_message_update(Packet1.mid, "out", "wait_for_pubcomp")
      BY <2>5 DEF handle_pubrec
    <3>3. PICK f \in Restatements(msgs) : Relists(msgs, f)
      BY <1>1, <3>1, <3>2, UpdateResult
    <3> QED
      BY <1>1, <3>1, <3>3, KeptInList
  <2>6. CASE handle_pubrel
    <3>1. PICK R \in SUBSET msgs :
             \E f \in Restatements(R) : ReleasedList(Packet1.mid, R, f)
      BY <1>1, <2>6, ReleaseResult DEF handle_pubrel
    <3> QED
      BY <1>1, <3>1, KeptInList DEF ReleasedList, Matching
  <2>7. CASE mqtt3_db_message_timeout_check
    <3>1. PICK f \in Restatements(msgs) : Relists(msgs, f)
      BY <1>1, <2>7, TimeoutResult
    <3>2. msgs \in SUBSET msgs
      OBVIOUS
    <3> QED
      BY <1>1, <3>1, <3>2, KeptInList
  <2>8. CASE client_publish \/ Receive \/ UNCHANGED vars
    <3>1. msgs' = msgs
      BY <2>8 DEF client_publish, Receive, client_on_publish, client_on_pubrel,
                  client_on_pubrec, client_on_pubackcomp, vars, list
    <3> QED
      BY <1>1, <3>1 DEF Forgets
  <2> QED
    BY <1>1, <2>1, <2>2, <2>3, <2>4, <2>5, <2>6, <2>7, <2>8 DEF Exchange, Loop
<1>2. TypeOK /\ ListInv /\ SessionInv /\ [Exchange]_vars =>
         [\A m \in msgs : m.dir = "out" /\ m.qos > 0
            /\ ~(\E n \in msgs' : n.ord = m.ord) => Seen(m.msg)]_vars
  BY <1>1 DEF Forgets
<1> QED
  BY <1>2, DeliveryInvariant, ConnectedMeans, PTL
  DEF Connected, DeliveredBeforeForgotten
----------------------------------------------------------------------------
(***************************************************************************)
(* The messages the client publishes.                                      *)
(***************************************************************************)
\* What is under way, by type, and who waits for it.
PubsUp == Of(toBroker, "PUBLISH")
RelsUp == Of(toBroker, "PUBREL")
RecsDown == Of(toClient, "PUBREC")
EndsDown == Of(toClient, "PUBACK") \cup Of(toClient, "PUBCOMP")

\* The incoming messages of the list, and the messages they stand for.
In == {m \in msgs : m.dir = "in"}
Held == {m.msg : m \in In}

\* Handed to the subscribers, or refused for good.
Settled == {k \in InMsgs : k \in Denied \/ forwarded[k] >= 1}

\* The client has read the PUBREC of the message.
Acknowledged == {k \in InMsgs : pub[k].st \in {"released", "done"}}

\* An incoming message has the id the client gave it and is held once.  Its
\* state never lets the pass of the main loop drop it, and no outgoing message
\* is in a state in which the pass writes a PUBREC.
HeldSound ==
    /\ \A m \in In : /\ m.msg \in InMsgs /\ m.mid = InMid(m.msg) /\ m.qos = 2
                     /\ m.state # "publish_qos0"
    /\ \A m, n \in In : m.msg = n.msg => m = n
    /\ \A m \in msgs : m.dir = "out" => m.state \notin {"send_pubrec", "wait_for_pubrel"}

\* What is held was not forwarded yet.
HeldWaits ==
    \A k \in Held : forwarded[k] = 0 /\ pub[k].qos = 2 /\ pub[k].st # "new"

\* A PUBLISH under way has the client's id and QoS; while it may still insert a
\* QoS 2 message, that message was not forwarded.
PubsUpSound ==
    \A x \in PubsUp :
        /\ x.msg \in InMsgs /\ x.mid = InMid(x.msg)
        /\ x.qos \in {1, 2} /\ pub[x.msg].qos = x.qos /\ pub[x.msg].st # "new"
        /\ x.qos = 2 => forwarded[x.msg] = 0

\* How far the client's handshakes are.
Started ==
    \A k \in InMsgs :
        /\ pub[k].st = "new" => forwarded[k] = 0
        /\ pub[k].st = "sent" /\ pub[k].qos = 2 => forwarded[k] = 0
        /\ pub[k].st # "new" => pub[k].qos \in {1, 2}
        /\ k \in Acknowledged => k \in Held \cup Settled
        /\ pub[k].st = "done" => k \in Settled

\* What each packet says about its message.
PacketsTrue ==
    \A k \in InMsgs :
        /\ \A p \in RelsUp : p.mid = InMid(k) => k \in Acknowledged
        /\ \A p \in RecsDown : p.mid = InMid(k) => k \in Held \cup Acknowledged
        /\ \A p \in EndsDown : p.mid = InMid(k) => k \in Settled

\* No PUBLISH follows the PUBREL of its message.
PubsUpFirst == NoneAfter(toBroker, "PUBREL", "PUBLISH")

Limited ==
    \A k \in InMsgs : /\ k \in Denied => forwarded[k] = 0
                      /\ pub[k].qos = 2 => forwarded[k] <= 1

ForwardInv ==
    /\ HeldSound
    /\ HeldWaits
    /\ PubsUpSound
    /\ Started
    /\ PacketsTrue
    /\ PubsUpFirst
    /\ Limited
-----------------------------------------------------------------------------
\* The client gives each message an id of its own.
LEMMA InMidUnique ==
    ASSUME NEW a \in InMsgs, NEW b \in InMsgs, InMid(a) = InMid(b)
    PROVE  a = b
<1>1. InMsgs \subseteq Nat /\ IsFiniteSet(InMsgs)
  BY SessionAssumption
<1>2. ASSUME NEW x \in InMsgs, NEW y \in InMsgs, InMid(x) = InMid(y), x <= y
      PROVE  x = y
  <2> DEFINE A == {k \in InMsgs : k <= x}
             B == {k \in InMsgs : k <= y}
  <2>1. A \in SUBSET B
    <3> SUFFICES ASSUME NEW k \in InMsgs, k <= x PROVE k <= y
      OBVIOUS
    <3>1. k \in Nat /\ x \in Nat /\ y \in Nat
      BY <1>1
    <3> QED
      BY <1>2, <3>1
  <2>2. IsFiniteSet(B) /\ Cardinality(A) = Cardinality(B)
    BY <1>1, <1>2, FS_Subset DEF InMid
  <2>3. A = B
    <3> HIDE DEF A, B
    <3> QED
      BY <2>1, <2>2, FS_Subset
  <2>4. y \in B
    BY <1>1
  <2>5. y <= x
    BY <2>3, <2>4
  <2> QED
    BY <1>1, <1>2, <2>5
<1>3. a \in Nat /\ b \in Nat
  BY <1>1
<1>4. a <= b \/ b <= a
  BY <1>3
<1> QED
  BY <1>2, <1>4

\* What stays on its way to the broker, or to the client, when no packet of an
\* incoming handshake joins it.
UpShrinks == PubsUp' \subseteq PubsUp /\ RelsUp' \subseteq RelsUp /\ PubsUpFirst'
DownShrinks == RecsDown' \subseteq RecsDown /\ EndsDown' \subseteq EndsDown

LEMMA UpRead ==
    ASSUME TypeOK, PubsUpFirst,
           \/ toBroker' = toBroker \/ toBroker' = <<>>
           \/ toBroker # <<>> /\ toBroker' = Tail(toBroker)
    PROVE  UpShrinks
<1>1. CASE toBroker' = toBroker
  BY <1>1 DEF UpShrinks, PubsUp, RelsUp, PubsUpFirst
<1>2. CASE toBroker' = <<>>
  BY <1>2, OfNone DEF UpShrinks, PubsUp, RelsUp, PubsUpFirst, NoneAfter
<1>3. CASE toBroker # <<>> /\ toBroker' = Tail(toBroker)
  BY <1>3, OfTail, NoneAfterTail
  DEF UpShrinks, PubsUp, RelsUp, PubsUpFirst, TypeOK
<1> QED
  BY <1>1, <1>2, <1>3

LEMMA UpSend ==
    ASSUME TypeOK, PubsUpFirst, NEW r \in Seq(Packet), ClientSend(r),
           \A p \in RelsUp \cup Of(r, "PUBREL"), x \in Of(r, "PUBLISH") : p.mid # x.mid
    PROVE  /\ PubsUp' \subseteq PubsUp \cup Of(r, "PUBLISH")
           /\ RelsUp' \subseteq RelsUp \cup Of(r, "PUBREL")
           /\ PubsUpFirst'
<1>1. toBroker \in Seq(Packet)
  BY DEF TypeOK
<1>2. \A t : Of(toBroker \o r, t) \subseteq Of(toBroker, t) \cup Of(r, t)
  BY <1>1, OfConcat
<1>3. NoneAfter(r, "PUBREL", "PUBLISH")
  BY DEF NoneAfter, Of
<1>4. NoneAfter(toBroker \o r, "PUBREL", "PUBLISH")
  BY <1>1, <1>3, NoneAfterConcat DEF PubsUpFirst, RelsUp
<1>5. toBroker' = toBroker \/ toBroker' = toBroker \o r
  BY DEF ClientSend
<1> QED
  BY <1>2, <1>4, <1>5 DEF PubsUp, RelsUp, PubsUpFirst

LEMMA UpOther ==
    ASSUME TypeOK, PubsUpFirst, NEW r \in Seq(Packet), ClientSend(r),
           Of(r, "PUBLISH") = {}, Of(r, "PUBREL") = {}
    PROVE  UpShrinks
BY UpSend DEF UpShrinks

LEMMA DownRead ==
    ASSUME TypeOK,
           \/ toClient' = toClient \/ toClient' = <<>>
           \/ toClient # <<>> /\ toClient' = Tail(toClient)
    PROVE  DownShrinks
<1>1. CASE toClient' = toClient
  BY <1>1 DEF DownShrinks, RecsDown, EndsDown
<1>2. CASE toClient' = <<>>
  BY <1>2, OfNone DEF DownShrinks, RecsDown, EndsDown
<1>3. CASE toClient # <<>> /\ toClient' = Tail(toClient)
  BY <1>3, OfTail DEF DownShrinks, RecsDown, EndsDown, TypeOK
<1> QED
  BY <1>1, <1>2, <1>3

LEMMA DownSend ==
    ASSUME TypeOK, NEW r \in Seq(Packet), Send(r)
    PROVE  /\ RecsDown' \subseteq RecsDown \cup Of(r, "PUBREC")
           /\ EndsDown' \subseteq EndsDown \cup Of(r, "PUBACK") \cup Of(r, "PUBCOMP")
<1>1. \A t : Of(toClient \o r, t) \subseteq Of(toClient, t) \cup Of(r, t)
  BY OfConcat DEF TypeOK
<1>2. toClient' = toClient \/ toClient' = toClient \o r
  BY DEF Send
<1> QED
  BY <1>1, <1>2 DEF RecsDown, EndsDown

-----------------------------------------------------------------------------
\* The states in which a list may leave a message.
StateSound(m, st) ==
    /\ m.dir = "in" => st # "publish_qos0"
    /\ m.dir = "out" => st \notin {"send_pubrec", "wait_for_pubrel"}

LEMMA InRelisted ==
    ASSUME TypeOK, HeldSound, ListInv',
           NEW R \in SUBSET msgs, NEW f \in Restatements(R), msgs' = {f[m] : m \in R},
           \A m \in R : StateSound(m, f[m].state)
    PROVE  HeldSound' /\ Held' = {m.msg : m \in In \cap R}
<1>1. msgs' = {f[m] : m \in R} /\ \A m \in R : SameMessage(m, f[m])
  BY DEF Restatements
<1>2. \A n \in In' : \E m \in In \cap R : n = f[m] /\ SameMessage(m, n)
  BY <1>1 DEF In, SameMessage
<1>3. \A m \in In \cap R : f[m] \in In' /\ f[m].msg = m.msg
  BY <1>1 DEF In, SameMessage
<1>4. Held' = {m.msg : m \in In \cap R}
  <2>1. \A k : k \in Held' <=> \E n \in In' : k = n.msg
    BY DEF Held
  <2> QED
    BY <1>2, <1>3, <2>1 DEF SameMessage
<1>5. \A n \in In' : /\ n.msg \in InMsgs /\ n.mid = InMid(n.msg) /\ n.qos = 2
                     /\ n.state # "publish_qos0"
  BY <1>2 DEF HeldSound, SameMessage, StateSound, In
<1>6. ASSUME NEW m \in In', NEW n \in In', m.msg = n.msg PROVE m = n
  <2>1. PICK a \in In \cap R : m = f[a] /\ SameMessage(a, m)
    BY <1>2
  <2>2. PICK b \in In \cap R : n = f[b] /\ SameMessage(b, n)
    BY <1>2
  <2>3. a = b
    BY <1>6, <2>1, <2>2 DEF HeldSound, SameMessage
  <2> QED
    BY <2>1, <2>2, <2>3
<1>7. \A n \in msgs' : n.dir = "out" => n.state \notin {"send_pubrec", "wait_for_pubrel"}
  BY <1>1 DEF StateSound, SameMessage
<1>8. HeldSound'
  BY <1>5, <1>6, <1>7 DEF HeldSound
<1> QED
  BY <1>4, <1>8

\* Promotion and no change at all leave sound states.
LEMMA SoundAsIs ==
    ASSUME HeldSound, NEW m \in msgs
    PROVE  StateSound(m, m.state)
BY DEF HeldSound, StateSound, In

LEMMA PromotesSound ==
    ASSUME TypeOK, HeldSound, NEW m \in msgs, NEW n, Promotes(m, n)
    PROVE  StateSound(m, n.state)
<1>1. CASE n = m
  BY <1>1, SoundAsIs
<1>2. CASE n = Promoted(m)
  <2>1. m \in Message /\ m.qos \in 0..2
    BY DEF TypeOK, Message
  <2>2. n.state = IF m.dir = "out" THEN PublishState(m.qos) ELSE "wait_for_pubrel"
    BY <1>2, <2>1, PromotedResult
  <2> QED
    BY <2>1, <2>2, PublishStateType DEF StateSound
<1> QED
  BY <1>1, <1>2 DEF Promotes

\* A step that keeps every incoming message, forwards nothing, and writes at
\* most PUBRECs for messages that are held.
LEMMA QuietUp ==
    ASSUME ForwardInv, HeldSound', Held' = Held, UpShrinks,
           \A p \in RecsDown' : p \in RecsDown \/ \E m \in In : p.mid = m.mid,
           EndsDown' \subseteq EndsDown,
           UNCHANGED <<forwarded, pub>>
    PROVE  ForwardInv'
<1> USE DEF ForwardInv
<1>1. Settled' = Settled /\ Acknowledged' = Acknowledged
  BY DEF Settled, Acknowledged
<1>2. HeldWaits' /\ Limited' /\ PubsUpFirst'
  BY DEF HeldWaits, Limited, UpShrinks
<1>3. PubsUpSound'
  BY DEF PubsUpSound, UpShrinks
<1>4. Started'
  BY <1>1 DEF Started
<1>5. \A p \in RecsDown', k \in InMsgs : p.mid = InMid(k) => k \in Held \cup Acknowledged
  <2> SUFFICES ASSUME NEW p \in RecsDown', NEW k \in InMsgs, p.mid = InMid(k)
               PROVE  k \in Held \cup Acknowledged
    OBVIOUS
  <2>1. ASSUME NEW m \in In, p.mid = m.mid PROVE k \in Held
    <3>1. m.msg \in InMsgs /\ m.mid = InMid(m.msg)
      BY DEF HeldSound
    <3>2. m.msg = k
      BY <2>1, <3>1, InMidUnique
    <3> QED
      BY <3>2 DEF Held
  <2> QED
    BY <2>1 DEF PacketsTrue
<1>6. PacketsTrue'
  BY <1>1, <1>5 DEF PacketsTrue, UpShrinks
<1> QED
  BY <1>2, <1>3, <1>4, <1>6
-----------------------------------------------------------------------------
(* The steps that leave the incoming handshakes alone. *)

LEMMA SameIn ==
    ASSUME HeldSound, UNCHANGED list
    PROVE  HeldSound' /\ Held' = Held
<1>1. msgs' = msgs /\ In' = In
  BY DEF list, In
<1> QED
  BY <1>1 DEF HeldSound, Held

\* All incoming messages are kept.
LEMMA InKept ==
    ASSUME TypeOK, HeldSound, ListInv',
           NEW R \in SUBSET msgs, NEW f \in Restatements(R), msgs' = {f[m] : m \in R},
           \A m \in R : StateSound(m, f[m].state),
           \A m \in msgs \ R : m.dir # "in"
    PROVE  HeldSound' /\ Held' = Held
<1>1. HeldSound' /\ Held' = {m.msg : m \in In \cap R}
  BY InRelisted
<1>2. In \cap R = In
  BY DEF In
<1> QED
  BY <1>1, <1>2 DEF Held

LEMMA UpSubsProcess ==
    ASSUME TypeOK, ListInv, ListInv', ForwardInv, subs_process
    PROVE  ForwardInv'
<1> USE DEF ForwardInv
<1>1. PICK q \in OutQos, k \in pending :
         mqtt3_db_message_insert(k, IF q > 0 THEN mid_generate ELSE 0, "out", q)
  BY DEF subs_process
<1> DEFINE mid == IF q > 0 THEN mid_generate ELSE 0
           new == Appended(k, mid, "out", q)
<1>2. q \in 0..2 /\ k \in OutMsgs \cup InMsgs /\ mid \in Mids
  <2>1. q \in 0..2 /\ k \in OutMsgs \cup InMsgs
    BY SessionAssumption DEF TypeOK
  <2>2. mid \in Mids
    BY SessionAssumption DEF mid_generate, Mids, TypeOK
  <2> QED
    BY <2>1, <2>2
<1>3. new.dir = "out" /\ new.state = InsertState("out", q)
  BY DEF Appended
<1> HIDE DEF mid
<1>4. \/ UNCHANGED list
      \/ /\ InsertState("out", q) # "dropped"
         /\ msgs' = IF dangling THEN msgs ELSE msgs \cup {new}
  BY <1>1, <1>2, InsertResult DEF mid
<1> HIDE DEF new
<1>5. HeldSound' /\ Held' = Held
  <2>1. CASE UNCHANGED list
    BY <2>1, SameIn
  <2>2. CASE InsertState("out", q) # "dropped"
             /\ msgs' = IF dangling THEN msgs ELSE msgs \cup {new}
    <3>1. new.state \in {PublishState(q), "queued"}
      BY <1>2, <1>3, <2>2, InsertStateType
    <3>2. new.state \notin {"send_pubrec", "wait_for_pubrel"}
      BY <1>2, <3>1, PublishStateType
    <3>3. In' = In
      BY <1>3, <2>2 DEF In
    <3> QED
      BY <2>2, <3>2, <3>3 DEF HeldSound, Held
  <2> QED
    BY <1>4, <2>1, <2>2
<1>6. UNCHANGED <<toBroker, toClient, forwarded, pub>>
  BY DEF subs_process, wire, client
<1>7. UpShrinks /\ DownShrinks
  BY <1>6, UpRead, DownRead
<1> QED
  BY <1>5, <1>6, <1>7, QuietUp DEF DownShrinks

LEMMA UpPubackcomp ==
    ASSUME TypeOK, ListInv, ListInv', ForwardInv, handle_pubackcomp
    PROVE  ForwardInv'
<1> USE DEF ForwardInv
<1>1. /\ toBroker # <<>> /\ toBroker' = Tail(toBroker)
      /\ mqtt3_db_message_delete(Packet1.mid, "out")
      /\ UNCHANGED <<toClient, forwarded, pub>>
  BY DEF handle_pubackcomp, Reading, Consume, client
<1>2. PICK R \in SUBSET msgs : \E f \in Restatements(R) :
         /\ Relists(R, f)
         /\ \A m \in msgs \ R : m.mid = Packet1.mid /\ m.dir = "out"
         /\ \A m \in R : Promotes(m, f[m])
  BY <1>1, DeleteResult
<1>3. PICK f \in Restatements(R) : /\ Relists(R, f)
                                   /\ \A m \in R : Promotes(m, f[m])
  BY <1>2
<1>4. \A m \in R : StateSound(m, f[m].state)
  BY <1>3, PromotesSound
<1>5. HeldSound' /\ Held' = Held
  BY <1>2, <1>3, <1>4, InKept DEF Relists
<1>6. UpShrinks /\ DownShrinks
  BY <1>1, UpRead, DownRead
<1> QED
  BY <1>1, <1>5, <1>6, QuietUp DEF DownShrinks

LEMMA UpPubrec ==
    ASSUME TypeOK, ListInv, ListInv', ForwardInv, handle_pubrec
    PROVE  ForwardInv'
<1> USE DEF ForwardInv
<1> DEFINE r == <<Ack("PUBREL", Packet1.mid)>>
<1>1. /\ toBroker # <<>> /\ toBroker' \in {Tail(toBroker), <<>>}
      /\ mqtt3_db_message_update(Packet1.mid, "out", "wait_for_pubcomp")
      /\ Send(r) \/ UNCHANGED toClient
      /\ UNCHANGED <<forwarded, pub>>
  BY DEF handle_pubrec, Reading, Consume, CloseSocket, client
<1>2. "wait_for_pubcomp" \in States /\ msgs \in SUBSET msgs
  BY DEF States
<1>3. PICK f \in Restatements(msgs) :
         /\ Relists(msgs, f)
         /\ \A m \in msgs : f[m].state = "wait_for_pubcomp" \/ f[m] = m
  BY <1>1, <1>2, UpdateResult
<1>4. \A m \in msgs : StateSound(m, f[m].state)
  <2>1. \A m : StateSound(m, "wait_for_pubcomp")
    BY DEF StateSound
  <2> QED
    BY <1>3, <2>1, SoundAsIs
<1>5. HeldSound' /\ Held' = Held
  BY <1>2, <1>3, <1>4, InKept DEF Relists
<1>6. Packet1 \in Packet
  BY <1>1, HeadOf DEF Packet1, TypeOK
<1>7. r \in Seq(Packet)
  BY <1>6, PacketFields, AckType
<1>8. Of(r, "PUBREC") = {} /\ Of(r, "PUBACK") = {} /\ Of(r, "PUBCOMP") = {}
  BY OneAck
<1> HIDE DEF r
<1>9. DownShrinks
  BY <1>1, <1>7, <1>8, DownSend, DownRead DEF DownShrinks
<1>10. UpShrinks
  BY <1>1, UpRead
<1> QED
  BY <1>1, <1>5, <1>9, <1>10, QuietUp DEF DownShrinks

LEMMA UpTimeout ==
    ASSUME TypeOK, ListInv', ForwardInv, mqtt3_db_message_timeout_check
    PROVE  ForwardInv'
<1> USE DEF ForwardInv
<1>1. UNCHANGED <<toBroker, toClient, forwarded, pub>>
  BY DEF mqtt3_db_message_timeout_check, wire, client
<1>2. PICK f \in Restatements(msgs) :
         /\ Relists(msgs, f)
         /\ \A m \in msgs : \/ f[m] = m
                            \/ /\ m.state \in DOMAIN Retry
                               /\ f[m].state = Retry[m.state]
  BY TimeoutResult
<1>3. ASSUME NEW m \in msgs PROVE StateSound(m, f[m].state)
  <2>1. StateSound(m, m.state)
    BY SoundAsIs
  <2>2. CASE m.state \in DOMAIN Retry /\ f[m].state = Retry[m.state]
    BY <2>1, <2>2, RetryStates DEF StateSound
  <2> QED
    BY <1>2, <2>1, <2>2
<1>4. HeldSound' /\ Held' = Held
  <2>1. msgs \in SUBSET msgs /\ \A m \in msgs \ msgs : m.dir # "in"
    OBVIOUS
  <2> QED
    BY <1>2, <1>3, <2>1, InKept DEF Relists
<1>5. UpShrinks /\ DownShrinks
  BY <1>1, UpRead, DownRead
<1> QED
  BY <1>1, <1>4, <1>5, QuietUp DEF DownShrinks

\* The front of the list is written, whether or not the write fails at last.
LEMMA UpWritten ==
    ASSUME TypeOK, ListInv, ListInv', ForwardInv,
           NEW S \in SUBSET ToWrite, NEW F \in SUBSET ToWrite, WriteOut(S, F)
    PROVE  /\ HeldSound' /\ Held' = Held
           /\ \A p \in RecsDown' : p \in RecsDown \/ \E m \in In : p.mid = m.mid
           /\ EndsDown' \subseteq EndsDown
<1> USE DEF ForwardInv
<1>1. S \in SUBSET msgs
  BY DEF ToWrite
<1>2. ASSUME NEW m \in ToWrite
      PROVE  /\ m \in msgs /\ m \in Message /\ m.dir \in {"in", "out"}
             /\ m.dir = "out" => m.state \in {"publish_qos0", "publish_qos1",
                                              "publish_qos2", "resend_pubrel"}
             /\ m.state = "queued" => m.dir = "in"
  <2>1. /\ m \in msgs
        /\ \/ m.dir = "in" /\ m.state = "queued"
           \/ m.state \in {"publish_qos0", "publish_qos1", "publish_qos2",
                           "send_pubrec", "resend_pubrel"}
    BY DEF ToWrite, Resumes
  <2>2. m \in Message /\ m.dir \in {"in", "out"}
    BY <2>1 DEF TypeOK, Message
  <2>3. m.dir = "out" => m.state # "send_pubrec"
    BY <2>1 DEF HeldSound
  <2> QED
    BY <2>1, <2>2, <2>3
<1>3. PICK R \in SUBSET msgs : \E f \in Restatements(R) : WrittenList(S, F, R, f)
  BY <1>1, WriteOutResult
<1>4. PICK f \in Restatements(R) : WrittenList(S, F, R, f)
  BY <1>3
<1>5. ASSUME NEW m \in R PROVE StateSound(m, f[m].state)
  <2>1. CASE m \in S
    <3>1. m.state # "publish_qos0" /\ f[m] = Written(m)
      BY <1>4, <2>1 DEF WrittenList
    <3> QED
      BY <1>2, <2>1, <3>1, WrittenResult DEF StateSound
  <2>2. CASE m \notin S
    <3>1. f[m] = m \/ (m \in F /\ m.state = "queued" /\ f[m].state = "send_pubrec")
      BY <1>4, <2>2 DEF WrittenList
    <3>2. CASE f[m] = m
      BY <3>2, SoundAsIs
    <3>3. CASE m \in F /\ m.state = "queued" /\ f[m].state = "send_pubrec"
      BY <1>2, <3>3 DEF StateSound
    <3> QED
      BY <3>1, <3>2, <3>3
  <2> QED
    BY <2>1, <2>2
<1>6. \A m \in msgs \ R : m.dir # "in"
  BY <1>4 DEF WrittenList, HeldSound, In
<1>7. Relists(R, f)
  BY <1>4 DEF WrittenList
<1>8. HeldSound' /\ Held' = Held
  BY <1>5, <1>6, <1>7, InKept DEF Relists
<1>9. PICK r \in Seq(Packet) :
         Send(r) /\ \A t : Of(r, t) \subseteq {PacketOf(m) : m \in S}
  BY <1>1, WriteOutResult
<1>10. ASSUME NEW p \in Of(r, "PUBREC") PROVE \E m \in In : p.mid = m.mid
  <2>1. PICK m \in S : p = PacketOf(m) /\ p.type = "PUBREC"
    BY <1>9 DEF Of
  <2>2. p.mid = m.mid /\ m.dir # "out"
    BY <1>2, <2>1, PacketOfType
  <2> QED
    BY <1>2, <2>2 DEF In
<1>11. Of(r, "PUBACK") = {} /\ Of(r, "PUBCOMP") = {}
  <2>1. \A m \in S : PacketOf(m).type \in {"PUBLISH", "PUBREL", "PUBREC"}
    BY <1>2, PacketOfType
  <2> QED
    BY <1>9, <2>1 DEF Of
<1>12. /\ RecsDown' \subseteq RecsDown \cup Of(r, "PUBREC")
       /\ EndsDown' \subseteq EndsDown \cup Of(r, "PUBACK") \cup Of(r, "PUBCOMP")
  BY <1>9, DownSend
<1> QED
  BY <1>8, <1>10, <1>11, <1>12

LEMMA UpWrite ==
    ASSUME TypeOK, ListInv, ListInv', ForwardInv,
           mqtt3_db_message_write \/ message_write_fails
    PROVE  ForwardInv'
<1>1. PICK S \in SUBSET ToWrite, F \in SUBSET ToWrite : WriteOut(S, F)
  <2>1. CASE mqtt3_db_message_write
    <3>1. WriteOut(ToWrite, {}) /\ {} \in SUBSET ToWrite /\ ToWrite \in SUBSET ToWrite
      BY <2>1 DEF mqtt3_db_message_write
    <3> QED
      BY <3>1
  <2>2. CASE message_write_fails
    <3>1. PICK g \in ToWrite : WriteOut(Before(ToWrite, g), {g})
      BY <2>2 DEF message_write_fails
    <3>2. Before(ToWrite, g) \in SUBSET ToWrite /\ {g} \in SUBSET ToWrite
      BY DEF Before
    <3> QED
      BY <3>1, <3>2
  <2> QED
    BY <2>1, <2>2
<1>2. toBroker' = toBroker \/ toBroker' = <<>>
  BY DEF mqtt3_db_message_write, message_write_fails, CloseSocket
<1>3. UNCHANGED <<forwarded, pub>>
  BY DEF mqtt3_db_message_write, message_write_fails, client
<1>4. UpShrinks
  BY <1>2, UpRead DEF ForwardInv
<1> QED
  BY <1>1, <1>3, <1>4, UpWritten, QuietUp

\* The client's own receipts, and the ends of a connection.
LEMMA UpOthers ==
    ASSUME TypeOK, ForwardInv,
           \/ client_on_publish \/ client_on_pubrel \/ do_disconnect \/ link_lost
           \/ client_closed \/ UNCHANGED vars
    PROVE  ForwardInv'
<1>1. UNCHANGED list /\ UNCHANGED <<forwarded, pub>>
  BY DEF client_on_publish, client_on_pubrel, do_disconnect, link_lost,
         client_closed, vars, client
<1>2. \/ toClient' = toClient \/ toClient' = <<>>
      \/ toClient # <<>> /\ toClient' = Tail(toClient)
  BY DEF client_on_publish, client_on_pubrel, ClientReading, do_disconnect,
         link_lost, client_closed, vars, wire
<1>3. UpShrinks
  <2>1. CASE client_on_publish \/ client_on_pubrel
    <3> DEFINE p == Head(toClient)
    <3>1. toClient # <<>>
      BY <2>1 DEF client_on_publish, client_on_pubrel, ClientReading
    <3>2. p \in Packet
      BY <3>1, HeadOf DEF TypeOK
    <3>3. p.mid \in Mids
      BY <3>2, PacketFields
    <3>4. p.type = "PUBLISH" => p.qos \in 0..2
      BY <3>2, PacketFields
    <3>5. \/ ClientSend(<<>>)
          \/ \E t \in {"PUBACK", "PUBREC", "PUBCOMP"} : ClientSend(<<Ack(t, p.mid)>>)
      BY <2>1, <3>4 DEF client_on_publish, client_on_pubrel, ClientReading
    <3>6. CASE ClientSend(<<>>)
      <4>1. <<>> \in Seq(Packet)
        OBVIOUS
      <4> QED
        BY <3>6, <4>1, OfNone, UpOther DEF ForwardInv
    <3>7. ASSUME NEW t \in {"PUBACK", "PUBREC", "PUBCOMP"},
                 ClientSend(<<Ack(t, p.mid)>>)
          PROVE  UpShrinks
      <4> DEFINE r == <<Ack(t, p.mid)>>
      <4>1. r \in Seq(Packet)
        BY <3>3, AckType
      <4>2. Of(r, "PUBLISH") = {} /\ Of(r, "PUBREL") = {}
        BY OneAck
      <4>3. ClientSend(r)
        BY <3>7
      <4> HIDE DEF r
      <4> QED
        BY <4>1, <4>2, <4>3, UpOther DEF ForwardInv
    <3> QED
      BY <3>5, <3>6, <3>7
  <2>2. CASE toBroker' = toBroker \/ toBroker' = <<>>
    BY <2>2, UpRead DEF ForwardInv
  <2> QED
    BY <2>1, <2>2 DEF do_disconnect, CloseSocket, link_lost, client_closed, vars, wire
<1>4. DownShrinks
  BY <1>2, DownRead
<1>5. HeldSound' /\ Held' = Held
  BY <1>1, SameIn DEF ForwardInv
<1> QED
  BY <1>1, <1>3, <1>4, <1>5, QuietUp DEF DownShrinks
-----------------------------------------------------------------------------
(* The steps of an incoming handshake. *)

LEMMA ForwardResult ==
    ASSUME TypeOK, NEW S, Forward(S), NEW k \in InMsgs
    PROVE  /\ forwarded[k] \in 0..2
           /\ k \notin S \/ k \in Denied => forwarded'[k] = forwarded[k]
           /\ k \in S /\ k \notin Denied => forwarded'[k] >= 1
           /\ k \in S /\ k \notin Denied /\ forwarded[k] = 0 => forwarded'[k] = 1
           /\ k \in Settled => k \in Settled'
           /\ k \in S => k \in Settled'
<1>1. forwarded[k] \in 0..2
  BY DEF TypeOK
<1>2. forwarded'[k] = IF k \in S \ Denied /\ forwarded[k] < 2
                        THEN forwarded[k] + 1 ELSE forwarded[k]
  BY DEF Forward
<1>3. /\ k \notin S \/ k \in Denied => forwarded'[k] = forwarded[k]
      /\ k \in S /\ k \notin Denied => forwarded'[k] >= 1
      /\ k \in S /\ k \notin Denied /\ forwarded[k] = 0 => forwarded'[k] = 1
  BY <1>1, <1>2
<1>4. k \in Settled => k \in Settled'
  BY <1>1, <1>3 DEF Settled
<1>5. k \in S => k \in Settled'
  BY <1>3 DEF Settled
<1> QED
  BY <1>1, <1>3, <1>4, <1>5

\* QoS 1: forwarded each time, and answered.
LEMMA UpPublish1 ==
    ASSUME TypeOK, ForwardInv, mqtt3_handle_publish, Packet1.qos = 1
    PROVE  ForwardInv'
<1> USE DEF ForwardInv
<1> DEFINE p == Packet1
           r == <<Ack("PUBACK", p.mid)>>
<1>1. /\ toBroker # <<>> /\ p.type = "PUBLISH" /\ toBroker' = Tail(toBroker)
      /\ Forward({p.msg}) /\ Send(r)
      /\ UNCHANGED list /\ pub' = pub
  <2>1. /\ Reading("PUBLISH") /\ Forward({p.msg}) /\ Send(r) /\ Consume
        /\ UNCHANGED list /\ UNCHANGED client
    BY DEF mqtt3_handle_publish
  <2> QED
    BY <2>1 DEF Reading, Packet1, Consume, client
<1>2. p \in Packet /\ p \in PubsUp
  BY <1>1, HeadOf DEF Packet1, PubsUp, TypeOK
<1>3. p.msg \in InMsgs /\ p.mid = InMid(p.msg) /\ pub[p.msg].qos = 1
      /\ pub[p.msg].st # "new"
  BY <1>2 DEF PubsUpSound
<1>4. r \in Seq(Packet)
  BY <1>2, PacketFields, AckType
<1>5. /\ Of(r, "PUBREC") = {} /\ Of(r, "PUBCOMP") = {}
      /\ Of(r, "PUBACK") = {Ack("PUBACK", p.mid)}
  BY OneAck
<1>6. Ack("PUBACK", p.mid).mid = p.mid
  BY DEF Ack
<1>7. UpShrinks
  BY <1>1, UpRead
<1> HIDE DEF r, p
<1>8. /\ RecsDown' \subseteq RecsDown
      /\ \A e \in EndsDown' : e \in EndsDown \/ e.mid = p.mid
  BY <1>1, <1>4, <1>5, <1>6, DownSend
<1>9. HeldSound' /\ Held' = Held /\ Acknowledged' = Acknowledged
  BY <1>1, SameIn DEF Acknowledged
<1>10. \A k \in InMsgs : /\ k # p.msg => forwarded'[k] = forwarded[k]
                         /\ k \in Denied => forwarded'[k] = forwarded[k]
                         /\ k \in Settled => k \in Settled'
  BY <1>1, ForwardResult
<1>11. p.msg \in Settled'
  BY <1>1, <1>3, ForwardResult
<1>12. \A k \in Held : k \in InMsgs /\ k # p.msg
  BY <1>3 DEF HeldWaits, Held, HeldSound
<1>13. HeldWaits'
  BY <1>1, <1>9, <1>10, <1>12 DEF HeldWaits
<1>14. PubsUpSound'
  BY <1>1, <1>3, <1>7, <1>10 DEF PubsUpSound, UpShrinks
<1>15. Started'
  BY <1>1, <1>3, <1>9, <1>10 DEF Started
<1>16. \A k \in InMsgs : k # p.msg => InMid(k) # p.mid
  BY <1>3, InMidUnique
<1>17. PacketsTrue'
  BY <1>7, <1>8, <1>9, <1>10, <1>11, <1>16 DEF PacketsTrue, UpShrinks
<1>18. Limited'
  BY <1>1, <1>3, <1>10 DEF Limited
<1> QED
  BY <1>7, <1>9, <1>13, <1>14, <1>15, <1>17, <1>18 DEF UpShrinks

\* QoS 2: inserted at most once, and answered only while it is held.
LEMMA UpPublish2 ==
    ASSUME TypeOK, ListInv, ~dangling, ForwardInv, mqtt3_handle_publish,
           Packet1.qos # 1
    PROVE  ForwardInv'
<1> USE DEF ForwardInv
<1> DEFINE p == Packet1
           r == <<Ack("PUBREC", p.mid)>>
           new == Appended(p.msg, p.mid, "in", 2)
<1>1. /\ toBroker # <<>> /\ p.type = "PUBLISH"
      /\ toBroker' \in {Tail(toBroker), <<>>}
      /\ UNCHANGED <<forwarded, pub>>
      /\ \/ Matching(p.mid, "in") # {} /\ UNCHANGED list /\ Send(r)
         \/ /\ Matching(p.mid, "in") = {}
            /\ mqtt3_db_message_insert(p.msg, p.mid, "in", 2)
            /\ \/ InsertState("in", 2) = "wait_for_pubrel" /\ Send(r)
               \/ UNCHANGED toClient
  BY DEF mqtt3_handle_publish, Reading, Packet1, Consume, CloseSocket, client
<1>2. p \in Packet /\ p \in PubsUp
  BY <1>1, HeadOf DEF Packet1, PubsUp, TypeOK
<1>3. /\ p.msg \in InMsgs /\ p.mid = InMid(p.msg) /\ pub[p.msg].qos = 2
      /\ pub[p.msg].st # "new" /\ forwarded[p.msg] = 0
  BY <1>2 DEF PubsUpSound
<1>4. p.mid \in Mids
  BY <1>2, PacketFields
<1>5. r \in Seq(Packet)
  BY <1>4, AckType
<1>6. /\ Of(r, "PUBACK") = {} /\ Of(r, "PUBCOMP") = {}
      /\ Of(r, "PUBREC") = {Ack("PUBREC", p.mid)}
  BY OneAck
<1>7. Ack("PUBREC", p.mid).mid = p.mid
  BY DEF Ack
<1>8. UpShrinks
  BY <1>1, UpRead
<1> HIDE DEF r, p
<1>9. ASSUME Send(r)
      PROVE  /\ \A c \in RecsDown' : c \in RecsDown \/ c.mid = p.mid
             /\ EndsDown' \subseteq EndsDown
  BY <1>5, <1>6, <1>7, <1>9, DownSend
<1>10. CASE Matching(p.mid, "in") # {} /\ UNCHANGED list /\ Send(r)
  <2>1. \E m \in In : m.mid = p.mid
    BY <1>10 DEF Matching, In
  <2>2. \A c \in RecsDown' : c \in RecsDown \/ \E m \in In : c.mid = m.mid
    BY <1>9, <1>10, <2>1
  <2> QED
    BY <1>1, <1>8, <1>9, <1>10, <2>2, SameIn, QuietUp
<1>11. CASE /\ Matching(p.mid, "in") = {}
            /\ mqtt3_db_message_insert(p.msg, p.mid, "in", 2)
            /\ \/ InsertState("in", 2) = "wait_for_pubrel" /\ Send(r)
               \/ UNCHANGED toClient
  <2>1. \/ InsertState("in", 2) = "dropped" /\ UNCHANGED list
        \/ InsertState("in", 2) # "dropped" /\ msgs' = msgs \cup {new}
    BY <1>11 DEF mqtt3_db_message_insert, Appended
  <2>2. CASE InsertState("in", 2) = "dropped" /\ UNCHANGED list
    <3>1. DownShrinks
      BY <1>11, <2>2, DownRead
    <3> QED
      BY <1>1, <1>8, <2>2, <3>1, SameIn, QuietUp DEF DownShrinks
  <2>3. CASE InsertState("in", 2) # "dropped" /\ msgs' = msgs \cup {new}
    <3>1. InsertState("in", 2) \in {"wait_for_pubrel", "queued"}
      BY <2>3, InsertStateType
    <3>2. /\ new.dir = "in" /\ new.msg = p.msg /\ new.mid = p.mid /\ new.qos = 2
          /\ new.state # "publish_qos0"
      BY <3>1 DEF Appended
    <3> HIDE DEF new
    <3>3. In' = In \cup {new}
      BY <2>3, <3>2 DEF In
    <3>4. Held' = Held \cup {p.msg}
      BY <3>2, <3>3 DEF Held
    <3>5. \A m \in In : m.msg # p.msg
      BY <1>3, <1>11 DEF Matching, In, HeldSound
    <3>6. HeldSound'
      <4>1. \A m \in In' : /\ m.msg \in InMsgs /\ m.mid = InMid(m.msg) /\ m.qos = 2
                           /\ m.state # "publish_qos0"
        BY <1>3, <3>2, <3>3 DEF HeldSound
      <4>2. \A m, n \in In' : m.msg = n.msg => m = n
        BY <3>2, <3>3, <3>5 DEF HeldSound
      <4>3. \A m \in msgs' : m.dir = "out" =>
               m.state \notin {"send_pubrec", "wait_for_pubrel"}
        BY <2>3, <3>2 DEF HeldSound
      <4> QED
        BY <4>1, <4>2, <4>3 DEF HeldSound
    <3>7. /\ \A c \in RecsDown' : c \in RecsDown \/ c.mid = p.mid
          /\ EndsDown' \subseteq EndsDown
      <4>1. CASE UNCHANGED toClient
        BY <4>1, DownRead DEF DownShrinks
      <4> QED
        BY <1>9, <1>11, <4>1
    <3>8. Settled' = Settled /\ Acknowledged' = Acknowledged
      BY <1>1 DEF Settled, Acknowledged
    <3>9. HeldWaits' /\ Limited' /\ PubsUpFirst'
      BY <1>1, <1>3, <1>8, <3>4 DEF HeldWaits, Limited, UpShrinks
    <3>10. PubsUpSound'
      BY <1>1, <1>8 DEF PubsUpSound, UpShrinks
    <3>11. Started'
      BY <1>1, <3>4, <3>8 DEF Started
    <3>12. \A k \in InMsgs : k # p.msg => InMid(k) # p.mid
      BY <1>3, InMidUnique
    <3>13. PacketsTrue'
      BY <1>8, <3>4, <3>7, <3>8, <3>12 DEF PacketsTrue, UpShrinks
    <3> QED
      BY <3>6, <3>9, <3>10, <3>11, <3>13
  <2> QED
    BY <2>1, <2>2, <2>3
<1> QED
  BY <1>1, <1>10, <1>11
\* PUBREL: the message of its id leaves the list for its subscribers.
LEMMA UpPubrel ==
    ASSUME TypeOK, ListInv, ListInv', ForwardInv, handle_pubrel
    PROVE  ForwardInv'
<1> USE DEF ForwardInv
<1> DEFINE p == Packet1
           after == <<Ack("PUBCOMP", p.mid)>>
<1>1. /\ toBroker # <<>> /\ p.type = "PUBREL" /\ toBroker' = Tail(toBroker)
      /\ mqtt3_db_message_release(p.mid, after)
      /\ pub' = pub
  BY DEF handle_pubrel, Reading, Packet1, Consume, client
<1>2. p \in Packet /\ p \in RelsUp /\ \A x \in PubsUp' : x.mid # p.mid
  BY <1>1, HeadOf, NoneAfterTail DEF Packet1, RelsUp, PubsUp, PubsUpFirst, TypeOK
<1>3. UpShrinks
  BY <1>1, UpRead
<1>4. after \in Seq(Packet)
  BY <1>2, PacketFields, AckType
<1>5. /\ Of(after, "PUBACK") = {} /\ Of(after, "PUBREC") = {}
      /\ Of(after, "PUBCOMP") = {Ack("PUBCOMP", p.mid)}
  BY OneAck
<1>6. Ack("PUBCOMP", p.mid).mid = p.mid
  BY DEF Ack
<1> HIDE DEF p, after
<1>7. PICK r \in Seq(Packet) : Send(r \o after) /\ PubrecsOnly(r)
  BY <1>1, ReleaseResult
<1>8. /\ \A c \in RecsDown' : c \in RecsDown \/ \E m \in In : c.mid = m.mid
      /\ \A e \in EndsDown' : e \in EndsDown \/ e.mid = p.mid
  <2>1. /\ r \o after \in Seq(Packet)
        /\ \A t : Of(r \o after, t) \subseteq Of(r, t) \cup Of(after, t)
    BY <1>4, OfConcat
  <2>2. /\ RecsDown' \subseteq RecsDown \cup Of(r \o after, "PUBREC")
        /\ EndsDown' \subseteq EndsDown \cup Of(r \o after, "PUBACK")
                                        \cup Of(r \o after, "PUBCOMP")
    BY <1>7, <2>1, DownSend
  <2>3. \A c \in Of(r, "PUBREC") : \E m \in In : c.mid = m.mid
    BY <1>7 DEF PubrecsOnly, In
  <2>4. Of(r, "PUBACK") = {} /\ Of(r, "PUBCOMP") = {}
    BY <1>7 DEF PubrecsOnly
  <2> QED
    BY <1>5, <1>6, <2>1, <2>2, <2>3, <2>4
<1>9. PICK R \in SUBSET msgs : \E f \in Restatements(R) : ReleasedList(p.mid, R, f)
  BY <1>1, ReleaseResult
<1>10. PICK f \in Restatements(R) : ReleasedList(p.mid, R, f)
  BY <1>9
<1> DEFINE gone == {m.msg : m \in msgs \ R}
<1>11. HeldSound' /\ Held' = {m.msg : m \in In \cap R}
  <2>1. \A m \in R : StateSound(m, f[m].state)
    BY <1>10, PromotesSound DEF ReleasedList
  <2>2. Relists(R, f)
    BY <1>10 DEF ReleasedList
  <2> QED
    BY <2>1, <2>2, InRelisted DEF Relists
<1>12. Forward(gone)
  BY <1>10 DEF ReleasedList
<1>13. \A m \in msgs \ R : m \in In /\ m.mid = p.mid
  BY <1>10 DEF ReleasedList, Matching, In
<1>14. \A k \in gone : k \in InMsgs /\ k \in Held /\ k \notin Held' /\ InMid(k) = p.mid
  BY <1>11, <1>13, ZenonT(60) DEF HeldSound, Held
<1>15. /\ Held' \subseteq Held
       /\ \A k \in Held : k \in InMsgs /\ (k \in Held' \/ k \in gone)
  BY <1>11 DEF Held, In, HeldSound
<1>16. ASSUME NEW k \in Held, InMid(k) = p.mid PROVE k \in gone
  <2>1. PICK m \in In : m.msg = k
    BY DEF Held
  <2>2. m.mid = p.mid /\ k \in InMsgs
    BY <1>16, <2>1 DEF HeldSound
  <2>3. ASSUME NEW n \in Matching(p.mid, "in") PROVE n = m
    <3>1. n \in In /\ n.mid = p.mid
      BY DEF Matching, In
    <3>2. n.msg \in InMsgs /\ InMid(n.msg) = InMid(k)
      BY <1>16, <3>1 DEF HeldSound
    <3>3. n.msg = m.msg
      BY <2>1, <2>2, <3>2, InMidUnique
    <3> QED
      BY <3>1, <3>3 DEF HeldSound
  <2>4. Matching(p.mid, "in") = {m}
    BY <2>2, <2>3 DEF Matching, In
  <2>5. IsFirst({m}, m)
    BY DEF IsFirst, Before, In, TypeOK, Message
  <2>6. m \notin R
    BY <1>10, <2>4, <2>5 DEF ReleasedList
  <2> QED
    BY <2>1, <2>6 DEF In
<1> HIDE DEF gone
<1>17. \A k \in InMsgs : InMid(k) = p.mid => k \in Acknowledged
  BY <1>2 DEF PacketsTrue
<1>18. Acknowledged' = Acknowledged
  BY <1>1 DEF Acknowledged
<1>19. \A k \in InMsgs : /\ k \notin gone => forwarded'[k] = forwarded[k]
                         /\ k \in Denied => forwarded'[k] = forwarded[k]
                         /\ k \in gone => k \in Settled'
                         /\ k \in Settled => k \in Settled'
                         /\ k \in gone /\ k \notin Denied /\ forwarded[k] = 0
                               => forwarded'[k] = 1
  BY <1>12, ForwardResult
<1>20. HeldWaits'
  BY <1>1, <1>14, <1>15, <1>19 DEF HeldWaits
<1>21. PubsUpSound'
  BY <1>1, <1>2, <1>3, <1>14, <1>19 DEF PubsUpSound, UpShrinks
<1>22. Started'
  <2>1. \A k \in InMsgs : pub[k].st \in {"new", "sent"} => k \notin gone
    BY <1>14, <1>17 DEF Acknowledged
  <2>2. \A k \in InMsgs : k \in Acknowledged => k \in Held' \cup Settled'
    BY <1>15, <1>19 DEF Started
  <2> QED
    BY <1>1, <1>18, <1>19, <2>1, <2>2 DEF Started
<1>23. PacketsTrue'
  <2>1. \A k \in InMsgs : k \in Held => k \in Held' \cup Acknowledged
    BY <1>14, <1>15, <1>17
  <2>2. ASSUME NEW c \in RecsDown', NEW k \in InMsgs, c.mid = InMid(k)
        PROVE  k \in Held' \cup Acknowledged
    <3>1. ASSUME NEW m \in In, c.mid = m.mid PROVE k \in Held
      <4>1. m.msg \in InMsgs /\ InMid(m.msg) = InMid(k)
        BY <2>2, <3>1 DEF HeldSound
      <4>2. m.msg = k
        BY <4>1, InMidUnique
      <4> QED
        BY <4>2 DEF Held
    <3> QED
      BY <1>8, <2>1, <2>2, <3>1 DEF PacketsTrue
  <2>3. ASSUME NEW e \in EndsDown', NEW k \in InMsgs, e.mid = InMid(k)
        PROVE  k \in Settled'
    <3>1. CASE e \in EndsDown
      BY <1>19, <2>3, <3>1 DEF PacketsTrue
    <3>2. CASE e.mid = p.mid
      BY <1>16, <1>17, <1>19, <2>3, <3>2 DEF Started
    <3> QED
      BY <1>8, <3>1, <3>2
  <2> QED
    BY <1>3, <1>18, <2>2, <2>3 DEF PacketsTrue, UpShrinks
<1>24. Limited'
  <2>1. \A k \in gone : forwarded[k] = 0
    BY <1>14 DEF HeldWaits
  <2> QED
    BY <1>1, <1>19, <2>1 DEF Limited
<1> QED
  BY <1>3, <1>11, <1>20, <1>21, <1>22, <1>23, <1>24 DEF UpShrinks
\* The client starts a handshake.
LEMMA UpClientPublish ==
    ASSUME TypeOK, ForwardInv, client_publish
    PROVE  ForwardInv'
<1> USE DEF ForwardInv
<1>1. PICK k \in InMsgs, q \in InQos :
         /\ pub[k].st = "new"
         /\ pub' = [pub EXCEPT ![k] = [st |-> "sent", qos |-> q]]
         /\ ClientSend(<<ClientPublish(k, q)>>)
  BY DEF client_publish
<1>2. UNCHANGED list /\ toClient' = toClient /\ forwarded' = forwarded
  BY DEF client_publish
<1> DEFINE x == ClientPublish(k, q)
           r == <<x>>
<1>3. /\ q \in {1, 2} /\ r \in Seq(Packet)
      /\ x.msg = k /\ x.mid = InMid(k) /\ x.qos = q
      /\ Of(r, "PUBLISH") = {x} /\ Of(r, "PUBREL") = {}
  <2>1. q \in {1, 2}
    BY SessionAssumption
  <2>2. x \in Packet /\ x.type = "PUBLISH"
    BY ClientPublishType
  <2>3. x.msg = k /\ x.mid = InMid(k) /\ x.qos = q
    BY DEF ClientPublish
  <2> HIDE DEF x
  <2> QED
    BY <2>1, <2>2, <2>3, OfOne
<1>4. ClientSend(r)
  BY <1>1
<1> HIDE DEF x, r
<1>5. /\ pub'[k].st = "sent" /\ pub'[k].qos = q
      /\ \A j \in InMsgs : j # k => pub'[j] = pub[j]
  BY <1>1 DEF TypeOK
<1>6. Held' = Held /\ HeldSound' /\ Settled' = Settled
  BY <1>2, SameIn DEF Settled
<1>7. k \notin Acknowledged /\ Acknowledged' = Acknowledged
  BY <1>1, <1>5 DEF Acknowledged
<1>8. k \notin Held /\ forwarded[k] = 0 /\ \A y \in PubsUp : y.msg # k
  BY <1>1 DEF HeldWaits, Started, PubsUpSound
<1>9. \A p \in RelsUp : p.mid # x.mid
  BY <1>3, <1>7 DEF PacketsTrue
<1>10. PubsUp' \subseteq PubsUp \cup {x} /\ RelsUp' \subseteq RelsUp /\ PubsUpFirst'
  BY <1>3, <1>4, <1>9, UpSend
<1>11. RecsDown' = RecsDown /\ EndsDown' = EndsDown
  BY <1>2 DEF RecsDown, EndsDown
<1>12. HeldWaits'
  BY <1>2, <1>5, <1>6, <1>8 DEF HeldWaits, Held, HeldSound
<1>13. PubsUpSound'
  BY <1>2, <1>3, <1>5, <1>8, <1>10 DEF PubsUpSound
<1>14. Started'
  BY <1>2, <1>3, <1>5, <1>6, <1>7, <1>8 DEF Started
<1>15. PacketsTrue'
  BY <1>6, <1>7, <1>10, <1>11 DEF PacketsTrue
<1>16. Limited'
  BY <1>2, <1>5, <1>8 DEF Limited
<1> QED
  BY <1>6, <1>10, <1>12, <1>13, <1>14, <1>15, <1>16

\* What the client makes of the handshakes in S.
LEMMA HandshakesSet ==
    ASSUME TypeOK, NEW S \in SUBSET InMsgs, NEW st, SetHandshake(S, st)
    PROVE  \A k \in InMsgs : /\ pub'[k].qos = pub[k].qos
                             /\ k \in S => pub'[k].st = st
                             /\ k \notin S => pub'[k].st = pub[k].st
<1> TAKE k \in InMsgs
<1>1. pub[k] \in Handshake
  BY DEF TypeOK
<1>2. pub'[k] = IF k \in S THEN [pub[k] EXCEPT !.st = st] ELSE pub[k]
  BY DEF SetHandshake
<1> QED
  BY <1>1, <1>2 DEF Handshake

\* PUBREC: what it answers is held, or was released before.
LEMMA UpClientPubrec ==
    ASSUME TypeOK, ForwardInv, client_on_pubrec
    PROVE  ForwardInv'
<1> USE DEF ForwardInv
<1> DEFINE p == Head(toClient)
           S == Unfinished(p.mid)
           r == IF S = {} THEN <<>> ELSE <<Ack("PUBREL", p.mid)>>
<1>1. /\ toClient # <<>> /\ p.type = "PUBREC" /\ toClient' = Tail(toClient)
      /\ SetHandshake(S, "released") /\ ClientSend(r)
      /\ UNCHANGED list /\ forwarded' = forwarded
  BY DEF client_on_pubrec, ClientReading
<1>2. p \in Packet /\ p \in RecsDown
  BY <1>1, HeadOf DEF RecsDown, TypeOK
<1>3. DownShrinks
  BY <1>1, DownRead
<1>4. /\ S \in SUBSET InMsgs
      /\ \A k \in S : InMid(k) = p.mid /\ pub[k].st \in {"sent", "released"}
  BY DEF Unfinished
<1>5. r \in Seq(Packet)
  BY <1>2, PacketFields, AckType
<1>6. Of(r, "PUBLISH") = {} /\ \A c \in Of(r, "PUBREL") : c.mid = p.mid /\ S # {}
  <2>1. CASE S = {}
    BY <2>1, OfNone
  <2>2. CASE S # {}
    <3>1. r = <<Ack("PUBREL", p.mid)>>
      BY <2>2
    <3>2. Ack("PUBREL", p.mid).mid = p.mid
      BY DEF Ack
    <3>3. /\ Of(<<Ack("PUBREL", p.mid)>>, "PUBLISH") = {}
          /\ Of(<<Ack("PUBREL", p.mid)>>, "PUBREL") = {Ack("PUBREL", p.mid)}
      BY OneAck
    <3> HIDE DEF r
    <3> QED
      BY <2>2, <3>1, <3>2, <3>3
  <2> QED
    BY <2>1, <2>2
<1> HIDE DEF p, S, r
<1>7. /\ PubsUp' \subseteq PubsUp /\ PubsUpFirst'
      /\ \A c \in RelsUp' : c \in RelsUp \/ (c.mid = p.mid /\ S # {})
  <2>1. \A c \in RelsUp \cup Of(r, "PUBREL"), x \in Of(r, "PUBLISH") : c.mid # x.mid
    BY <1>6
  <2>2. /\ PubsUp' \subseteq PubsUp \cup Of(r, "PUBLISH")
        /\ RelsUp' \subseteq RelsUp \cup Of(r, "PUBREL")
        /\ PubsUpFirst'
    BY <1>1, <1>5, <2>1, UpSend
  <2> QED
    BY <1>6, <2>2
<1>8. Held' = Held /\ HeldSound' /\ Settled' = Settled
  BY <1>1, SameIn DEF Settled
<1>9. \A k \in InMsgs : /\ pub'[k].qos = pub[k].qos
                        /\ k \in S => pub'[k].st = "released"
                        /\ k \notin S => pub'[k].st = pub[k].st
  BY <1>1, <1>4, HandshakesSet
<1>10. \A k \in S : k \in Held \cup Acknowledged
  BY <1>2, <1>4 DEF PacketsTrue
<1>11. Acknowledged' = Acknowledged \cup S
  BY <1>4, <1>9 DEF Acknowledged
<1>12. HeldWaits'
  BY <1>1, <1>8, <1>9 DEF HeldWaits, Held, HeldSound
<1>13. PubsUpSound'
  BY <1>1, <1>7, <1>9 DEF PubsUpSound
<1>14. Started'
  <2>1. \A k \in InMsgs : k \in Acknowledged' => k \in Held' \cup Settled'
    BY <1>8, <1>10, <1>11 DEF Started
  <2> QED
    BY <1>1, <1>4, <1>8, <1>9, <2>1 DEF Started
<1>15. ASSUME NEW c \in RelsUp', NEW k \in InMsgs, c.mid = InMid(k)
       PROVE  k \in Acknowledged'
  <2>1. CASE c \in RelsUp
    BY <1>11, <1>15, <2>1 DEF PacketsTrue
  <2>2. CASE c.mid = p.mid /\ S # {}
    <3>1. PICK j \in S : TRUE
      BY <2>2
    <3>2. j = k
      BY <1>4, <1>15, <2>2, InMidUnique
    <3> QED
      BY <1>11, <3>2
  <2> QED
    BY <1>7, <2>1, <2>2
<1>16. PacketsTrue'
  BY <1>3, <1>8, <1>11, <1>15 DEF PacketsTrue, DownShrinks
<1>17. Limited'
  BY <1>1, <1>9 DEF Limited
<1> QED
  BY <1>7, <1>8, <1>12, <1>13, <1>14, <1>16, <1>17

\* PUBACK or PUBCOMP: what it answers is settled.
LEMMA UpClientPubackcomp ==
    ASSUME TypeOK, ForwardInv, client_on_pubackcomp
    PROVE  ForwardInv'
<1> USE DEF ForwardInv
<1> DEFINE p == Head(toClient)
           S == Unfinished(p.mid)
<1>1. /\ toClient # <<>> /\ p.type \in {"PUBACK", "PUBCOMP"}
      /\ toClient' = Tail(toClient) /\ SetHandshake(S, "done")
      /\ UNCHANGED <<list, toBroker, forwarded>>
  BY DEF client_on_pubackcomp, ClientReading
<1>2. p \in EndsDown
  BY <1>1, HeadOf DEF EndsDown, TypeOK
<1>3. DownShrinks /\ UpShrinks
  BY <1>1, DownRead, UpRead
<1>4. /\ S \in SUBSET InMsgs
      /\ \A k \in S : InMid(k) = p.mid /\ pub[k].st \in {"sent", "released"}
  BY DEF Unfinished
<1> HIDE DEF p, S
<1>5. Held' = Held /\ HeldSound' /\ Settled' = Settled
  BY <1>1, SameIn DEF Settled
<1>6. \A k \in InMsgs : /\ pub'[k].qos = pub[k].qos
                        /\ k \in S => pub'[k].st = "done"
                        /\ k \notin S => pub'[k].st = pub[k].st
  BY <1>1, <1>4, HandshakesSet
<1>7. \A k \in S : k \in Settled
  BY <1>2, <1>4 DEF PacketsTrue
<1>8. Acknowledged' = Acknowledged \cup S
  BY <1>4, <1>6 DEF Acknowledged
<1>9. HeldWaits'
  BY <1>1, <1>5, <1>6 DEF HeldWaits, Held, HeldSound
<1>10. PubsUpSound'
  BY <1>1, <1>3, <1>6 DEF PubsUpSound, UpShrinks
<1>11. Started'
  BY <1>1, <1>4, <1>5, <1>6, <1>7, <1>8 DEF Started
<1>12. PacketsTrue'
  BY <1>3, <1>5, <1>8 DEF PacketsTrue, UpShrinks, DownShrinks
<1>13. Limited'
  BY <1>1, <1>6 DEF Limited
<1> QED
  BY <1>3, <1>5, <1>9, <1>10, <1>11, <1>12, <1>13 DEF UpShrinks
\* A reconnect: the list is taken over, both directions start empty, and the
\* client resends what it has not finished.
LEMMA UpConnect ==
    ASSUME TypeOK, ListInv, ListInv', ForwardInv, mqtt3_handle_connect
    PROVE  ForwardInv'
<1> USE DEF ForwardInv
<1>1. PICK denied \in SUBSET Revocable :
         msgs' = {mqtt3_db_message_reconnect_reset(m) :
                     m \in msgs \ {m \in msgs : m.dir = "out" /\ m.msg \in denied}}
  BY DEF mqtt3_handle_connect
<1>2. /\ toBroker' = ClientResend /\ toClient' = <<>>
      /\ UNCHANGED <<forwarded, pub>>
  BY DEF mqtt3_handle_connect, client
<1>3. HeldSound' /\ Held' = Held
  <2> DEFINE R == msgs \ {m \in msgs : m.dir = "out" /\ m.msg \in denied}
             f == [m \in R |-> mqtt3_db_message_reconnect_reset(m)]
  <2>1. msgs' = {f[m] : m \in R}
    BY <1>1
  <2>2. R \in SUBSET msgs /\ R \subseteq Message /\ \A m \in msgs \ R : m.dir # "in"
    BY DEF TypeOK
  <2>3. f \in Restatements(R)
    BY <2>2, ReconnectResetType DEF Restatements
  <2>4. ASSUME NEW m \in R PROVE StateSound(m, f[m].state)
    <3>1. m \in Message /\ m.qos \in 0..2
      BY <2>2 DEF Message
    <3>2. f[m] = mqtt3_db_message_reconnect_reset(m)
      OBVIOUS
    <3>3. f[m].state \in {m.state, PublishState(m.qos), "resend_pubrel"}
      BY <3>1, <3>2 DEF mqtt3_db_message_reconnect_reset, Restarted, Message
    <3>4. m.dir = "in" => m.qos = 2
      BY DEF HeldSound, In
    <3>5. f[m].state # m.state => StateSound(m, f[m].state)
      BY <3>1, <3>3, <3>4, PublishStateType DEF StateSound
    <3> QED
      BY <3>5, SoundAsIs
  <2> HIDE DEF f, R
  <2> QED
    BY <2>1, <2>2, <2>3, <2>4, InKept
<1>4. RecsDown' = {} /\ EndsDown' = {}
  BY <1>2, OfNone DEF RecsDown, EndsDown
<1>5. /\ ClientResend \in Seq(Packet)
      /\ \A i \in 1..Len(ClientResend) : \E k \in InMsgs : Resent(ClientResend[i], k)
  BY ClientResendType
<1>6. ASSUME NEW x, NEW k \in InMsgs, Resent(x, k)
      PROVE  /\ x.mid = InMid(k)
             /\ x.type = "PUBLISH" => /\ x.msg = k /\ x.qos = pub[k].qos
                                      /\ pub[k].st = "sent"
             /\ x.type = "PUBREL" => pub[k].st = "released"
  BY <1>6 DEF Resent, ClientPublish, Ack
<1>7. \A x \in PubsUp' : \E k \in InMsgs :
          /\ x.mid = InMid(k) /\ x.msg = k /\ x.qos = pub[k].qos /\ pub[k].st = "sent"
  BY <1>2, <1>5, <1>6 DEF PubsUp, Of
<1>8. \A x \in RelsUp' : \E k \in InMsgs : x.mid = InMid(k) /\ pub[k].st = "released"
  BY <1>2, <1>5, <1>6 DEF RelsUp, Of
<1>9. PubsUpFirst'
  <2> SUFFICES ASSUME NEW i \in 1..Len(ClientResend), NEW j \in 1..Len(ClientResend),
                      ClientResend[i].type = "PUBREL",
                      ClientResend[j].type = "PUBLISH",
                      ClientResend[i].mid = ClientResend[j].mid
               PROVE  FALSE
    BY <1>2 DEF PubsUpFirst, NoneAfter
  <2>1. PICK a \in InMsgs : Resent(ClientResend[i], a)
    BY <1>5
  <2>2. PICK b \in InMsgs : Resent(ClientResend[j], b)
    BY <1>5
  <2>3. /\ InMid(a) = ClientResend[i].mid /\ pub[a].st = "released"
        /\ InMid(b) = ClientResend[j].mid /\ pub[b].st = "sent"
    BY <1>6, <2>1, <2>2
  <2>4. a = b
    BY <2>3, InMidUnique
  <2> QED
    BY <2>3, <2>4
<1>10. Settled' = Settled /\ Acknowledged' = Acknowledged
  BY <1>2 DEF Settled, Acknowledged
<1>11. HeldWaits' /\ Limited'
  BY <1>2, <1>3 DEF HeldWaits, Limited
<1>12. PubsUpSound'
  BY <1>2, <1>7 DEF PubsUpSound, Started
<1>13. Started'
  BY <1>2, <1>3, <1>10 DEF Started
<1>14. PacketsTrue'
  <2>1. ASSUME NEW c \in RelsUp', NEW k \in InMsgs, c.mid = InMid(k)
        PROVE  k \in Acknowledged
    BY <1>8, <2>1, InMidUnique DEF Acknowledged
  <2> QED
    BY <1>4, <1>10, <2>1 DEF PacketsTrue
<1> QED
  BY <1>3, <1>9, <1>11, <1>12, <1>13, <1>14
-----------------------------------------------------------------------------
LEMMA ForwardStep ==
    ASSUME TypeOK, ListInv, ListInv', ~dangling, ForwardInv, [Next]_vars
    PROVE  ForwardInv'
<1>1. CASE subs_process
  BY <1>1, UpSubsProcess
<1>2. CASE mqtt3_handle_publish
  BY <1>2, UpPublish1, UpPublish2
<1>3. CASE handle_pubackcomp
  BY <1>3, UpPubackcomp
<1>4. CASE handle_pubrec
  BY <1>4, UpPubrec
<1>5. CASE handle_pubrel
  BY <1>5, UpPubrel
<1>6. CASE mqtt3_db_message_write \/ message_write_fails
  BY <1>6, UpWrite
<1>7. CASE mqtt3_db_message_timeout_check
  BY <1>7, UpTimeout
<1>8. CASE client_publish
  BY <1>8, UpClientPublish
<1>9. CASE client_on_pubrec
  BY <1>9, UpClientPubrec
<1>10. CASE client_on_pubackcomp
  BY <1>10, UpClientPubackcomp
<1>11. CASE mqtt3_handle_connect
  BY <1>11, UpConnect
<1>12. CASE \/ client_on_publish \/ client_on_pubrel \/ do_disconnect \/ link_lost
            \/ client_closed \/ UNCHANGED vars
  BY <1>12, UpOthers
<1> QED
  BY <1>1, <1>2, <1>3, <1>4, <1>5, <1>6, <1>7, <1>8, <1>9, <1>10, <1>11, <1>12
  DEF Next, Exchange, Break, Loop, Receive

\* A QoS 2 message the client publishes reaches its subscribers at most once,
\* and exactly once when its handshake is over, a QoS 1 message at least once
\* by then, and a denied one never, whatever connections are lost, whoever
\* takes over the list, whatever is retried and however full the list is.
THEOREM AlwaysForwardedExactlyOnce ==
    Revocable = {} => (Spec => []ForwardedExactlyOnce)
<1> SUFFICES ASSUME Revocable = {} PROVE Spec => []ForwardedExactlyOnce
  OBVIOUS
<1>1. Init => ForwardInv
  <2> SUFFICES ASSUME Init PROVE ForwardInv
    OBVIOUS
  <2> USE DEF Init
  <2>1. In = {} /\ Held = {}
    BY DEF In, Held
  <2>2. PubsUp = {} /\ RelsUp = {} /\ RecsDown = {} /\ EndsDown = {} /\ PubsUpFirst
    BY OfNone DEF PubsUp, RelsUp, RecsDown, EndsDown, PubsUpFirst, NoneAfter
  <2>3. \A k \in InMsgs : pub[k].st = "new" /\ pub[k].qos = 0 /\ forwarded[k] = 0
    OBVIOUS
  <2>4. HeldSound /\ HeldWaits
    BY <2>1 DEF HeldSound, HeldWaits
  <2>5. PubsUpSound /\ Started /\ PacketsTrue /\ Limited
    BY <2>2, <2>3 DEF PubsUpSound, Started, PacketsTrue, Limited, Acknowledged
  <2> QED
    BY <2>2, <2>4, <2>5 DEF ForwardInv
<1>2. /\ TypeOK /\ ListInv /\ CountInv
      /\ (TypeOK /\ ListInv /\ CountInv)'
      /\ ForwardInv /\ [Next]_vars
      => ForwardInv'
  BY ForwardStep DEF CountInv
<1>3. TypeOK /\ ForwardInv => ForwardedExactlyOnce
  <2> SUFFICES ASSUME TypeOK, ForwardInv PROVE ForwardedExactlyOnce
    OBVIOUS
  <2>1. DOMAIN forwarded = InMsgs
    BY DEF TypeOK
  <2> QED
    BY <2>1 DEF ForwardedExactlyOnce, ForwardInv, Limited, Started, Settled
<1> QED
  BY <1>1, <1>2, <1>3, BaseInvariant, PTL DEF Spec
=============================================================================
