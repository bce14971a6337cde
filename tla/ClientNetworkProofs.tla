------------------------- MODULE ClientNetworkProofs -------------------------
(***************************************************************************)
(* Proofs about ClientNetwork, for every radix, socket size, number of     *)
(* threads and packet, and any number of lost connections: packets arrive  *)
(* whole and in order although neither end sees their boundaries.          *)
(***************************************************************************)
EXTENDS ClientNetwork, SequenceTheorems, TLAPS

\* What the sender lets through.
Packets == {p \in [command : 1..3, body : Seq(Nat)] : Fits(p.body)}

Calls == [at : {"append", "wake"}, packet : Packets]
Outgoing == [bytes : Seq(Nat), command : Nat]
Incoming == [command : Nat, count : Int, mult : Nat, length : Nat,
             to_process : Nat, body : Seq(Nat)]

Typed ==
    /\ todo \subseteq Bodies
    /\ call \in [Threads -> Calls \cup {NULL}]
    /\ out \in Seq(Packets) /\ queued \in Seq(Packets) /\ handled \in Seq(Packets)
    /\ current \in Outgoing \cup {NULL}
    /\ wire \in Seq(Nat)
    /\ in_packet \in Incoming
    /\ pc \in {"loop", "select", "serve", "write", "ended", "delay", "stopped",
               "reconnect", "clear", "socket", "hello"}
    /\ up \in BOOLEAN
-----------------------------------------------------------------------------
\* The bytes b are those of s after the first r.
Piece(b, s, r) == r + Len(b) <= Len(s) /\ \A j \in 1..Len(b) : b[j] = s[r + j]

\* s is the bytes of the packets q, and off[i] the end of the i-th of them.
Laid(q, s, off) ==
    /\ s \in Seq(Nat) /\ off \in [0..Len(q) -> Nat]
    /\ off[0] = 0 /\ off[Len(q)] = Len(s)
    /\ \A i, j \in 0..Len(q) : i <= j => off[i] <= off[j]
    /\ \A i \in 1..Len(q) : /\ off[i] = off[i - 1] + Len(Bytes(q[i]))
                            /\ Piece(Bytes(q[i]), s, off[i - 1])

\* What the receiver makes of the first i bytes of a packet.
Partly(in, p, i) ==
    LET n == Len(p.body)
        d == Digits(n)
    IN  /\ i \in 1..(d + n)
        /\ in.command = p.command
        /\ \/ /\ i <= d
              /\ in.count = 1 - i
              /\ in.length + Left(n)[i] * in.mult = n
              /\ in.to_process = 0 /\ in.body = <<>>
           \/ /\ i > d
              /\ in.count = d
              /\ in.to_process = (1 + d + n) - i
              /\ in.body = SubSeq(p.body, 1, (i - 1) - d)

\* The receiver has read r bytes.
ReadTo(off, r) ==
    LET h == Len(handled)
    IN  \/ in_packet = EmptyPacket /\ r = off[h]
        \/ h < Len(queued) /\ Partly(in_packet, queued[h + 1], r - off[h])

\* The sender has written w bytes.
WrittenTo(s, off, w) ==
    LET k == Len(queued) - Len(out)
    IN  /\ k \in Nat /\ \A j \in 1..Len(out) : out[j] = queued[k + j]
        /\ \/ current = NULL /\ w = off[k]
           \/ /\ current # NULL /\ k >= 1
              /\ Len(current.bytes) > 0 /\ w + Len(current.bytes) = off[k]
              /\ Piece(current.bytes, s, w)

\* The network thread serves a connection.
Serving == pc \in {"hello", "loop", "select", "serve", "write"}

Flow(s, off, r) ==
    /\ Laid(queued, s, off)
    /\ r \in Nat /\ Piece(wire, s, r)
    /\ ReadTo(off, r)
    /\ Serving => WrittenTo(s, off, r + Len(wire))

HandledFirst ==
    /\ Len(handled) <= Len(queued)
    /\ \A i \in 1..Len(handled) : handled[i] = queued[i]

NetworkInv ==
    /\ Typed
    /\ HandledFirst
    /\ LengthAgreed
    /\ pc = "socket" => current = NULL /\ \E s, off : Laid(out, s, off)
    /\ up => \E s, off, r : Flow(s, off, r)
-----------------------------------------------------------------------------
(* The remaining length and the bytes of a packet. *)

LEMMA Joined ==
    ASSUME NEW a \in Seq(Nat), NEW b \in Seq(Nat)
    PROVE  /\ a \o b \in Seq(Nat) /\ Len(a \o b) = Len(a) + Len(b)
           /\ \A i \in 1..Len(a) : (a \o b)[i] = a[i]
           /\ \A i \in 1..Len(b) : (a \o b)[Len(a) + i] = b[i]
<1>1. /\ a \o b \in Seq(Nat) /\ Len(a \o b) = Len(a) + Len(b)
      /\ Len(a) \in Nat /\ Len(b) \in Nat
      /\ \A i \in 1..Len(a) + Len(b) :
            (a \o b)[i] = IF i <= Len(a) THEN a[i] ELSE b[i - Len(a)]
  BY ConcatProperties, LenProperties
<1>2. ASSUME NEW i \in 1..Len(b) PROVE (a \o b)[Len(a) + i] = b[i]
  <2>1. Len(a) + i \in 1..Len(a) + Len(b) /\ ~(Len(a) + i <= Len(a))
        /\ (Len(a) + i) - Len(a) = i
    BY <1>1
  <2> QED
    BY <1>1, <2>1
<1> QED
  BY <1>1, <1>2

LEMMA Division ==
    ASSUME NEW n \in Nat
    PROVE  /\ n \div Radix \in Nat /\ n % Radix \in 0..(Radix - 1)
           /\ n = (n \div Radix) * Radix + (n % Radix)
BY NetworkAssumption

LEMMA LeftResult ==
    ASSUME NEW n \in Nat
    PROVE  /\ Left(n)[1] = n
           /\ \A i \in 1..5 : Left(n)[i] \in Nat
           /\ \A i \in 1..4 : Left(n)[i + 1] = Left(n)[i] \div Radix
<1> DEFINE a == n \div Radix
           b == a \div Radix
           c == b \div Radix
           e == c \div Radix
<1>1. a \in Nat /\ b \in Nat /\ c \in Nat /\ e \in Nat
  <2>1. a \in Nat
    BY Division
  <2> HIDE DEF a
  <2>2. b \in Nat
    BY <2>1, Division
  <2> HIDE DEF b
  <2>3. c \in Nat
    BY <2>2, Division
  <2> HIDE DEF c
  <2>4. e \in Nat
    BY <2>3, Division
  <2> QED
    BY <2>1, <2>2, <2>3, <2>4
<1>2. Left(n) = <<n, a, b, c, e>>
  BY DEF Left
<1>3. a = n \div Radix /\ b = a \div Radix /\ c = b \div Radix /\ e = c \div Radix
  OBVIOUS
<1> HIDE DEF a, b, c, e
<1>4. \A i \in 1..4 : i = 1 \/ i = 2 \/ i = 3 \/ i = 4
  OBVIOUS
<1>5. /\ Left(n)[1] = n /\ Left(n)[2] = a /\ Left(n)[3] = b
      /\ Left(n)[4] = c /\ Left(n)[5] = e
  BY <1>2
<1>6. ASSUME NEW i \in 1..5 PROVE Left(n)[i] \in Nat
  <2>1. i = 1 \/ i = 2 \/ i = 3 \/ i = 4 \/ i = 5
    OBVIOUS
  <2> QED
    BY <2>1, <1>1, <1>5, Zenon
<1>7. ASSUME NEW i \in 1..4 PROVE Left(n)[i + 1] = Left(n)[i] \div Radix
  <2>1. 1 + 1 = 2 /\ 2 + 1 = 3 /\ 3 + 1 = 4 /\ 4 + 1 = 5
    OBVIOUS
  <2>2. i = 1 \/ i = 2 \/ i = 3 \/ i = 4
    BY <1>4
  <2> QED
    BY <2>1, <2>2, <1>3, <1>5, Zenon
<1> QED
  BY <1>5, <1>6, <1>7

LEMMA DigitsResult ==
    ASSUME NEW n \in Nat
    PROVE  /\ Digits(n) \in 1..5
           /\ Digits(n) < 5 => Left(n)[Digits(n) + 1] = 0
<1> DEFINE Ends(d) == /\ d = 5 \/ Left(n)[d + 1] = 0
                      /\ \A i \in 2..d : Left(n)[i] > 0
<1>1. Left(n)[2] \in Nat /\ Left(n)[3] \in Nat /\ Left(n)[4] \in Nat
      /\ Left(n)[5] \in Nat
  BY LeftResult
<1>2. \E d \in 1..5 : Ends(d)
  <2>1. CASE Left(n)[2] = 0
    BY <2>1
  <2>2. CASE Left(n)[2] > 0 /\ Left(n)[3] = 0
    BY <2>2
  <2>3. CASE Left(n)[2] > 0 /\ Left(n)[3] > 0 /\ Left(n)[4] = 0
    BY <2>3
  <2>4. CASE Left(n)[2] > 0 /\ Left(n)[3] > 0 /\ Left(n)[4] > 0 /\ Left(n)[5] = 0
    BY <2>4
  <2>5. CASE Left(n)[2] > 0 /\ Left(n)[3] > 0 /\ Left(n)[4] > 0 /\ Left(n)[5] > 0
    BY <2>5
  <2> QED
    BY <1>1, <2>1, <2>2, <2>3, <2>4, <2>5
<1>3. Digits(n) = CHOOSE d \in 1..5 : Ends(d)
  BY DEF Digits
<1> HIDE DEF Ends
<1>4. Digits(n) \in 1..5 /\ Ends(Digits(n))
  BY <1>2, <1>3
<1> QED
  BY <1>4 DEF Ends

LEMMA RemainingLengthResult ==
    ASSUME NEW n \in Nat
    PROVE  /\ RemainingLength(n) \in Seq(Nat)
           /\ Len(RemainingLength(n)) = Digits(n)
           /\ \A i \in 1..Digits(n) :
                 RemainingLength(n)[i] = (Left(n)[i] % Radix)
                                         + (IF i < Digits(n) THEN Radix ELSE 0)
<1> DEFINE d == Digits(n)
           byte(i) == (Left(n)[i] % Radix) + (IF i < d THEN Radix ELSE 0)
<1>1. d \in 1..5
  BY DigitsResult
<1>2. RemainingLength(n) = [i \in 1..d |-> byte(i)]
  BY DEF RemainingLength
<1>3. \A i \in 1..d : byte(i) \in Nat
  <2> TAKE i \in 1..d
  <2>1. Left(n)[i] \in Nat
    <3>1. i \in 1..5
      BY <1>1
    <3> QED
      BY <3>1, LeftResult
  <2>2. Left(n)[i] % Radix \in 0..(Radix - 1)
    BY <2>1, Division
  <2> QED
    BY <2>2, NetworkAssumption
<1> HIDE DEF d, byte
<1>4. [i \in 1..d |-> byte(i)] \in Seq(Nat) /\ Len([i \in 1..d |-> byte(i)]) = d
  BY <1>1, <1>3
<1>5. RemainingLength(n) \in Seq(Nat) /\ Len(RemainingLength(n)) = d
      /\ \A i \in 1..d : RemainingLength(n)[i] = byte(i)
  BY <1>2, <1>4
<1> QED
  BY <1>5 DEF d, byte

Size(p) == 1 + Digits(Len(p.body)) + Len(p.body)

\* The bytes of a packet: command, length, body.
LEMMA BytesResult ==
    ASSUME NEW p \in Packets
    PROVE  LET n == Len(p.body)
               d == Digits(n)
           IN  /\ n \in Nat /\ d \in 1..4
               /\ Bytes(p) \in Seq(Nat) /\ Len(Bytes(p)) = Size(p)
               /\ Bytes(p)[1] = p.command
               /\ \A i \in 1..d : Bytes(p)[1 + i] = RemainingLength(n)[i]
               /\ \A i \in 1..n : Bytes(p)[(1 + d) + i] = p.body[i]
<1> DEFINE n == Len(p.body)
           d == Digits(n)
           c == <<p.command>>
           l == RemainingLength(n)
<1>1. n \in Nat /\ p.body \in Seq(Nat) /\ p.command \in Nat /\ d < 5
  BY DEF Packets, Fits
<1>2. d \in 1..4 /\ l \in Seq(Nat) /\ Len(l) = d
  <2> HIDE DEF n
  <2>1. d \in 1..5 /\ l \in Seq(Nat) /\ Len(l) = d
    BY <1>1, DigitsResult, RemainingLengthResult
  <2> QED
    BY <1>1, <2>1
<1>3. c \in Seq(Nat) /\ Len(c) = 1 /\ c[1] = p.command
  BY <1>1
<1>4. Bytes(p) = (c \o l) \o p.body
  BY DEF Bytes
<1> HIDE DEF c, l, d
<1>5. /\ c \o l \in Seq(Nat) /\ Len(c \o l) = 1 + d
      /\ (c \o l)[1] = p.command
      /\ \A i \in 1..d : (c \o l)[1 + i] = l[i]
  <2>1. /\ c \o l \in Seq(Nat) /\ Len(c \o l) = Len(c) + Len(l)
        /\ \A i \in 1..Len(c) : (c \o l)[i] = c[i]
        /\ \A i \in 1..Len(l) : (c \o l)[Len(c) + i] = l[i]
    BY <1>2, <1>3, Joined
  <2> QED
    BY <1>2, <1>3, <2>1
<1> DEFINE f == c \o l
<1> HIDE DEF f
<1>6. /\ f \in Seq(Nat) /\ Len(f) = 1 + d /\ f[1] = p.command
      /\ \A i \in 1..d : f[1 + i] = l[i]
  BY <1>5 DEF f
<1>7. /\ f \o p.body \in Seq(Nat) /\ Len(f \o p.body) = 1 + d + n
      /\ (f \o p.body)[1] = p.command
      /\ \A i \in 1..d : (f \o p.body)[1 + i] = l[i]
      /\ \A i \in 1..n : (f \o p.body)[(1 + d) + i] = p.body[i]
  <2>1. /\ f \o p.body \in Seq(Nat) /\ Len(f \o p.body) = Len(f) + n
        /\ \A i \in 1..Len(f) : (f \o p.body)[i] = f[i]
        /\ \A i \in 1..n : (f \o p.body)[Len(f) + i] = p.body[i]
    BY <1>1, <1>6, Joined
  <2>2. 1 \in 1..Len(f) /\ \A i \in 1..d : 1 + i \in 1..Len(f)
    BY <1>2, <1>6
  <2> QED
    BY <1>6, <2>1, <2>2
<1>8. Bytes(p) = f \o p.body
  BY <1>4 DEF f
<1> QED
  BY <1>1, <1>2, <1>7, <1>8 DEF Size, d, l
-----------------------------------------------------------------------------
(* Packets laid end to end. *)

LEMMA LaidNone == \E s, off : Laid(<<>>, s, off)
<1> DEFINE off == [i \in 0..0 |-> 0]
<1>1. Laid(<<>>, <<>>, off)
  BY DEF Laid
<1> QED
  BY <1>1

LEMMA PieceKept ==
    ASSUME NEW s \in Seq(Nat), NEW t \in Seq(Nat), NEW b \in Seq(Nat), NEW r \in Nat,
           Piece(b, s, r)
    PROVE  Piece(b, s \o t, r)
<1>1. /\ Len(s \o t) = Len(s) + Len(t)
      /\ \A i \in 1..Len(s) : (s \o t)[i] = s[i]
  BY Joined
<1>2. Len(s) \in Nat /\ Len(t) \in Nat /\ Len(b) \in Nat
  OBVIOUS
<1>3. \A j \in 1..Len(b) : r + j \in 1..Len(s)
  BY <1>2 DEF Piece
<1>4. \A j \in 1..Len(b) : b[j] = (s \o t)[r + j]
  BY <1>1, <1>3 DEF Piece
<1>5. r + Len(b) <= Len(s \o t)
  BY <1>1, <1>2 DEF Piece
<1> QED
  BY <1>4, <1>5 DEF Piece

\* Another packet goes behind them.
LEMMA LaidAppend ==
    ASSUME NEW q \in Seq(Packets), NEW p \in Packets, NEW s, NEW off, Laid(q, s, off)
    PROVE  \E t, new :
              /\ Laid(Append(q, p), t, new)
              /\ \A i \in 0..Len(q) : new[i] = off[i]
              /\ \A b \in Seq(Nat), r \in Nat : Piece(b, s, r) => Piece(b, t, r)
<1> DEFINE b == Bytes(p)
           n == Len(q)
           t == s \o b
           new == [i \in 0..(n + 1) |-> IF i <= n THEN off[i] ELSE Len(s) + Len(b)]
           u == Append(q, p)
<1>1. n \in Nat /\ b \in Seq(Nat) /\ s \in Seq(Nat) /\ Len(s) \in Nat /\ Len(b) \in Nat
  BY BytesResult DEF Laid
<1>2. /\ u \in Seq(Packets) /\ Len(u) = n + 1
      /\ \A i \in 1..n : u[i] = q[i]
      /\ u[n + 1] = p
  OBVIOUS
<1> HIDE DEF b, u
<1>3. /\ t \in Seq(Nat) /\ Len(t) = Len(s) + Len(b)
      /\ \A i \in 1..Len(b) : t[Len(s) + i] = b[i]
  BY <1>1, Joined
<1>4. \A x \in Seq(Nat), r \in Nat : Piece(x, s, r) => Piece(x, t, r)
  BY <1>1, PieceKept
<1> HIDE DEF t
<1>5. /\ new \in [0..(n + 1) -> Nat]
      /\ \A i \in 0..n : new[i] = off[i]
      /\ new[n + 1] = Len(t) /\ new[n] = Len(s) /\ new[0] = 0
  <2>1. \A i \in 0..n : off[i] \in Nat
    BY <1>1 DEF Laid
  <2>2. off[0] = 0 /\ off[n] = Len(s)
    BY DEF Laid
  <2> QED
    BY <1>1, <1>3, <2>1, <2>2
<1> HIDE DEF new
<1>6. ASSUME NEW i \in 0..(n + 1), NEW j \in 0..(n + 1), i <= j
      PROVE  new[i] <= new[j]
  <2>1. \A k \in 0..n : off[k] \in Nat /\ off[k] <= Len(s)
    BY <1>1 DEF Laid
  <2>2. CASE j <= n
    <3>1. i \in 0..n /\ j \in 0..n
      BY <1>1, <1>6, <2>2
    <3> QED
      BY <1>5, <1>6, <3>1 DEF Laid
  <2>3. CASE ~(j <= n) /\ i <= n
    <3>1. i \in 0..n /\ j = n + 1
      BY <1>1, <1>6, <2>3
    <3>2. new[i] = off[i] /\ new[j] = Len(s) + Len(b)
      BY <1>3, <1>5, <3>1
    <3>3. off[i] \in Nat /\ off[i] <= Len(s)
      BY <2>1, <3>1
    <3> QED
      BY <1>1, <3>2, <3>3
  <2>4. CASE ~(i <= n)
    <3>1. i = j
      BY <1>1, <1>6, <2>4
    <3>2. new[i] \in Nat
      BY <1>5
    <3> QED
      BY <3>1, <3>2
  <2> QED
    BY <2>2, <2>3, <2>4
<1>7. ASSUME NEW i \in 1..(n + 1)
      PROVE  /\ new[i] = new[i - 1] + Len(Bytes(u[i]))
             /\ Piece(Bytes(u[i]), t, new[i - 1])
  <2>1. CASE i <= n
    <3>1. i \in 1..n /\ i \in 0..n /\ i - 1 \in 0..n
      BY <1>1, <2>1
    <3>2. /\ new[i] = off[i] /\ new[i - 1] = off[i - 1] /\ u[i] = q[i]
          /\ off[i - 1] \in Nat /\ q[i] \in Packets
      <4>1. off[i - 1] \in Nat /\ q[i] \in Packets
        BY <3>1 DEF Laid
      <4> QED
        BY <1>2, <1>5, <3>1, <4>1
    <3>3. Bytes(q[i]) \in Seq(Nat)
      BY <3>2, BytesResult
    <3>4. off[i] = off[i - 1] + Len(Bytes(q[i])) /\ Piece(Bytes(q[i]), s, off[i - 1])
      BY <3>1 DEF Laid
    <3> QED
      BY <1>4, <3>2, <3>3, <3>4
  <2>2. CASE ~(i <= n)
    <3>1. i = n + 1 /\ i - 1 = n
      BY <1>1, <2>2
    <3>2. Bytes(u[i]) = b
      BY <1>2, <3>1 DEF b
    <3>3. new[i] = Len(s) + Len(b) /\ new[i - 1] = Len(s)
      BY <1>3, <1>5, <3>1
    <3>4. Piece(b, t, Len(s))
      BY <1>1, <1>3 DEF Piece
    <3> QED
      BY <3>2, <3>3, <3>4
  <2> QED
    BY <2>1, <2>2
<1>8. Laid(u, t, new)
  BY <1>2, <1>3, <1>5, <1>6, <1>7 DEF Laid
<1> QED
  BY <1>4, <1>5, <1>8 DEF u

\* Positions up to the end of a packet.
LEMMA LaidResult ==
    ASSUME NEW q \in Seq(Packets), NEW s, NEW off, Laid(q, s, off)
    PROVE  /\ s \in Seq(Nat) /\ off[0] = 0 /\ off[Len(q)] = Len(s)
           /\ \A i \in 0..Len(q) : off[i] \in Nat /\ off[i] <= Len(s)
           /\ \A i \in 0..Len(q) : i < Len(q) =>
                 /\ off[i + 1] = off[i] + Size(q[i + 1])
                 /\ Piece(Bytes(q[i + 1]), s, off[i])
                 /\ q[i + 1] \in Packets
<1>1. Len(q) \in Nat
  OBVIOUS
<1>2. ASSUME NEW i \in 0..Len(q), i < Len(q)
      PROVE  /\ off[i + 1] = off[i] + Size(q[i + 1])
             /\ Piece(Bytes(q[i + 1]), s, off[i])
             /\ q[i + 1] \in Packets
  <2>1. i + 1 \in 1..Len(q) /\ (i + 1) - 1 = i
    BY <1>1, <1>2
  <2>2. q[i + 1] \in Packets
    BY <2>1
  <2> QED
    BY <2>1, <2>2, BytesResult DEF Laid
<1>3. \A i \in 0..Len(q) : off[i] \in Nat /\ off[i] <= Len(s)
  BY <1>1, SMTT(60) DEF Laid
<1> QED
  BY <1>2, <1>3 DEF Laid
-----------------------------------------------------------------------------
(* The sender. *)

\* No step but a reconnect makes the network thread serve again or connect.
Onward == (Serving' => Serving) /\ (pc' = "socket" => pc = "socket")

LEMMA QuietStep ==
    ASSUME NetworkInv, Typed', Onward,
           UNCHANGED <<out, current, wire, up, in_packet, handled, queued>>
    PROVE  NetworkInv'
<1>1. HandledFirst' /\ LengthAgreed'
  BY DEF NetworkInv, HandledFirst, LengthAgreed
<1>2. pc' = "socket" => current' = NULL /\ \E s, off : Laid(out', s, off)
  BY DEF NetworkInv, Onward
<1>3. ASSUME NEW s, NEW off, NEW r, Flow(s, off, r) PROVE Flow(s, off, r)'
  BY <1>3 DEF Flow, ReadTo, WrittenTo, Onward
<1> QED
  BY <1>1, <1>2, <1>3 DEF NetworkInv

LEMMA CallType ==
    ASSUME Typed, NEW t \in Threads, NEW c \in 1..3, NEW b \in Seq(Nat),
           Call(t, Packet(c, b))
    PROVE  call' \in [Threads -> Calls \cup {NULL}]
<1>1. Fits(b) => Packet(c, b) \in Packets
  BY DEF Packet, Packets
<1>2. Packet(c, b).body = b
  BY DEF Packet
<1>3. Fits(b) => [at |-> "append", packet |-> Packet(c, b)] \in Calls
  BY <1>1 DEF Calls
<1> QED
  BY <1>2, <1>3 DEF Call, Typed

LEMMA QuietSteps ==
    ASSUME NetworkInv,
           \/ \E t \in Threads : \/ mosquitto_publish(t) \/ mosquitto_disconnect(t)
                                 \/ packet_queue_wake(t)
           \/ mosquitto_loop \/ select \/ select_timeout \/ mosquitto_loop_read
           \/ mosquitto_loop_pair \/ packet_write_full \/ packet_write_lost
           \/ loop_forever \/ reconnect_state
           \/ UNCHANGED vars
    PROVE  NetworkInv'
<1>1. Typed
  BY DEF NetworkInv
<1>2. UNCHANGED <<out, current, wire, up, in_packet, handled, queued>>
  BY DEF mosquitto_publish, mosquitto_disconnect, packet_queue_wake, mosquitto_loop,
         select, select_timeout, mosquitto_loop_read, mosquitto_loop_pair,
         packet_write_full, packet_write_lost, loop_forever, reconnect_state, vars, peer
<1>3. CASE \E t \in Threads : \/ mosquitto_publish(t) \/ mosquitto_disconnect(t)
                              \/ packet_queue_wake(t)
  <2> PICK t \in Threads : \/ mosquitto_publish(t) \/ mosquitto_disconnect(t)
                           \/ packet_queue_wake(t)
    BY <1>3
  <2>1. pc' = pc
    BY DEF mosquitto_publish, mosquitto_disconnect, packet_queue_wake, net
  <2>2. call' \in [Threads -> Calls \cup {NULL}] /\ todo' \subseteq Bodies
    <3>1. CASE mosquitto_publish(t)
      <4>1. PICK b \in todo : todo' = todo \ {b} /\ Call(t, Packet(PUBLISH, b))
        BY <3>1 DEF mosquitto_publish
      <4>2. b \in Seq(Nat) /\ PUBLISH \in 1..3
        BY <1>1, NetworkAssumption DEF Typed, PUBLISH
      <4> QED
        BY <1>1, <4>1, <4>2, CallType DEF Typed
    <3>2. CASE mosquitto_disconnect(t)
      <4>1. Call(t, Packet(DISCONNECT, <<>>)) /\ todo' = todo
        BY <3>2 DEF mosquitto_disconnect
      <4>2. <<>> \in Seq(Nat) /\ DISCONNECT \in 1..3
        BY DEF DISCONNECT
      <4> QED
        BY <1>1, <4>1, <4>2, CallType DEF Typed
    <3>3. CASE packet_queue_wake(t)
      BY <1>1, <3>3 DEF packet_queue_wake, Typed
    <3> QED
      BY <3>1, <3>2, <3>3
  <2>3. Typed'
    BY <1>1, <1>2, <2>1, <2>2 DEF Typed
  <2>4. Onward
    BY <2>1 DEF Onward, Serving
  <2> QED
    BY <1>2, <2>3, <2>4, QuietStep
<1>4. CASE \/ mosquitto_loop \/ select \/ select_timeout \/ mosquitto_loop_read
           \/ mosquitto_loop_pair \/ packet_write_full \/ packet_write_lost
           \/ loop_forever \/ reconnect_state
           \/ UNCHANGED vars
  <2>1. UNCHANGED <<call, todo>>
    BY <1>4 DEF mosquitto_loop, select, select_timeout, mosquitto_loop_read,
         mosquitto_loop_pair, packet_write_full, packet_write_lost, loop_forever,
         reconnect_state, vars, app
  <2>2. /\ Onward
        /\ pc' \in {"loop", "select", "serve", "write", "ended", "delay", "stopped",
                    "reconnect", "clear", "socket", "hello"}
    BY <1>1, <1>4 DEF mosquitto_loop, select, select_timeout, mosquitto_loop_read,
         mosquitto_loop_pair, packet_write_full, packet_write_lost, loop_forever,
         reconnect_state, socket_close, vars, net, Onward, Serving, Typed
  <2>3. Typed'
    BY <1>1, <1>2, <2>1, <2>2 DEF Typed
  <2> QED
    BY <1>2, <2>2, <2>3, QuietStep
<1> QED
  BY <1>3, <1>4

\* A packet joins the queue, of this connection and of the one being made.
LEMMA QueueStep ==
    ASSUME NetworkInv, Typed', Onward, NEW p \in Packets, Queue(p),
           UNCHANGED <<current, wire, up, in_packet, handled>>
    PROVE  NetworkInv'
<1>1. out' = Append(out, p) /\ queued' = Append(queued, p)
  BY DEF Queue
<1>2. out \in Seq(Packets) /\ queued \in Seq(Packets) /\ handled \in Seq(Packets)
      /\ wire \in Seq(Nat) /\ current \in Outgoing \cup {NULL}
  BY DEF NetworkInv, Typed
<1>3. /\ Len(queued') = Len(queued) + 1 /\ Len(out') = Len(out) + 1
      /\ \A i \in 1..Len(queued) : queued'[i] = queued[i]
      /\ \A i \in 1..Len(out) : out'[i] = out[i]
      /\ queued'[Len(queued) + 1] = p /\ out'[Len(out) + 1] = p
      /\ Len(queued) \in Nat /\ Len(out) \in Nat /\ Len(handled) \in Nat
  BY <1>1, <1>2
<1>4. HandledFirst' /\ LengthAgreed'
  BY <1>3 DEF NetworkInv, HandledFirst, LengthAgreed
<1>5. ASSUME pc' = "socket" PROVE current' = NULL /\ \E s, off : Laid(out', s, off)
  <2>1. PICK s, off : Laid(out, s, off)
    BY <1>5 DEF NetworkInv, Onward
  <2>2. \E t, new : Laid(Append(out, p), t, new)
    BY <1>2, <2>1, LaidAppend
  <2> QED
    BY <1>1, <1>5, <2>2 DEF NetworkInv, Onward
<1>6. ASSUME NEW s, NEW off, NEW r, Flow(s, off, r)
      PROVE  \E t, new : Flow(t, new, r)'
  <2>1. PICK t, new : /\ Laid(Append(queued, p), t, new)
                      /\ \A i \in 0..Len(queued) : new[i] = off[i]
                      /\ \A b \in Seq(Nat), x \in Nat : Piece(b, s, x) => Piece(b, t, x)
    BY <1>2, <1>6, LaidAppend DEF Flow
  <2>2. Laid(queued', t, new)
    BY <1>1, <2>1
  <2>3. r \in Nat /\ Piece(wire', t, r)
    BY <1>2, <1>6, <2>1 DEF Flow
  <2>4. ReadTo(new, r)'
    <3>1. Len(handled) \in 0..Len(queued)
      BY <1>3 DEF NetworkInv, HandledFirst
    <3>2. new[Len(handled)] = off[Len(handled)]
      BY <2>1, <3>1
    <3>3. Len(handled) < Len(queued) =>
             queued'[Len(handled) + 1] = queued[Len(handled) + 1]
      BY <1>3, <3>1
    <3> QED
      BY <1>3, <1>6, <3>2, <3>3 DEF Flow, ReadTo
  <2>5. Serving' => WrittenTo(t, new, r + Len(wire))'
    <3> SUFFICES ASSUME Serving PROVE WrittenTo(t, new, r + Len(wire))'
      BY DEF Onward
    <3> DEFINE k == Len(queued) - Len(out)
               w == r + Len(wire)
    <3>1. WrittenTo(s, off, w)
      BY <1>6 DEF Flow
    <3>2. k \in Nat /\ k <= Len(queued) /\ k = Len(queued') - Len(out')
      BY <1>3, <3>1 DEF WrittenTo
    <3>3. new[k] = off[k]
      BY <1>3, <2>1, <3>2
    <3>4. ASSUME NEW j \in 1..Len(out') PROVE out'[j] = queued'[k + j]
      <4>1. CASE j <= Len(out)
        <5>1. j \in 1..Len(out) /\ k + j \in 1..Len(queued)
          BY <1>3, <3>2, <4>1
        <5>2. out[j] = queued[k + j]
          BY <3>1, <5>1 DEF WrittenTo
        <5> QED
          BY <1>3, <5>1, <5>2
      <4>2. CASE ~(j <= Len(out))
        <5>1. j = Len(out) + 1 /\ k + j = Len(queued) + 1
          BY <1>3, <3>2, <4>2
        <5> QED
          BY <1>3, <5>1
      <4> QED
        BY <4>1, <4>2
    <3>5. w \in Nat /\ Len(wire') = Len(wire)
      BY <1>2, <1>6 DEF Flow
    <3>6. current # NULL => (Piece(current.bytes, s, w) => Piece(current.bytes, t, w))
      BY <1>2, <2>1, <3>5 DEF Outgoing
    <3>7. CASE current = NULL
      <4>1. r + Len(wire') = new[k]
        BY <3>1, <3>3, <3>5, <3>7 DEF WrittenTo
      <4> QED
        BY <3>2, <3>4, <3>7, <4>1 DEF WrittenTo
    <3>8. CASE current # NULL
      <4>1. /\ k >= 1 /\ Len(current.bytes) > 0 /\ w + Len(current.bytes) = new[k]
            /\ Piece(current.bytes, t, w)
        BY <3>1, <3>3, <3>6, <3>8 DEF WrittenTo
      <4>2. w = r + Len(wire')
        BY <3>5
      <4> HIDE DEF w, k
      <4>3. /\ k >= 1 /\ Len(current'.bytes) > 0
            /\ (r + Len(wire')) + Len(current'.bytes) = new[k]
            /\ Piece(current'.bytes, t, r + Len(wire'))
        BY <4>1, <4>2
      <4> QED
        BY <3>2, <3>4, <3>8, <4>3 DEF WrittenTo
    <3> QED
      BY <3>7, <3>8
  <2>6. Flow(t, new, r)'
    BY <2>2, <2>3, <2>4, <2>5 DEF Flow
  <2> QED
    BY <2>6
<1> QED
  BY <1>4, <1>5, <1>6 DEF NetworkInv

LEMMA QueueSteps ==
    ASSUME NetworkInv, (\E t \in Threads : packet_queue(t)) \/ send_connect
    PROVE  NetworkInv'
<1>1. Typed
  BY DEF NetworkInv
<1>2. UNCHANGED <<current, wire, up, in_packet, handled, todo>>
  BY DEF packet_queue, send_connect, peer, app
<1>3. \E p \in Packets : Queue(p)
  <2>1. ASSUME NEW t \in Threads, packet_queue(t) PROVE call[t].packet \in Packets
    BY <1>1, <2>1 DEF packet_queue, Typed, Calls
  <2>2. Packet(CONNECT, Hello) \in Packets
    BY NetworkAssumption, HelloFits DEF Packet, Packets, CONNECT
  <2> QED
    BY <2>1, <2>2 DEF packet_queue, send_connect
<1>4. PICK p \in Packets : Queue(p)
  BY <1>3
<1>5. call' \in [Threads -> Calls \cup {NULL}]
  <2>1. ASSUME NEW t \in Threads, packet_queue(t) PROVE call' \in [Threads -> Calls \cup {NULL}]
    <3>1. call[t] \in Calls /\ call' = [call EXCEPT ![t].at = "wake"]
      BY <1>1, <2>1 DEF packet_queue, Typed
    <3>2. [call[t] EXCEPT !.at = "wake"] \in Calls
      BY <3>1 DEF Calls
    <3> QED
      BY <1>1, <3>1, <3>2 DEF Typed
  <2>2. CASE send_connect
    BY <1>1, <2>2 DEF send_connect, app, Typed
  <2> QED
    BY <2>1, <2>2
<1>6. Onward /\ pc' \in {pc, "loop"}
  BY DEF packet_queue, send_connect, net, Onward, Serving
<1>7. out' \in Seq(Packets) /\ queued' \in Seq(Packets)
  BY <1>1, <1>4 DEF Queue, Typed
<1>8. Typed'
  BY <1>1, <1>2, <1>5, <1>6, <1>7 DEF Typed
<1> QED
  BY <1>2, <1>4, <1>6, <1>8, QueueStep

\* Where the packet after the first k lies.
LEMMA LaidNext ==
    ASSUME NEW q \in Seq(Packets), NEW s, NEW off, Laid(q, s, off),
           NEW k \in 0..Len(q), k < Len(q)
    PROVE  off[k + 1] = off[k] + Size(q[k + 1]) /\ Piece(Bytes(q[k + 1]), s, off[k])
  BY LaidResult

\* The next packet is taken where the one before it ends.
LEMMA TakeResult ==
    ASSUME Typed, NEW s, NEW off, Laid(queued, s, off),
           NEW k \in Nat, k = Len(queued) - Len(out),
           \A j \in 1..Len(out) : out[j] = queued[k + j],
           NEW w, w = off[k], Take, queued' = queued
    PROVE  /\ out' \in Seq(Packets) /\ current' \in Outgoing \cup {NULL}
           /\ WrittenTo(s, off, w)'
<1>1. out \in Seq(Packets) /\ queued \in Seq(Packets)
  BY DEF Typed
<1>2. Len(out) \in Nat /\ Len(queued) \in Nat /\ k <= Len(queued) /\ k \in 0..Len(queued)
  BY <1>1
<1>3. CASE out = <<>>
  <2>1. out' = out /\ current' = NULL
    BY <1>3 DEF Take
  <2> QED
    BY <1>1, <2>1 DEF WrittenTo
<1>4. CASE out # <<>>
  <2> DEFINE p == Head(out)
             b == Bytes(p)
             c == [bytes |-> b, command |-> p.command]
  <2>1. out' = Tail(out) /\ current' = c
    BY <1>4 DEF Take
  <2>2. /\ p \in Packets /\ p = out[1] /\ 1 \in 1..Len(out) /\ Len(out) >= 1
        /\ Tail(out) \in Seq(Packets) /\ Len(Tail(out)) = Len(out) - 1
        /\ \A j \in 1..Len(Tail(out)) : Tail(out)[j] = out[j + 1] /\ j + 1 \in 1..Len(out)
    BY <1>1, <1>4
  <2>3. p = queued[k + 1] /\ k < Len(queued)
    BY <1>2, <2>2
  <2>4. /\ off[k + 1] = off[k] + Size(p) /\ Piece(b, s, off[k])
    <3>1. /\ off[k + 1] = off[k] + Size(queued[k + 1])
          /\ Piece(Bytes(queued[k + 1]), s, off[k])
      BY <1>1, <1>2, <2>3, LaidNext
    <3> QED
      BY <2>3, <3>1, Zenon
  <2>5. b \in Seq(Nat) /\ Len(b) = Size(p) /\ Len(b) > 0 /\ p.command \in Nat
    <3>1. Len(p.body) \in Nat /\ Digits(Len(p.body)) \in 1..4
          /\ b \in Seq(Nat) /\ Len(b) = Size(p)
      BY <2>2, BytesResult
    <3>2. p.command \in Nat
      BY <2>2 DEF Packets
    <3> QED
      BY <3>1, <3>2 DEF Size
  <2> HIDE DEF b, p
  <2>6. c \in Outgoing /\ c # NULL /\ c.bytes = b
    BY <2>5, NetworkAssumption DEF Outgoing
  <2> HIDE DEF c
  <2>7. Len(queued) - Len(out') = k + 1 /\ k + 1 \in Nat /\ k + 1 >= 1
    BY <1>2, <2>1, <2>2
  <2>8. ASSUME NEW j \in 1..Len(out') PROVE out'[j] = queued[(k + 1) + j]
    <3>1. j \in Nat /\ k + (j + 1) = (k + 1) + j
      BY <2>1, <2>2
    <3>2. out'[j] = out[j + 1] /\ j + 1 \in 1..Len(out)
      BY <2>1, <2>2
    <3> QED
      BY <3>1, <3>2
  <2>9. w + Len(b) = off[k + 1] /\ Piece(b, s, w)
    BY <2>4, <2>5
  <2> QED
    BY <2>1, <2>2, <2>5, <2>6, <2>7, <2>8, <2>9 DEF WrittenTo
<1> QED
  BY <1>3, <1>4

LEMMA WriteNextStep ==
    ASSUME NetworkInv, packet_write_next
    PROVE  NetworkInv'
<1>1. /\ current = NULL /\ Take /\ pc = "write" /\ pc' \in {"loop", "write"}
      /\ UNCHANGED <<call, todo, wire, up, in_packet, handled, queued>>
  BY DEF packet_write_next, app, peer
<1>2. Typed /\ HandledFirst' /\ LengthAgreed'
  BY <1>1 DEF NetworkInv, HandledFirst, LengthAgreed
<1>3. out' \in Seq(Packets) /\ current' \in Outgoing \cup {NULL}
  <2>1. out \in Seq(Packets)
    BY <1>2 DEF Typed
  <2>2. CASE out = <<>>
    BY <1>1, <2>1, <2>2 DEF Take
  <2>3. CASE out # <<>>
    <3>1. Head(out) \in Packets /\ Tail(out) \in Seq(Packets)
      BY <2>1, <2>3
    <3>2. Bytes(Head(out)) \in Seq(Nat) /\ Head(out).command \in Nat
      BY <3>1, BytesResult DEF Packets
    <3>3. /\ out' = Tail(out)
          /\ current' = [bytes |-> Bytes(Head(out)), command |-> Head(out).command]
      BY <1>1, <2>3 DEF Take
    <3> QED
      BY <3>1, <3>2, <3>3 DEF Outgoing
  <2> QED
    BY <2>2, <2>3
<1>4. Typed'
  BY <1>1, <1>2, <1>3 DEF Typed
<1>5. ASSUME NEW s, NEW off, NEW r, Flow(s, off, r) PROVE Flow(s, off, r)'
  <2> DEFINE k == Len(queued) - Len(out)
             w == r + Len(wire')
  <2>1. Laid(queued, s, off) /\ WrittenTo(s, off, w)
    BY <1>1, <1>5 DEF Flow, Serving
  <2>2. /\ k \in Nat /\ w = off[k]
        /\ \A j \in 1..Len(out) : out[j] = queued[k + j]
    BY <1>1, <2>1 DEF WrittenTo
  <2> HIDE DEF k
  <2>3. k = Len(queued) - Len(out)
    BY DEF k
  <2>4. WrittenTo(s, off, r + Len(wire))'
    BY <1>1, <1>2, <2>1, <2>2, <2>3, TakeResult
  <2> QED
    BY <1>1, <1>5, <2>4 DEF Flow, ReadTo
<1> QED
  BY <1>1, <1>2, <1>4, <1>5 DEF NetworkInv

LEMMA PieceOf ==
    ASSUME NEW b \in Seq(Nat), NEW s \in Seq(Nat), NEW r \in Nat, Piece(b, s, r),
           NEW n \in 1..Len(b)
    PROVE  /\ SubSeq(b, 1, n) \in Seq(Nat) /\ Len(SubSeq(b, 1, n)) = n
           /\ Piece(SubSeq(b, 1, n), s, r)
           /\ SubSeq(b, n + 1, Len(b)) \in Seq(Nat)
           /\ Len(SubSeq(b, n + 1, Len(b))) = Len(b) - n
           /\ Piece(SubSeq(b, n + 1, Len(b)), s, r + n)
<1> DEFINE f == SubSeq(b, 1, n)
           l == SubSeq(b, n + 1, Len(b))
<1>1. Len(b) \in Nat /\ n \in Nat /\ n <= Len(b) /\ Len(s) \in Nat
  OBVIOUS
<1>2. f \in Seq(Nat) /\ Len(f) = n /\ \A j \in 1..n : f[j] = b[j]
  <2>1. \A i \in 1..n : b[i] \in Nat
    BY <1>1
  <2> QED
    BY <1>1, <2>1, SubSeqProperties
<1>3. /\ l \in Seq(Nat) /\ Len(l) = Len(b) - n
      /\ \A j \in 1..(Len(b) - n) : l[j] = b[n + j]
  BY <1>1, SubSeqProperties
<1> HIDE DEF f, l
<1>4. Piece(f, s, r)
  <2>1. \A j \in 1..n : j \in 1..Len(b)
    BY <1>1
  <2>2. \A j \in 1..n : f[j] = s[r + j]
    BY <1>2, <2>1 DEF Piece
  <2>3. r + n <= Len(s)
    BY <1>1 DEF Piece
  <2> QED
    BY <1>2, <2>2, <2>3 DEF Piece
<1>5. Piece(l, s, r + n)
  <2>1. ASSUME NEW j \in 1..Len(l) PROVE l[j] = s[(r + n) + j]
    <3>1. n + j \in 1..Len(b) /\ r + (n + j) = (r + n) + j
      BY <1>1, <1>3
    <3> QED
      BY <1>3, <3>1 DEF Piece
  <2>2. (r + n) + Len(l) <= Len(s)
    <3>1. r + Len(b) <= Len(s)
      BY DEF Piece
    <3> QED
      BY <1>1, <1>3, <3>1
  <2> QED
    BY <2>1, <2>2 DEF Piece
<1> QED
  BY <1>2, <1>3, <1>4, <1>5 DEF f, l

LEMMA PieceJoined ==
    ASSUME NEW a \in Seq(Nat), NEW b \in Seq(Nat), NEW s \in Seq(Nat), NEW r \in Nat,
           Piece(a, s, r), Piece(b, s, r + Len(a))
    PROVE  Piece(a \o b, s, r)
<1>1. /\ Len(a \o b) = Len(a) + Len(b) /\ Len(a) \in Nat /\ Len(b) \in Nat
      /\ \A i \in 1..Len(a) : (a \o b)[i] = a[i]
      /\ \A i \in 1..Len(b) : (a \o b)[Len(a) + i] = b[i]
  BY Joined
<1>2. ASSUME NEW j \in 1..Len(a \o b) PROVE (a \o b)[j] = s[r + j]
  <2>1. CASE j <= Len(a)
    <3>1. j \in 1..Len(a)
      BY <1>1, <2>1
    <3> QED
      BY <1>1, <3>1 DEF Piece
  <2>2. CASE ~(j <= Len(a))
    <3>1. j - Len(a) \in 1..Len(b) /\ Len(a) + (j - Len(a)) = j
          /\ (r + Len(a)) + (j - Len(a)) = r + j
      BY <1>1, <2>2
    <3> QED
      BY <1>1, <3>1 DEF Piece
  <2> QED
    BY <2>1, <2>2
<1> QED
  BY <1>1, <1>2, SMTT(60) DEF Piece

\* Some bytes of the current packet go out, perhaps all of them.
LEMMA WriteStep ==
    ASSUME NetworkInv, packet_write
    PROVE  NetworkInv'
<1>1. PICK n \in 1..Len(current.bytes) :
         /\ wire' = wire \o SubSeq(current.bytes, 1, n)
         /\ IF n < Len(current.bytes)
            THEN /\ current' = [current EXCEPT !.bytes = SubSeq(@, n + 1, Len(@))]
                 /\ UNCHANGED <<out, sock, pc>>
            ELSE /\ Take
                 /\ pc' \in {"write", "loop"}
  BY DEF packet_write
<1>2. /\ pc = "write" /\ current # NULL /\ up
      /\ UNCHANGED <<call, todo, up, in_packet, handled, queued>>
  BY DEF packet_write, app, peer
<1>3. Typed /\ HandledFirst' /\ LengthAgreed' /\ pc' \in {"write", "loop"}
  BY <1>1, <1>2 DEF NetworkInv, HandledFirst, LengthAgreed
<1>4. PICK s, off, r : Flow(s, off, r)
  BY <1>2 DEF NetworkInv
<1> DEFINE b == current.bytes
           k == Len(queued) - Len(out)
           w == r + Len(wire)
           sent == SubSeq(b, 1, n)
           rest == SubSeq(b, n + 1, Len(b))
<1>5. /\ b \in Seq(Nat) /\ wire \in Seq(Nat) /\ queued \in Seq(Packets)
      /\ s \in Seq(Nat) /\ r \in Nat /\ w \in Nat /\ n \in Nat /\ Len(b) \in Nat
      /\ Laid(queued, s, off) /\ Piece(wire, s, r)
  <2>1. wire \in Seq(Nat) /\ queued \in Seq(Packets) /\ current \in Outgoing
    BY <1>2, <1>3 DEF Typed
  <2>2. b \in Seq(Nat) /\ Len(b) \in Nat /\ n \in Nat
    BY <2>1 DEF Outgoing
  <2>3. r \in Nat /\ Laid(queued, s, off) /\ Piece(wire, s, r)
    BY <1>4 DEF Flow
  <2>4. s \in Seq(Nat)
    BY <2>3 DEF Laid
  <2>5. w \in Nat
    BY <2>1, <2>3
  <2> QED
    BY <2>1, <2>2, <2>3, <2>4, <2>5
<1>6. /\ k \in Nat /\ \A j \in 1..Len(out) : out[j] = queued[k + j]
      /\ k >= 1 /\ w + Len(b) = off[k] /\ Piece(b, s, w)
  BY <1>2, <1>4 DEF Flow, Serving, WrittenTo
<1>7. /\ sent \in Seq(Nat) /\ Len(sent) = n /\ Piece(sent, s, w)
      /\ rest \in Seq(Nat) /\ Len(rest) = Len(b) - n /\ Piece(rest, s, w + n)
  BY <1>1, <1>5, <1>6, PieceOf
<1> HIDE DEF sent, rest
<1>8. /\ wire' \in Seq(Nat) /\ Len(wire') = Len(wire) + n
      /\ r + Len(wire') = w + n /\ Piece(wire', s, r)
  <2>1. wire' = wire \o sent
    BY <1>1 DEF sent
  <2>2. wire' \in Seq(Nat) /\ Len(wire') = Len(wire) + n
    BY <1>5, <1>7, <2>1, Joined
  <2>3. Piece(wire', s, r)
    BY <1>5, <1>7, <2>1, PieceJoined
  <2> QED
    BY <1>5, <2>2, <2>3
<1>9. /\ out' \in Seq(Packets) /\ current' \in Outgoing \cup {NULL}
      /\ WrittenTo(s, off, r + Len(wire))'
  <2>1. CASE n < Len(b)
    <3>1. current' = [current EXCEPT !.bytes = rest] /\ out' = out
      BY <1>1, <2>1 DEF rest
    <3>2. current \in Outgoing
      BY <1>2, <1>3 DEF Typed
    <3>3. current' \in Outgoing /\ current'.bytes = rest /\ current' # NULL
      BY <1>7, <3>1, <3>2, NetworkAssumption DEF Outgoing
    <3>4. /\ Len(rest) > 0 /\ (w + n) + Len(rest) = off[k]
          /\ Piece(rest, s, w + n)
      <4> HIDE DEF b, k, w
      <4> QED
        BY <1>5, <1>6, <1>7, <2>1
    <3>5. /\ Len(current'.bytes) > 0 /\ (r + Len(wire')) + Len(current'.bytes) = off[k]
          /\ Piece(current'.bytes, s, r + Len(wire'))
      BY <1>8, <3>3, <3>4
    <3>6. out' \in Seq(Packets)
      BY <1>3, <3>1 DEF Typed
    <3>7. k = Len(queued') - Len(out') /\ \A j \in 1..Len(out') : out'[j] = queued'[k + j]
      BY <1>2, <1>6, <3>1
    <3> HIDE DEF k
    <3> QED
      BY <1>6, <3>3, <3>5, <3>6, <3>7 DEF WrittenTo
  <2>2. CASE ~(n < Len(b))
    <3>1. Take /\ queued' = queued
      BY <1>1, <1>2, <2>2
    <3>2. n = Len(b) /\ w + n = off[k]
      BY <1>1, <1>5, <1>6, <2>2, SMTT(60)
    <3>3. r + Len(wire') = off[k]
      BY <1>8, <3>2
    <3>4. k = Len(queued) - Len(out)
      OBVIOUS
    <3> HIDE DEF k
    <3> QED
      BY <1>3, <1>5, <1>6, <3>1, <3>3, <3>4, TakeResult
  <2> QED
    BY <2>1, <2>2
<1>10. Typed'
  BY <1>2, <1>3, <1>8, <1>9 DEF Typed
<1>11. Flow(s, off, r)'
  BY <1>2, <1>4, <1>5, <1>8, <1>9 DEF Flow, ReadTo
<1> QED
  BY <1>3, <1>10, <1>11 DEF NetworkInv

\* A new connection starts from what was queued since the old queue was cleared.
LEMMA ConnectSteps ==
    ASSUME NetworkInv, reconnect_clear \/ socket_connect \/ link_lost
    PROVE  NetworkInv'
<1>1. Typed
  BY DEF NetworkInv
<1>2. CASE reconnect_clear
  <2>1. /\ out' = <<>> /\ current' = NULL /\ pc' = "socket"
        /\ UNCHANGED <<call, todo, wire, up, in_packet, handled, queued>>
    BY <1>2 DEF reconnect_clear, Clear, app, peer
  <2>2. Typed' /\ HandledFirst' /\ LengthAgreed'
    BY <1>1, <2>1 DEF NetworkInv, Typed, HandledFirst, LengthAgreed
  <2>3. \E s, off : Laid(out', s, off)
    BY <2>1, LaidNone
  <2>4. ASSUME NEW s, NEW off, NEW r, Flow(s, off, r) PROVE Flow(s, off, r)'
    BY <2>1, <2>4 DEF Flow, ReadTo, Serving
  <2> QED
    BY <2>1, <2>2, <2>3, <2>4 DEF NetworkInv
<1>3. CASE socket_connect /\ pc' = "hello"
  <2>1. /\ pc = "socket" /\ up' = TRUE /\ wire' = <<>>
        /\ in_packet' = EmptyPacket /\ handled' = <<>> /\ queued' = out
        /\ UNCHANGED <<call, todo, out, current>>
    BY <1>3 DEF socket_connect, app
  <2>2. EmptyPacket \in Incoming /\ EmptyPacket.count = 0
    BY DEF EmptyPacket, Incoming
  <2>3. Typed' /\ HandledFirst' /\ LengthAgreed'
    BY <1>1, <1>3, <2>1, <2>2 DEF NetworkInv, Typed, HandledFirst, LengthAgreed
  <2>4. PICK s, off : Laid(out, s, off)
    BY <2>1 DEF NetworkInv
  <2>5. current = NULL /\ out \in Seq(Packets) /\ Len(out) \in Nat
    BY <1>1, <2>1 DEF NetworkInv, Typed
  <2>6. off[0] = 0 /\ s \in Seq(Nat) /\ Len(s) \in Nat
    BY <2>4 DEF Laid
  <2>7. ReadTo(off, 0)'
    BY <2>1, <2>6 DEF ReadTo
  <2>8. WrittenTo(s, off, 0 + Len(wire))'
    BY <2>1, <2>5, <2>6 DEF WrittenTo
  <2>9. Piece(wire', s, 0)
    BY <2>1, <2>6 DEF Piece
  <2>10. Flow(s, off, 0)'
    BY <2>1, <2>4, <2>7, <2>8, <2>9 DEF Flow
  <2> QED
    BY <1>3, <2>3, <2>10 DEF NetworkInv
<1>4. CASE socket_connect /\ pc' # "hello"
  <2>1. /\ pc' = "ended"
        /\ UNCHANGED <<call, todo, out, current, wire, up, in_packet, handled, queued>>
    BY <1>4 DEF socket_connect, app, peer
  <2>2. Typed' /\ Onward
    BY <1>1, <2>1 DEF Typed, Onward, Serving
  <2> QED
    BY <2>1, <2>2, QuietStep
<1>5. CASE link_lost
  <2>1. /\ up' = FALSE /\ wire' = <<>>
        /\ UNCHANGED <<call, todo, out, current, in_packet, handled, queued, pc>>
    BY <1>5 DEF link_lost, app, net, peer
  <2>2. Typed' /\ HandledFirst' /\ LengthAgreed'
    <3>1. wire' \in Seq(Nat)
      BY <2>1
    <3>2. up' \in BOOLEAN
      BY <2>1, Zenon
    <3>3. Typed'
      BY <1>1, <2>1, <3>1, <3>2 DEF Typed
    <3>4. HandledFirst' /\ LengthAgreed'
      BY <2>1 DEF NetworkInv, HandledFirst, LengthAgreed
    <3> QED
      BY <3>3, <3>4
  <2>3. pc' = "socket" => current' = NULL /\ \E s, off : Laid(out', s, off)
    BY <2>1 DEF NetworkInv
  <2> QED
    BY <2>1, <2>2, <2>3 DEF NetworkInv
<1> QED
  BY <1>2, <1>3, <1>4, <1>5
-----------------------------------------------------------------------------
(* The receiver. *)

\* What comes next on the wire is the rest of the first packet not handled.
Sees(s, off, r, p, i) ==
    /\ Flow(s, off, r)
    /\ Len(handled) < Len(queued) /\ p = queued[Len(handled) + 1]
    /\ i \in Nat /\ i < Size(p) /\ r = off[Len(handled)] + i
    /\ \A j \in 1..Len(wire) : i + j <= Size(p) => wire[j] = Bytes(p)[i + j]
    /\ (in_packet = EmptyPacket /\ i = 0) \/ Partly(in_packet, p, i)

LEMMA ReaderSees ==
    ASSUME NetworkInv, up, wire # <<>>
    PROVE  \E s, off, r, i : \E p \in Packets : Sees(s, off, r, p, i)
<1>1. PICK s, off, r : Flow(s, off, r)
  BY DEF NetworkInv
<1> DEFINE h == Len(handled)
           p == queued[h + 1]
           i == r - off[h]
<1>2. /\ queued \in Seq(Packets) /\ wire \in Seq(Nat) /\ h \in Nat /\ Len(queued) \in Nat
      /\ h <= Len(queued) /\ Len(wire) \in Nat /\ Len(wire) > 0 /\ h \in 0..Len(queued)
  BY DEF NetworkInv, Typed, HandledFirst
<1>3. Laid(queued, s, off) /\ r \in Nat /\ Piece(wire, s, r) /\ ReadTo(off, r)
  BY <1>1 DEF Flow
<1>4. /\ s \in Seq(Nat) /\ Len(s) \in Nat /\ off[h] \in Nat
      /\ off[Len(queued)] = Len(s) /\ r + Len(wire) <= Len(s)
  BY <1>2, <1>3, LaidResult DEF Piece
<1>5. h < Len(queued)
  <2>1. CASE r = off[h]
    BY <1>2, <1>3, <1>4, <2>1
  <2> QED
    BY <1>3, <2>1 DEF ReadTo
<1>6. /\ p \in Packets /\ Piece(Bytes(p), s, off[h])
  BY <1>2, <1>3, <1>5, LaidResult
<1>7. /\ Bytes(p) \in Seq(Nat) /\ Len(Bytes(p)) = Size(p)
      /\ Len(p.body) \in Nat /\ Digits(Len(p.body)) \in 1..4
  BY <1>6, BytesResult
<1>8. /\ i \in Nat /\ i < Size(p) /\ r = off[h] + i
      /\ (in_packet = EmptyPacket /\ i = 0) \/ Partly(in_packet, p, i)
  <2>1. CASE in_packet = EmptyPacket /\ r = off[h]
    <3>1. i = 0 /\ r = off[h] + i
      BY <1>4, <2>1
    <3>2. 0 < Size(p)
      <4> HIDE DEF p
      <4> QED
        BY <1>7 DEF Size
    <3> QED
      BY <2>1, <3>1, <3>2
  <2>2. CASE Partly(in_packet, p, i)
    <3>1. i \in 1..(Digits(Len(p.body)) + Len(p.body))
      BY <2>2 DEF Partly
    <3> HIDE DEF p
    <3>2. i \in Nat /\ i < Size(p)
      BY <1>7, <3>1, SMTT(60) DEF Size
    <3> QED
      BY <1>3, <1>4, <2>2, <3>2
  <2> QED
    BY <1>3, <2>1, <2>2 DEF ReadTo
<1> HIDE DEF h, p, i
<1>9. ASSUME NEW j \in 1..Len(wire), i + j <= Size(p)
      PROVE  wire[j] = Bytes(p)[i + j]
  <2>1. i + j \in 1..Size(p) /\ r + j = off[h] + (i + j)
    BY <1>2, <1>3, <1>4, <1>8, <1>9, SMTT(60)
  <2>2. wire[j] = s[r + j]
    BY <1>3 DEF Piece
  <2>3. Bytes(p)[i + j] = s[off[h] + (i + j)]
    BY <1>6, <1>7, <2>1 DEF Piece
  <2> QED
    BY <2>1, <2>2, <2>3
<1>10. Sees(s, off, r, p, i)
  BY <1>1, <1>5, <1>8, <1>9 DEF Sees, h, p
<1> QED
  BY <1>6, <1>10
\* The receiver takes n bytes: its packet grows, or is complete and handled,
\* or the connection is closed.
Grows(p, i) ==
    /\ in_packet' \in Incoming /\ Partly(in_packet', p, i)
    /\ UNCHANGED <<handled, up>>

Completes(p, i) ==
    /\ i = Size(p)
    /\ in_packet' = EmptyPacket /\ handled' = Append(handled, p)
    /\ up' \in BOOLEAN

LEMMA ReadStep ==
    ASSUME NetworkInv, up, NEW s, NEW off, NEW r, NEW i, NEW p \in Packets,
           Sees(s, off, r, p, i),
           NEW n \in 1..Len(wire), wire' = SubSeq(wire, n + 1, Len(wire)),
           Grows(p, i + n) \/ Completes(p, i + n) \/ Refuse,
           UNCHANGED <<call, todo, out, current, queued, pc>>
    PROVE  NetworkInv'
<1> DEFINE h == Len(handled)
           k == Len(queued)
<1>1. /\ Typed /\ HandledFirst /\ queued \in Seq(Packets) /\ handled \in Seq(Packets)
      /\ wire \in Seq(Nat) /\ h \in Nat /\ k \in Nat /\ Len(wire) \in Nat /\ n \in Nat
  BY DEF NetworkInv, Typed
<1>2. /\ Flow(s, off, r) /\ h < k /\ p = queued[h + 1] /\ i \in Nat /\ r = off[h] + i
  BY DEF Sees
<1>3. Laid(queued, s, off) /\ s \in Seq(Nat) /\ r \in Nat /\ Piece(wire, s, r)
  BY <1>2 DEF Flow, Laid
<1>4. /\ wire' \in Seq(Nat) /\ Len(wire') = Len(wire) - n /\ Piece(wire', s, r + n)
  BY <1>1, <1>3, PieceOf
<1>5. (r + n) + Len(wire') = r + Len(wire) /\ r + n \in Nat
  <2> DEFINE a == Len(wire)
             b == Len(wire')
  <2>1. a \in Nat /\ n \in Nat /\ r \in Nat /\ b = a - n
    BY <1>1, <1>3, <1>4
  <2> HIDE DEF a, b
  <2>2. (r + n) + b = r + a /\ r + n \in Nat
    BY <2>1
  <2> QED
    BY <2>2 DEF a, b
<1>6. (Serving => WrittenTo(s, off, (r + n) + Len(wire)))'
  <2>1. Serving => WrittenTo(s, off, r + Len(wire))
    BY <1>2 DEF Flow
  <2> QED
    BY <1>5, <2>1 DEF Serving, WrittenTo
<1>7. off[h] \in Nat
  <2>1. h \in 0..k
    BY <1>1, <1>2
  <2> QED
    BY <1>1, <1>3, <2>1, LaidResult
<1>8. (pc = "socket" => current = NULL /\ \E t, o : Laid(out, t, o))'
  BY DEF NetworkInv
<1>9. CASE Grows(p, i + n)
  <2>1. Typed'
    BY <1>1, <1>4, <1>9 DEF Typed, Grows
  <2>2. HandledFirst'
    BY <1>1, <1>9 DEF HandledFirst, Grows
  <2>3. LengthAgreed'
    <3>1. Digits(Len(p.body)) \in 1..4
      BY BytesResult
    <3>2. Partly(in_packet', p, i + n) /\ i + n \in Nat
      BY <1>1, <1>2, <1>9 DEF Grows
    <3>3. CASE in_packet'.count = 1 - (i + n) /\ i + n <= Digits(Len(p.body))
      BY <3>1, <3>2, <3>3 DEF LengthAgreed
    <3>4. CASE in_packet'.count = Digits(Len(p.body))
      BY <3>1, <3>4 DEF LengthAgreed
    <3> QED
      BY <3>2, <3>3, <3>4 DEF Partly
  <2>4. ReadTo(off, r + n)'
    <3>1. (r + n) - off[h] = i + n
      BY <1>1, <1>2, <1>7, SMTT(60)
    <3>2. handled' = handled /\ queued' = queued
      BY <1>9 DEF Grows
    <3>3. Partly(in_packet', queued'[Len(handled') + 1], (r + n) - off[Len(handled')])
      BY <1>2, <1>9, <3>1, <3>2 DEF Grows
    <3> QED
      BY <1>2, <3>2, <3>3 DEF ReadTo
  <2>5. Flow(s, off, r + n)'
    BY <1>3, <1>4, <1>5, <1>6, <2>4 DEF Flow
  <2> QED
    BY <1>8, <2>1, <2>2, <2>3, <2>5 DEF NetworkInv
<1>10. CASE Completes(p, i + n)
  <2>1. /\ handled' = Append(handled, p) /\ in_packet' = EmptyPacket
        /\ up' \in BOOLEAN /\ i + n = Size(p) /\ queued' = queued
    BY <1>10 DEF Completes
  <2>2. /\ handled' \in Seq(Packets) /\ Len(handled') = h + 1
        /\ \A j \in 1..h : handled'[j] = handled[j]
        /\ handled'[h + 1] = p
    BY <1>1, <2>1
  <2>3. EmptyPacket \in Incoming /\ EmptyPacket.count = 0
    BY DEF EmptyPacket, Incoming
  <2>4. Typed'
    BY <1>1, <1>4, <2>1, <2>2, <2>3 DEF Typed
  <2>5. HandledFirst'
    <3>1. ASSUME NEW j \in 1..(h + 1) PROVE handled'[j] = queued[j]
      <4>1. CASE j = h + 1
        BY <1>2, <2>2, <4>1
      <4>2. CASE j \in 1..h
        BY <1>1, <2>2, <4>2 DEF HandledFirst
      <4> QED
        BY <1>1, <4>1, <4>2
    <3>2. h + 1 <= k
      BY <1>1, <1>2
    <3> QED
      BY <2>1, <2>2, <3>1, <3>2 DEF HandledFirst
  <2>6. LengthAgreed'
    BY <2>1, <2>3 DEF LengthAgreed
  <2>7. r + n = off[h + 1]
    <3>1. h + 1 \in 1..k /\ (h + 1) - 1 = h
      BY <1>1, <1>2
    <3>2. off[h + 1] = off[h] + Len(Bytes(p))
      BY <1>2, <1>3, <3>1 DEF Laid
    <3>3. Len(Bytes(p)) = i + n
      BY <2>1, BytesResult
    <3> HIDE DEF h
    <3> QED
      BY <1>1, <1>2, <1>7, <3>2, <3>3, SMTT(60)
  <2>8. ReadTo(off, r + n)'
    BY <2>1, <2>2, <2>7 DEF ReadTo
  <2>9. Flow(s, off, r + n)'
    BY <1>3, <1>4, <1>5, <1>6, <2>1, <2>8 DEF Flow
  <2> QED
    BY <1>8, <2>4, <2>5, <2>6, <2>9 DEF NetworkInv
<1>11. CASE Refuse
  <2>1. up' = FALSE /\ UNCHANGED <<in_packet, handled>>
    BY <1>11 DEF Refuse, peer
  <2>2. up' \in BOOLEAN
    BY <2>1, Zenon
  <2>3. Typed'
    BY <1>1, <1>4, <2>1, <2>2 DEF Typed
  <2>4. HandledFirst' /\ LengthAgreed'
    BY <2>1 DEF NetworkInv, HandledFirst, LengthAgreed
  <2> QED
    BY <1>8, <2>1, <2>3, <2>4 DEF NetworkInv
<1> QED
  BY <1>9, <1>10, <1>11
\* The command byte starts a packet.
LEMMA ReadCommandStep ==
    ASSUME NetworkInv, read_command
    PROVE  NetworkInv'
<1>1. /\ up /\ wire # <<>> /\ in_packet.command = 0 /\ wire' = Tail(wire)
      /\ UNCHANGED <<call, todo, out, current, queued, pc>>
  BY DEF read_command, app, net
<1>2. PICK s, off, r, i : \E p \in Packets : Sees(s, off, r, p, i)
  BY <1>1, ReaderSees
<1>3. PICK p \in Packets : Sees(s, off, r, p, i)
  BY <1>2
<1> DEFINE m == Len(p.body)
           in == [in_packet EXCEPT !.command = Head(wire)]
<1>4. /\ wire \in Seq(Nat) /\ Len(wire) \in Nat /\ 1 \in 1..Len(wire)
      /\ wire' = SubSeq(wire, 1 + 1, Len(wire)) /\ Head(wire) = wire[1]
  BY <1>1 DEF NetworkInv, Typed
<1>5. /\ m \in Nat /\ Digits(m) \in 1..4 /\ Bytes(p)[1] = p.command
      /\ p.command \in 1..3
  BY BytesResult DEF Packets
<1>6. in_packet = EmptyPacket /\ i = 0
  <2>1. ~Partly(in_packet, p, i)
    BY <1>1, <1>5 DEF Partly
  <2> QED
    BY <1>3, <2>1 DEF Sees
<1>7. Head(wire) = p.command
  <2>1. 0 + 1 <= Size(p)
    <3> HIDE DEF m
    <3>1. Size(p) = 1 + Digits(m) + m
      BY DEF Size, m
    <3> QED
      BY <1>5, <3>1
  <2> QED
    BY <1>3, <1>4, <1>5, <1>6, <2>1 DEF Sees
<1>8. CASE Complete(in)
  <2>1. /\ in.command = p.command /\ in.count = 0 /\ in.mult = 1 /\ in.length = 0
        /\ in.to_process = 0 /\ in.body = <<>> /\ in \in Incoming
    <3>1. in = [EmptyPacket EXCEPT !.command = p.command] /\ p.command \in Nat
      BY <1>5, <1>6, <1>7
    <3>2. EmptyPacket \in Incoming
      BY DEF EmptyPacket, Incoming
    <3>3. in \in Incoming /\ in.command = p.command
      BY <3>1, <3>2 DEF Incoming
    <3>4. /\ in.count = 0 /\ in.mult = 1 /\ in.length = 0 /\ in.to_process = 0
          /\ in.body = <<>>
      BY <3>1 DEF EmptyPacket
    <3> QED
      BY <3>3, <3>4
  <2> HIDE DEF in
  <2>2. in_packet' = in /\ UNCHANGED <<handled, up>>
    BY <1>8, <2>1 DEF Complete
  <2>3. Partly(in, p, 1)
    <3>1. 1 \in 1..(Digits(m) + m) /\ 1 <= Digits(m)
      <4> HIDE DEF m
      <4> QED
        BY <1>5
    <3>2. in.length + Left(m)[1] * in.mult = m
      <4> HIDE DEF m
      <4> QED
        BY <1>5, <2>1, LeftResult
    <3>3. in.count = 1 - 1
      BY <2>1
    <3> QED
      BY <2>1, <3>1, <3>2, <3>3 DEF Partly
  <2>4. Grows(p, i + 1)
    BY <1>6, <2>1, <2>2, <2>3 DEF Grows
  <2> QED
    BY <1>1, <1>3, <1>4, <2>4, ReadStep
<1>9. CASE Refuse
  BY <1>1, <1>3, <1>4, <1>9, ReadStep
<1> QED
  BY <1>8, <1>9 DEF read_command
\* A byte of the length: its digit, and whether another one follows.
LEMMA DigitRead ==
    ASSUME NEW m \in Nat, NEW i \in 1..Digits(m), NEW length \in Nat, NEW mult \in Nat,
           Digits(m) < 5, length + Left(m)[i] * mult = m
    PROVE  LET byte == RemainingLength(m)[i]
               next == length + (byte % Radix) * mult
           IN  /\ byte \in Nat /\ byte % Radix \in Nat
               /\ byte >= Radix <=> i < Digits(m)
               /\ i < Digits(m) => next + Left(m)[i + 1] * (mult * Radix) = m
               /\ i = Digits(m) => next = m
<1> DEFINE l == Left(m)[i]
           q == Left(m)[i + 1]
           x == l % Radix
           byte == RemainingLength(m)[i]
<1>1. Digits(m) \in 1..4 /\ i \in 1..4 /\ i \in 1..5
  BY DigitsResult
<1>2. l \in Nat /\ q = l \div Radix
  BY <1>1, LeftResult
<1>3. byte = x + (IF i < Digits(m) THEN Radix ELSE 0)
  BY RemainingLengthResult
<1> HIDE DEF byte
<1>4. q \in Nat /\ x \in 0..(Radix - 1) /\ l = q * Radix + x
  <2> HIDE DEF l, q
  <2> QED
    BY <1>2, Division DEF x
<1>5. i = Digits(m) => q = 0
  BY <1>1, DigitsResult
<1>6. length + l * mult = m
  OBVIOUS
<1> HIDE DEF l, q, x
<1>7. Radix \in Nat /\ Radix > 0
  BY NetworkAssumption
<1>8. CASE i < Digits(m)
  <2>1. byte = x + Radix
    BY <1>3, <1>8
  <2>2. byte \in Nat /\ byte >= Radix
    BY <1>4, <1>7, <2>1
  <2>3. byte % Radix = x
    BY <1>4, <1>7, <2>1
  <2>4. (length + x * mult) + q * (mult * Radix) = length + (q * Radix + x) * mult
    BY <1>4, <1>7
  <2> QED
    BY <1>1, <1>4, <1>6, <1>8, <2>2, <2>3, <2>4 DEF byte, q
<1>9. CASE i = Digits(m)
  <2>1. byte = x
    BY <1>1, <1>3, <1>4, <1>9
  <2>2. byte \in Nat /\ ~(byte >= Radix)
    BY <1>4, <1>7, <2>1
  <2>3. byte % Radix = x
    BY <1>4, <1>7, <2>1
  <2>4. l = x
    BY <1>4, <1>5, <1>7, <1>9
  <2> QED
    BY <1>1, <1>4, <1>6, <1>9, <2>2, <2>3, <2>4 DEF byte
<1> QED
  BY <1>1, <1>8, <1>9

LEMMA SumAndProduct ==
    ASSUME NEW x \in Nat, NEW y \in Nat, NEW z \in Nat, NEW r \in Nat
    PROVE  x + y * z \in Nat /\ z * r \in Nat
  OBVIOUS

\* The length goes on, or ends.
LEMMA ReadLengthStep ==
    ASSUME NetworkInv, read_length
    PROVE  NetworkInv'
<1>1. /\ up /\ wire # <<>> /\ in_packet.command # 0 /\ in_packet.count <= 0
      /\ wire' = Tail(wire)
      /\ UNCHANGED <<call, todo, out, current, queued, pc>>
  BY DEF read_length, app, net
<1>2. PICK s, off, r, i : \E p \in Packets : Sees(s, off, r, p, i)
  BY <1>1, ReaderSees
<1>3. PICK p \in Packets : Sees(s, off, r, p, i)
  BY <1>2
<1> DEFINE m == Len(p.body)
           d == Digits(m)
           byte == Head(wire)
           in == [in_packet EXCEPT
                    !.count = @ - 1,
                    !.length = @ + (byte % Radix) * in_packet.mult,
                    !.mult = @ * Radix]
           end == [in EXCEPT !.count = -@, !.to_process = in.length]
<1>4. /\ wire \in Seq(Nat) /\ Len(wire) \in Nat /\ 1 \in 1..Len(wire)
      /\ wire' = SubSeq(wire, 1 + 1, Len(wire)) /\ Head(wire) = wire[1]
      /\ in_packet \in Incoming
  BY <1>1 DEF NetworkInv, Typed
<1>5. /\ m \in Nat /\ d \in 1..4 /\ \A j \in 1..d : Bytes(p)[1 + j] = RemainingLength(m)[j]
      /\ p.body \in Seq(Nat)
  BY BytesResult DEF Packets
<1>6. Partly(in_packet, p, i)
  <2>1. in_packet # EmptyPacket
    BY <1>1 DEF EmptyPacket
  <2> QED
    BY <1>3, <2>1 DEF Sees
<1>7. /\ i \in 1..d /\ in_packet.command = p.command /\ in_packet.count = 1 - i
      /\ in_packet.length + Left(m)[i] * in_packet.mult = m
      /\ in_packet.to_process = 0 /\ in_packet.body = <<>>
  <2>1. i \in 1..(d + m) /\ in_packet.count # d
    BY <1>1, <1>5, <1>6, SMTT(60) DEF Partly
  <2>2. i <= d /\ i \in 1..d
    BY <1>5, <1>6, <2>1 DEF Partly
  <2> QED
    BY <1>6, <2>1, <2>2 DEF Partly
<1>8. byte = RemainingLength(m)[i]
  <2>1. i \in Nat /\ i + 1 <= Size(p) /\ i + 1 = 1 + i
    <3> HIDE DEF d, m
    <3>1. Size(p) = 1 + d + m
      BY DEF Size, d, m
    <3> QED
      BY <1>5, <1>7, <3>1
  <2>2. wire[1] = Bytes(p)[i + 1]
    BY <1>3, <1>4, <2>1 DEF Sees
  <2> QED
    BY <1>4, <1>5, <1>7, <2>1, <2>2
<1>9. /\ byte \in Nat /\ byte % Radix \in Nat /\ (byte >= Radix <=> i < d)
      /\ i < d => (in_packet.length + (byte % Radix) * in_packet.mult)
                    + Left(m)[i + 1] * (in_packet.mult * Radix) = m
      /\ i = d => in_packet.length + (byte % Radix) * in_packet.mult = m
  <2> HIDE DEF m, byte
  <2>1. in_packet.length \in Nat /\ in_packet.mult \in Nat /\ d < 5
    BY <1>4, <1>5, SMTT(60) DEF Incoming
  <2> QED
    BY <1>5, <1>7, <1>8, <2>1, DigitRead
<1> HIDE DEF byte
<1>10. /\ in \in Incoming /\ in.command = p.command /\ in.count = -i
       /\ in.length = in_packet.length + (byte % Radix) * in_packet.mult
       /\ in.mult = in_packet.mult * Radix
       /\ in.to_process = 0 /\ in.body = <<>>
  <2>1. /\ in_packet.length + (byte % Radix) * in_packet.mult \in Nat
        /\ in_packet.mult * Radix \in Nat
    <3>1. in_packet.length \in Nat /\ in_packet.mult \in Nat
      BY <1>4 DEF Incoming
    <3>2. byte % Radix \in Nat /\ Radix \in Nat
      BY <1>9, NetworkAssumption
    <3> QED
      BY <3>1, <3>2, SumAndProduct, Zenon
  <2>2. in_packet.count - 1 = -i /\ -i \in Int
    <3> HIDE DEF d
    <3> QED
      BY <1>5, <1>7
  <2> QED
    BY <1>4, <1>7, <2>1, <2>2 DEF Incoming
<1>11. IF in.count < -4 THEN Refuse ELSE Complete(IF byte >= Radix THEN in ELSE end)
  BY DEF read_length, byte
<1> HIDE DEF in
<1>12. i \in Nat /\ i > 0 /\ ~(in.count < -4)
  <2> HIDE DEF d
  <2> QED
    BY <1>5, <1>7, <1>10
<1>13. CASE i < d
  <2>1. Complete(in)
    BY <1>9, <1>11, <1>12, <1>13
  <2>2. ~(in.count > 0)
    BY <1>10, <1>12
  <2>3. in_packet' = in /\ UNCHANGED <<handled, up>>
    BY <2>1, <2>2 DEF Complete
  <2>4. Partly(in, p, i + 1)
    <3>1. i + 1 \in 1..(d + m) /\ i + 1 <= d /\ in.count = 1 - (i + 1)
      <4> HIDE DEF d, m
      <4> QED
        BY <1>5, <1>7, <1>10, <1>13
    <3>2. in.length + Left(m)[i + 1] * in.mult = m
      BY <1>9, <1>10, <1>13
    <3> QED
      BY <1>10, <3>1, <3>2 DEF Partly
  <2>5. Grows(p, i + 1)
    BY <1>10, <2>3, <2>4 DEF Grows
  <2> QED
    BY <1>1, <1>3, <1>4, <2>5, ReadStep
<1>14. CASE i = d
  <2>1. Complete(end)
    BY <1>9, <1>11, <1>12, <1>14
  <2>2. /\ end \in Incoming /\ end.command = p.command /\ end.count = d
        /\ end.to_process = m /\ end.body = <<>>
    <3>1. in.length = m
      BY <1>9, <1>10, <1>14
    <3>2. -(in.count) = d /\ d \in Int
      <4> HIDE DEF d
      <4> QED
        BY <1>5, <1>10, <1>14
    <3> QED
      BY <1>5, <1>10, <3>1, <3>2 DEF Incoming
  <2> HIDE DEF end
  <2>3. end.count > 0
    <3> HIDE DEF d
    <3> QED
      BY <1>5, <2>2
  <2>4. CASE m = 0
    <3>1. p.body = <<>>
      BY <1>5, <2>4
    <3>2. Packet(end.command, end.body) = p
      BY <2>2, <3>1 DEF Packet, Packets
    <3>3. /\ handled' = Append(handled, p) /\ in_packet' = EmptyPacket
          /\ up' = (end.command # DISCONNECT)
      BY <2>1, <2>2, <2>3, <2>4, <3>2 DEF Complete
    <3>4. up' \in BOOLEAN
      BY <3>3, Zenon
    <3>5. i + 1 = Size(p)
      <4> HIDE DEF d, m
      <4>1. Size(p) = 1 + d + m
        BY DEF Size, d, m
      <4> QED
        BY <1>5, <1>14, <2>4, <4>1
    <3>6. Completes(p, i + 1)
      BY <3>3, <3>4, <3>5 DEF Completes
    <3> QED
      BY <1>1, <1>3, <1>4, <3>6, ReadStep
  <2>5. CASE m # 0
    <3>1. in_packet' = end /\ UNCHANGED <<handled, up>>
      BY <2>1, <2>2, <2>5 DEF Complete
    <3>2. Partly(end, p, i + 1)
      <4>1. /\ i + 1 \in 1..(d + m) /\ i + 1 > d /\ m = (1 + d + m) - (i + 1)
            /\ ((i + 1) - 1) - d = 0
        <5> HIDE DEF d, m
        <5> QED
          BY <1>5, <1>14, <2>5
      <4>2. SubSeq(p.body, 1, 0) = <<>>
        BY <1>5
      <4> QED
        BY <2>2, <4>1, <4>2 DEF Partly
    <3>3. Grows(p, i + 1)
      BY <2>2, <3>1, <3>2 DEF Grows
    <3> QED
      BY <1>1, <1>3, <1>4, <3>3, ReadStep
  <2> QED
    BY <2>4, <2>5
<1> QED
  <2>1. i < d \/ i = d
    <3> HIDE DEF d
    <3> QED
      BY <1>5, <1>7
  <2> QED
    BY <1>13, <1>14, <2>1
LEMMA FirstJoined ==
    ASSUME NEW b \in Seq(Nat), NEW c \in Seq(Nat), NEW a \in Nat,
           a + Len(c) <= Len(b), \A j \in 1..Len(c) : c[j] = b[a + j]
    PROVE  SubSeq(b, 1, a) \o c = SubSeq(b, 1, a + Len(c))
<1> DEFINE f == SubSeq(b, 1, a)
           n == Len(c)
           u == SubSeq(b, 1, a + n)
           v == f \o c
<1>1. n \in Nat /\ Len(b) \in Nat /\ a + n \in Nat /\ a <= Len(b)
  <2>1. n \in Nat /\ Len(b) \in Nat /\ a + n <= Len(b)
    OBVIOUS
  <2> HIDE DEF n
  <2> QED
    BY <2>1
<1>2. \A x \in Nat : x <= Len(b) =>
         /\ SubSeq(b, 1, x) \in Seq(Nat) /\ Len(SubSeq(b, 1, x)) = x
         /\ \A j \in 1..x : SubSeq(b, 1, x)[j] = b[j]
  <2> TAKE x \in Nat
  <2> HAVE x <= Len(b)
  <2>1. \A i \in 1..x : b[i] \in Nat
    BY <1>1
  <2> QED
    BY <1>1, <2>1, SubSeqProperties
<1>3. f \in Seq(Nat) /\ Len(f) = a /\ \A j \in 1..a : f[j] = b[j]
  BY <1>1, <1>2
<1>4. u \in Seq(Nat) /\ Len(u) = a + n /\ \A j \in 1..(a + n) : u[j] = b[j]
  BY <1>1, <1>2
<1> HIDE DEF f, u
<1>5. /\ v \in Seq(Nat) /\ Len(v) = a + n
      /\ \A j \in 1..a : v[j] = f[j]
      /\ \A j \in 1..n : v[a + j] = c[j]
  <2>1. /\ v \in Seq(Nat) /\ Len(v) = Len(f) + n
        /\ \A j \in 1..Len(f) : v[j] = f[j]
        /\ \A j \in 1..n : v[Len(f) + j] = c[j]
    BY <1>3, Joined
  <2> QED
    BY <1>3, <2>1
<1>6. ASSUME NEW j \in 1..(a + n) PROVE v[j] = u[j]
  <2>1. CASE j <= a
    <3>1. j \in 1..a
      BY <2>1
    <3> QED
      BY <1>3, <1>4, <1>5, <3>1
  <2>2. CASE ~(j <= a)
    <3>1. j - a \in 1..n /\ a + (j - a) = j
      <4> HIDE DEF n
      <4> QED
        BY <1>1, <2>2
    <3>2. v[j] = c[j - a] /\ c[j - a] = b[j]
      BY <1>5, <3>1
    <3> QED
      BY <1>4, <3>2
  <2> QED
    BY <2>1, <2>2
<1> HIDE DEF v, n
<1>7. v = u
  BY <1>4, <1>5, <1>6, SeqEqual
<1> QED
  BY <1>7 DEF v, f, u, n

\* Some of the rest, perhaps all of it.
LEMMA ReadPayloadStep ==
    ASSUME NetworkInv, read_payload
    PROVE  NetworkInv'
<1>1. /\ up /\ wire # <<>> /\ in_packet.count > 0
      /\ UNCHANGED <<call, todo, out, current, queued, pc>>
  BY DEF read_payload, app, net
<1>2. PICK n \in 1..Len(wire) :
         /\ n <= in_packet.to_process
         /\ wire' = SubSeq(wire, n + 1, Len(wire))
         /\ Complete([in_packet EXCEPT !.to_process = @ - n,
                                       !.body = @ \o SubSeq(wire, 1, n)])
  BY DEF read_payload
<1>3. PICK s, off, r, i : \E p \in Packets : Sees(s, off, r, p, i)
  BY <1>1, ReaderSees
<1>4. PICK p \in Packets : Sees(s, off, r, p, i)
  BY <1>3
<1> DEFINE m == Len(p.body)
           d == Digits(m)
           a == (i - 1) - d
           piece == SubSeq(wire, 1, n)
           in == [in_packet EXCEPT !.to_process = @ - n, !.body = @ \o piece]
<1>5. wire \in Seq(Nat) /\ Len(wire) \in Nat /\ n \in Nat /\ in_packet \in Incoming
  BY DEF NetworkInv, Typed
<1>6. /\ m \in Nat /\ d \in 1..4 /\ p.body \in Seq(Nat)
      /\ \A j \in 1..m : Bytes(p)[(1 + d) + j] = p.body[j]
  BY BytesResult DEF Packets
<1>7. Partly(in_packet, p, i)
  <2>1. in_packet # EmptyPacket
    BY <1>1 DEF EmptyPacket
  <2> QED
    BY <1>4, <2>1 DEF Sees
<1>8. /\ i \in 1..(d + m) /\ in_packet.command = p.command
      /\ i > d /\ in_packet.count = d
      /\ in_packet.to_process = (1 + d + m) - i
      /\ in_packet.body = SubSeq(p.body, 1, a)
  <2>1. i \in 1..(d + m) /\ in_packet.command = p.command
    BY <1>7 DEF Partly
  <2>2. in_packet.count # 1 - i
    <3> HIDE DEF d, m
    <3> QED
      BY <1>1, <1>6, <2>1
  <2> QED
    BY <1>7, <2>1, <2>2 DEF Partly
<1>9. /\ i \in Nat /\ a \in Nat /\ (1 + d) + a = i /\ a + n <= m
      /\ in_packet.to_process - n = (1 + d + m) - (i + n)
      /\ in_packet.to_process - n \in Nat /\ Size(p) = 1 + d + m
      /\ ((i + n) - 1) - d = a + n /\ i + n > d /\ i + n <= Size(p)
  <2> DEFINE q == in_packet.to_process
  <2>1. Size(p) = 1 + d + m
    BY DEF Size
  <2>2. n <= q /\ q = (1 + d + m) - i /\ i \in 1..(d + m) /\ i > d
    BY <1>2, <1>8
  <2>3. n \in Nat /\ m \in Nat /\ d \in Nat
    BY <1>5, <1>6
  <2> HIDE DEF d, m, q
  <2>4. i \in Nat /\ a \in Nat /\ (1 + d) + a = i /\ a + n <= m
    BY <2>2, <2>3
  <2>5. q - n = (1 + d + m) - (i + n) /\ q - n \in Nat
    BY <2>2, <2>3
  <2>6. ((i + n) - 1) - d = a + n /\ i + n > d /\ i + n <= 1 + d + m
    BY <2>2, <2>3
  <2> QED
    BY <2>1, <2>4, <2>5, <2>6 DEF q
<1> HIDE DEF a
<1>10. piece \in Seq(Nat) /\ Len(piece) = n /\ \A j \in 1..n : piece[j] = wire[j]
  <2>1. n <= Len(wire) /\ \A j \in 1..n : wire[j] \in Nat
    BY <1>5
  <2> QED
    BY <1>5, <2>1, SubSeqProperties
<1> HIDE DEF piece
<1>11. ASSUME NEW j \in 1..n PROVE piece[j] = p.body[a + j]
  <2>1. /\ j \in 1..Len(wire) /\ i + j <= Size(p)
        /\ a + j \in 1..m /\ i + j = (1 + d) + (a + j)
    <3>1. n \in Nat /\ n <= Len(wire) /\ Len(wire) \in Nat /\ d \in Nat /\ m \in Nat
      BY <1>5, <1>6
    <3> HIDE DEF d, m
    <3>2. j \in 1..Len(wire)
      BY <3>1
    <3>3. i + j <= Size(p) /\ a + j \in 1..m /\ i + j = (1 + d) + (a + j)
      <4>1. j \in Nat /\ 1 <= j /\ j <= n
        BY <3>1
      <4> QED
        BY <1>9, <3>1, <4>1
    <3> QED
      BY <3>2, <3>3
  <2>2. wire[j] = Bytes(p)[i + j]
    BY <1>4, <2>1 DEF Sees
  <2> QED
    BY <1>6, <1>10, <2>1, <2>2
<1>12. SubSeq(p.body, 1, a) \o piece = SubSeq(p.body, 1, a + n)
  <2>1. a + Len(piece) <= Len(p.body) /\ \A j \in 1..Len(piece) : piece[j] = p.body[a + j]
    BY <1>9, <1>10, <1>11
  <2> QED
    BY <1>6, <1>9, <1>10, <2>1, FirstJoined
<1>13. SubSeq(p.body, 1, a + n) \in Seq(Nat)
  <2>1. SubSeq(p.body, 1, a) \in Seq(Nat)
    BY <1>5, <1>8 DEF Incoming
  <2> QED
    BY <1>10, <1>12, <2>1, Joined
<1>14. /\ in \in Incoming /\ in.command = p.command /\ in.count = d
       /\ in.to_process = (1 + d + m) - (i + n)
       /\ in.body = SubSeq(p.body, 1, a + n)
  <2>1. in = [in_packet EXCEPT !.to_process = (1 + d + m) - (i + n),
                               !.body = SubSeq(p.body, 1, a + n)]
    BY <1>5, <1>8, <1>9, <1>12 DEF Incoming
  <2>2. (1 + d + m) - (i + n) \in Nat
    BY <1>9
  <2> HIDE DEF in, m, d
  <2> QED
    BY <1>5, <1>8, <1>13, <2>1, <2>2 DEF Incoming
<1>15. Complete(in)
  BY <1>2 DEF piece
<1> HIDE DEF in
<1>16. in.count > 0
  BY <1>1, <1>8, <1>14
<1>17. CASE i + n = Size(p)
  <2>1. in.to_process = 0 /\ a + n = m
    <3> HIDE DEF d, m
    <3> QED
      BY <1>5, <1>6, <1>9, <1>14, <1>17
  <2>2. in.body = p.body
    <3>1. SubSeq(p.body, 1, Len(p.body)) = p.body
      BY <1>6
    <3> QED
      BY <1>14, <2>1, <3>1
  <2>3. Packet(in.command, in.body) = p
    BY <1>14, <2>2 DEF Packet, Packets
  <2>4. /\ handled' = Append(handled, p) /\ in_packet' = EmptyPacket
        /\ up' = (in.command # DISCONNECT)
    BY <1>15, <1>16, <2>1, <2>3 DEF Complete
  <2>5. up' \in BOOLEAN
    BY <2>4, Zenon
  <2>6. Completes(p, i + n)
    BY <1>17, <2>4, <2>5 DEF Completes
  <2> QED
    BY <1>1, <1>2, <1>4, <2>6, ReadStep
<1>18. CASE i + n # Size(p)
  <2>1. in.to_process # 0 /\ i + n \in 1..(d + m)
    <3> HIDE DEF d, m
    <3> QED
      BY <1>5, <1>6, <1>9, <1>14, <1>18
  <2>2. in_packet' = in /\ UNCHANGED <<handled, up>>
    BY <1>15, <2>1 DEF Complete
  <2>3. Partly(in, p, i + n)
    BY <1>9, <1>14, <2>1 DEF Partly
  <2>4. Grows(p, i + n)
    BY <1>14, <2>2, <2>3 DEF Grows
  <2> QED
    BY <1>1, <1>2, <1>4, <2>4, ReadStep
<1> QED
  BY <1>17, <1>18
-----------------------------------------------------------------------------
LEMMA NetworkInit == Init => NetworkInv
<1> SUFFICES ASSUME Init PROVE NetworkInv
  OBVIOUS
<1>1. EmptyPacket \in Incoming /\ EmptyPacket.count = 0
  BY DEF EmptyPacket, Incoming
<1>2. up \in BOOLEAN
  BY Zenon DEF Init
<1>3. Typed
  BY <1>1, <1>2 DEF Init, Typed
<1>4. HandledFirst /\ LengthAgreed
  BY <1>1 DEF Init, HandledFirst, LengthAgreed
<1> QED
  BY <1>3, <1>4 DEF Init, NetworkInv

LEMMA NetworkStep == NetworkInv /\ [Next]_vars => NetworkInv'
<1> SUFFICES ASSUME NetworkInv, [Next]_vars PROVE NetworkInv'
  OBVIOUS
<1>1. ASSUME NEW t \in Threads,
             mosquitto_publish(t) \/ mosquitto_disconnect(t) \/ Return(t)
      PROVE  NetworkInv'
  BY <1>1, QuietSteps, QueueSteps DEF Return
<1>2. CASE NetworkThread
  BY <1>2, QuietSteps, QueueSteps, WriteNextStep, WriteStep, ConnectSteps
     DEF NetworkThread
<1>3. CASE Reader
  BY <1>3, ReadCommandStep, ReadLengthStep, ReadPayloadStep DEF Reader
<1>4. CASE select_timeout \/ link_lost \/ UNCHANGED vars
  BY <1>4, QuietSteps, ConnectSteps
<1> QED
  BY <1>1, <1>2, <1>3, <1>4 DEF Next

LEMMA NetworkInvariant == Spec => []NetworkInv
BY NetworkInit, NetworkStep, PTL DEF Spec

\* HandledInOrder: whatever the pieces in which the sender, the socket and the
\* receiver cut the bytes, and however many connections broke half way, the
\* packets _mosquitto_packet_read hands over are the first ones queued for the
\* connection, each one whole.
THEOREM AlwaysHandledInOrder == Spec => []HandledInOrder
<1>1. NetworkInv => HandledInOrder
  <2> SUFFICES ASSUME NetworkInv PROVE HandledInOrder
    OBVIOUS
  <2> DEFINE h == Len(handled)
             first == SubSeq(queued, 1, h)
  <2>1. /\ handled \in Seq(Packets) /\ queued \in Seq(Packets) /\ h \in Nat
        /\ Len(queued) \in Nat /\ h <= Len(queued)
        /\ \A i \in 1..h : handled[i] = queued[i]
    BY DEF NetworkInv, Typed, HandledFirst
  <2>2. first \in Seq(Packets) /\ Len(first) = h /\ \A i \in 1..h : first[i] = queued[i]
    <3>1. \A i \in 1..h : queued[i] \in Packets
      BY <2>1
    <3> QED
      BY <2>1, <3>1, SubSeqProperties
  <2> HIDE DEF first
  <2>3. handled = first
    BY <2>1, <2>2, SeqEqual
  <2> QED
    BY <2>1, <2>3 DEF HandledInOrder, IsPrefix, first
<1> QED
  BY <1>1, NetworkInvariant, PTL

\* LengthAgreed: no packet that _mosquitto_packet_alloc lets through makes the
\* receiver see a fifth length byte announced, for which it would close the
\* connection.
THEOREM LengthAlwaysAgreed == Spec => []LengthAgreed
<1>1. NetworkInv => LengthAgreed
  BY DEF NetworkInv
<1> QED
  BY <1>1, NetworkInvariant, PTL
=============================================================================
