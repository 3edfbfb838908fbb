------------------------- MODULE PacketStreamProofs -------------------------
(* Theorems about PacketStream, for any packets, payloads and portions.    *)
EXTENDS PacketStream, TLAPS, SequenceTheorems, SequenceLemmas

Packet    == [no : Nat, payload : Seq(Nat)]
Builder   == [p \in Packet |-> Build(p)]
Bytes(ps) == FlatMap(Builder, ps)

-----------------------------------------------------------------------------
(* Concatenation and a part, with their lengths named.                     *)
IsJoin(c, s, t, n, k) ==
  /\ c = s \o t /\ Len(c) = n + k
  /\ \A i \in 1..(n + k) : c[i] = IF i <= n THEN s[i] ELSE t[i - n]
IsRest(g, s, m, n) ==
  /\ g = SubSeq(s, m + 1, n) /\ Len(g) = n - m
  /\ \A i \in 1..(n - m) : g[i] = s[m + i]

LEMMA Joined ==
  ASSUME NEW S, NEW s \in Seq(S), NEW t \in Seq(S), NEW n \in Nat,
         NEW k \in Nat, n = Len(s), k = Len(t)
  PROVE  \E c \in Seq(S) : IsJoin(c, s, t, n, k)
<1>1. PICK c \in Seq(S) : c = s \o t
  BY ConcatProperties
<1>2. /\ Len(c) = Len(s) + Len(t)
      /\ \A i \in 1..(Len(s) + Len(t)) :
           c[i] = IF i <= Len(s) THEN s[i] ELSE t[i - Len(s)]
  BY <1>1, ConcatProperties
<1>3. IsJoin(c, s, t, n, k)
  BY <1>1, <1>2 DEF IsJoin
<1>4. QED BY <1>3

LEMMA Rest ==
  ASSUME NEW S, NEW s \in Seq(S), NEW n \in Nat, NEW m \in Nat,
         n = Len(s), m <= n
  PROVE  \E g \in Seq(S) : IsRest(g, s, m, n)
<1>1. PICK k \in Nat : k = m + 1
  OBVIOUS
<1>2. \A i \in k..n : s[i] \in S
  BY <1>1, ElementOfSeq
<1>3. /\ SubSeq(s, k, n) \in Seq(S)
      /\ Len(SubSeq(s, k, n)) = IF k <= n THEN n - k + 1 ELSE 0
      /\ \A i \in 1..(n - k + 1) : SubSeq(s, k, n)[i] = s[k + i - 1]
  BY <1>1, <1>2, SubSeqProperties
<1>4. PICK g \in Seq(S) : g = SubSeq(s, k, n)
  BY <1>3
<1>5. (IF k <= n THEN n - k + 1 ELSE 0) = n - m /\ n - k + 1 = n - m
  BY <1>1
<1>6. \A i \in 1..(n - m) : k + i - 1 = m + i
  BY <1>1
<1>7. Len(g) = n - m
  BY <1>3, <1>4, <1>5
<1>8. \A i \in 1..(n - m) : g[i] = s[m + i]
  BY <1>3, <1>4, <1>5, <1>6
<1>9. IsRest(g, s, m, n)
  BY <1>1, <1>4, <1>7, <1>8 DEF IsRest
<1>10. QED BY <1>9

-----------------------------------------------------------------------------
(* Sequences in two ways of taking them apart.                             *)
LEMMA TakeFront ==
  ASSUME NEW S, NEW b \in Seq(S), NEW t \in Seq(S), NEW x \in Seq(S),
         NEW y \in Seq(S), b \o t = x \o y, Len(x) <= Len(b)
  PROVE  /\ SubSeq(b, 1, Len(x)) = x
         /\ SubSeq(b, Len(x) + 1, Len(b)) \o t = y
<1>1. PICK n \in Nat, m \in Nat, k \in Nat, j \in Nat :
        n = Len(b) /\ m = Len(x) /\ k = Len(t) /\ j = Len(y)
  BY LenProperties
<1>2. PICK c \in Seq(S) : c = b \o t /\ c = x \o y
  BY ConcatProperties
<1>3. /\ Len(c) = n + k /\ Len(c) = m + j
      /\ \A i \in 1..(n + k) : c[i] = IF i <= n THEN b[i] ELSE t[i - n]
      /\ \A i \in 1..(m + j) : c[i] = IF i <= m THEN x[i] ELSE y[i - m]
  BY <1>1, <1>2, ConcatProperties
<1>4. m <= n /\ n + k = m + j
  BY <1>1, <1>3
<1>5. PICK f \in Seq(S) : /\ f = SubSeq(b, 1, m) /\ Len(f) = m
                          /\ \A i \in 1..m : f[i] = b[i]
  <2>1. \A i \in 1..m : b[i] \in S
    BY <1>1, <1>4, ElementOfSeq
  <2>2. /\ SubSeq(b, 1, m) \in Seq(S)
        /\ Len(SubSeq(b, 1, m)) = IF 1 <= m THEN m - 1 + 1 ELSE 0
        /\ \A i \in 1..(m - 1 + 1) : SubSeq(b, 1, m)[i] = b[1 + i - 1]
    BY <2>1, SubSeqProperties
  <2>3. (IF 1 <= m THEN m - 1 + 1 ELSE 0) = m /\ m - 1 + 1 = m
        /\ \A i \in 1..m : 1 + i - 1 = i
    OBVIOUS
  <2>4. QED BY <2>2, <2>3
<1>6. f = x
  <2>1. \A i \in 1..m : f[i] = x[i]
    BY <1>3, <1>4, <1>5
  <2>2. QED BY <1>1, <1>5, <2>1, SeqEqual
<1>7. PICK g \in Seq(S) : /\ g = SubSeq(b, m + 1, n) /\ Len(g) = n - m
                          /\ \A i \in 1..(n - m) : g[i] = b[m + i]
  <2>1. PICK g \in Seq(S) : IsRest(g, b, m, n)
    BY <1>1, <1>4, Rest
  <2>2. QED BY <2>1 DEF IsRest
<1>8. PICK h \in Seq(S) :
        /\ h = g \o t /\ Len(h) = (n - m) + k
        /\ \A i \in 1..((n - m) + k) :
             h[i] = IF i <= n - m THEN g[i] ELSE t[i - (n - m)]
  <2>1. PICK l \in Nat : l = n - m
    BY <1>4
  <2>2. PICK h \in Seq(S) : IsJoin(h, g, t, l, k)
    BY <1>1, <1>7, <2>1, Joined
  <2>3. QED BY <2>1, <2>2 DEF IsJoin
<1>9. h = y
  <2>1. Len(h) = Len(y)
    BY <1>1, <1>4, <1>8
  <2>2. ASSUME NEW i \in 1..j PROVE h[i] = y[i]
    <3>1. m + i \in 1..(n + k) /\ ~(m + i <= m) /\ (m + i) - m = i
      BY <1>4
    <3>2. c[m + i] = y[i]
      BY <1>3, <1>4, <3>1
    <3>3. CASE i <= n - m
      <4>1. i \in 1..(n - m) /\ i \in 1..((n - m) + k) /\ m + i <= n
        BY <1>4, <3>3
      <4>2. h[i] = g[i] /\ g[i] = b[m + i] /\ c[m + i] = b[m + i]
        BY <1>3, <1>7, <1>8, <3>1, <3>3, <4>1
      <4>3. QED BY <3>2, <4>2
    <3>4. CASE ~(i <= n - m)
      <4>1. i \in 1..((n - m) + k) /\ ~(m + i <= n)
            /\ i - (n - m) = (m + i) - n
        BY <1>4, <3>4
      <4>2. h[i] = t[(m + i) - n] /\ c[m + i] = t[(m + i) - n]
        BY <1>3, <1>8, <3>1, <3>4, <4>1
      <4>3. QED BY <3>2, <4>2
    <3>5. QED BY <3>3, <3>4
  <2>3. QED BY <1>1, <1>8, <2>1, <2>2, SeqEqual
<1>10. QED BY <1>1, <1>5, <1>6, <1>7, <1>8, <1>9

LEMMA FirstLength ==
  ASSUME NEW n \in Nat, NEW m \in Nat
  PROVE  Min({n, m}) = IF n <= m THEN n ELSE m
BY DEF Min

LEMMA Portion ==
  ASSUME NEW S, NEW s \in Seq(S), NEW n \in Nat
  PROVE  /\ FirstOf(s, n) \in Seq(S)
         /\ SubSeq(s, n + 1, Len(s)) \in Seq(S)
         /\ FirstOf(s, n) \o SubSeq(s, n + 1, Len(s)) = s
<1>1. PICK l \in Nat : l = Len(s)
  BY LenProperties
<1>2. PICK m \in Nat : m = Min({n, l}) /\ m <= l /\ m <= n
                       /\ (n <= l => m = n) /\ (~(n <= l) => m = l)
  BY FirstLength
<1>3. \A i \in 1..l : s[i] \in S
  BY <1>1, ElementOfSeq
<1>4. PICK f \in Seq(S) : f = SubSeq(s, 1, m) /\ Len(f) = m
                          /\ \A i \in 1..m : f[i] = s[i]
  <2>1. \A i \in 1..m : s[i] \in S
    BY <1>2, <1>3
  <2>2. /\ SubSeq(s, 1, m) \in Seq(S)
        /\ Len(SubSeq(s, 1, m)) = IF 1 <= m THEN m - 1 + 1 ELSE 0
        /\ \A i \in 1..(m - 1 + 1) : SubSeq(s, 1, m)[i] = s[1 + i - 1]
    BY <2>1, SubSeqProperties
  <2>3. (IF 1 <= m THEN m - 1 + 1 ELSE 0) = m /\ m - 1 + 1 = m
        /\ \A i \in 1..m : 1 + i - 1 = i
    OBVIOUS
  <2>4. QED BY <2>2, <2>3
<1>5. PICK g \in Seq(S) : g = SubSeq(s, n + 1, l) /\ Len(g) = l - m
                          /\ \A i \in 1..(l - m) : g[i] = s[m + i]
  <2>1. CASE n <= l
    <3>1. m = n
      BY <1>2, <2>1
    <3>2. PICK g \in Seq(S) : IsRest(g, s, m, l)
      BY <1>1, <1>2, Rest
    <3>3. QED BY <3>1, <3>2 DEF IsRest
  <2>2. CASE ~(n <= l)
    <3>1. SubSeq(s, n + 1, l) = <<>>
      BY <2>2, SubSeqEmpty
    <3>2. l - m = 0
      BY <1>2, <2>2
    <3>3. PICK g \in Seq(S) : g = <<>> /\ Len(g) = 0
      BY EmptySeq
    <3>4. \A i \in 1..(l - m) : g[i] = s[m + i]
      BY <3>2
    <3>5. QED BY <3>1, <3>2, <3>3, <3>4
  <2>3. QED BY <2>1, <2>2
<1>6. PICK h \in Seq(S) : /\ h = f \o g /\ Len(h) = m + (l - m)
                          /\ \A i \in 1..(m + (l - m)) :
                               h[i] = IF i <= m THEN f[i] ELSE g[i - m]
  <2>1. PICK k \in Nat : k = l - m
    BY <1>2
  <2>2. PICK h \in Seq(S) : IsJoin(h, f, g, m, k)
    BY <1>4, <1>5, <2>1, Joined
  <2>3. QED BY <2>1, <2>2 DEF IsJoin
<1>7. h = s
  <2>1. Len(h) = Len(s)
    BY <1>1, <1>2, <1>6
  <2>2. ASSUME NEW i \in 1..l PROVE h[i] = s[i]
    <3>1. CASE i <= m
      BY <1>2, <1>4, <1>6, <3>1
    <3>2. CASE ~(i <= m)
      <4>1. i - m \in 1..(l - m) /\ m + (i - m) = i /\ i \in 1..(m + (l - m))
        BY <1>2, <3>2
      <4>2. QED BY <1>5, <1>6, <3>2, <4>1
    <3>3. QED BY <3>1, <3>2
  <2>3. QED BY <1>1, <2>1, <2>2, SeqEqual
<1>8. FirstOf(s, n) = f
  BY <1>1, <1>2, <1>4 DEF FirstOf
<1>9. QED BY <1>1, <1>4, <1>5, <1>6, <1>7, <1>8

-----------------------------------------------------------------------------
(* What a packet looks like, and that parse_packet() gets it back.         *)
LEMMA Built ==
  ASSUME NEW p \in Packet
  PROVE  /\ Build(p) \in Seq(Nat)
         /\ Len(Build(p)) = 5 + Len(p.payload)
         /\ Len(p.payload) \in Nat
         /\ Build(p)[1] = M /\ Build(p)[2] = M
         /\ Build(p)[3] = 5 + Len(p.payload) /\ Build(p)[4] = p.no
         /\ Build(p)[5 + Len(p.payload)] = E
         /\ \A i \in 1..Len(p.payload) : Build(p)[4 + i] = p.payload[i]
<1>1. PICK q \in Seq(Nat), l \in Nat : q = p.payload /\ l = Len(q)
  BY LenProperties DEF Packet
<1>2. PICK o \in Nat : o = p.no
  BY DEF Packet
<1>3. M \in Nat /\ E \in Nat
  BY StreamAssumption
<1>4. PICK h : h = <<M, M, 5 + l, o>>
  OBVIOUS
<1>5. /\ h \in Seq(Nat) /\ Len(h) = 4
      /\ h[1] = M /\ h[2] = M /\ h[3] = 5 + l /\ h[4] = o
  BY <1>3, <1>4
<1>6. PICK e : e = <<E>>
  OBVIOUS
<1>7. e \in Seq(Nat) /\ Len(e) = 1 /\ e[1] = E
  BY <1>3, <1>6
<1>8. PICK a \in Seq(Nat) : /\ a = h \o q /\ Len(a) = 4 + l
        /\ \A i \in 1..(4 + l) : a[i] = IF i <= 4 THEN h[i] ELSE q[i - 4]
  <2>1. PICK a \in Seq(Nat) : IsJoin(a, h, q, 4, l)
    BY <1>1, <1>5, Joined
  <2>2. QED BY <2>1 DEF IsJoin
<1>9. PICK b \in Seq(Nat) : /\ b = a \o e /\ Len(b) = (4 + l) + 1
        /\ \A i \in 1..((4 + l) + 1) :
             b[i] = IF i <= 4 + l THEN a[i] ELSE e[i - (4 + l)]
  <2>1. PICK k \in Nat : k = 4 + l
    OBVIOUS
  <2>2. PICK b \in Seq(Nat) : IsJoin(b, a, e, k, 1)
    BY <1>7, <1>8, <2>1, Joined
  <2>3. QED BY <2>1, <2>2 DEF IsJoin
<1>10. b = Build(p)
  BY <1>1, <1>2, <1>4, <1>6, <1>8, <1>9 DEF Build, MinPacket
<1>11. /\ b[1] = M /\ b[2] = M /\ b[3] = 5 + l /\ b[4] = o
       /\ b[5 + l] = E /\ Len(b) = 5 + l
  <2>1. \A i \in 1..4 : b[i] = h[i]
    BY <1>8, <1>9
  <2>2. (5 + l) - (4 + l) = 1 /\ 5 + l \in 1..((4 + l) + 1)
        /\ ~(5 + l <= 4 + l)
    OBVIOUS
  <2>3. b[5 + l] = e[(5 + l) - (4 + l)]
    BY <1>9, <2>2
  <2>4. b[5 + l] = E
    BY <1>7, <2>2, <2>3
  <2>5. Len(b) = 5 + l
    BY <1>9
  <2>6. QED BY <1>5, <2>1, <2>4, <2>5
<1>12. ASSUME NEW i \in 1..l PROVE b[4 + i] = q[i]
  <2>1. /\ 4 + i \in 1..(4 + l) /\ ~(4 + i <= 4) /\ (4 + i) - 4 = i
        /\ 4 + i \in 1..((4 + l) + 1) /\ 4 + i <= 4 + l
    OBVIOUS
  <2>2. QED BY <1>8, <1>9, <2>1
<1>13. QED BY <1>1, <1>2, <1>9, <1>10, <1>11, <1>12

LEMMA Parsed ==
  ASSUME NEW p \in Packet
  PROVE  IsPacket(Build(p)) /\ Parse(Build(p)) = p
<1>1. PICK b : b = Build(p)
  OBVIOUS
<1>2. PICK q \in Seq(Nat), l \in Nat : q = p.payload /\ l = Len(q)
  BY LenProperties DEF Packet
<1>3. /\ b \in Seq(Nat) /\ Len(b) = 5 + l /\ b[1] = M /\ b[2] = M
      /\ b[3] = 5 + l /\ b[4] = p.no /\ b[5 + l] = E
      /\ \A i \in 1..l : b[4 + i] = q[i]
  BY <1>1, <1>2, Built
<1>4. IsPacket(b)
  BY <1>3 DEF IsPacket, MinPacket
<1>5. SubSeq(b, 5, (5 + l) - 1) = q
  <2>1. PICK n \in Nat : n = 4 + l /\ n = (5 + l) - 1
    OBVIOUS
  <2>2. \A i \in 5..n : b[i] \in Nat
    BY <1>3, <2>1, ElementOfSeq
  <2>3. /\ SubSeq(b, 5, n) \in Seq(Nat)
        /\ Len(SubSeq(b, 5, n)) = IF 5 <= n THEN n - 5 + 1 ELSE 0
        /\ \A i \in 1..(n - 5 + 1) : SubSeq(b, 5, n)[i] = b[5 + i - 1]
    BY <2>2, SubSeqProperties
  <2>4. /\ (IF 5 <= n THEN n - 5 + 1 ELSE 0) = l
        /\ \A i \in 1..l : i \in 1..(n - 5 + 1) /\ 5 + i - 1 = 4 + i
    BY <2>1
  <2>5. PICK s \in Seq(Nat) : s = SubSeq(b, 5, n)
    BY <2>3
  <2>6. Len(s) = l /\ \A i \in 1..l : s[i] = q[i]
    BY <1>3, <2>3, <2>4, <2>5
  <2>7. s = q
    BY <1>2, <2>6, SeqEqual
  <2>8. QED BY <2>1, <2>5, <2>7
<1>6. Parse(b) = [no |-> p.no, payload |-> q]
  BY <1>3, <1>5 DEF Parse
<1>7. p = [no |-> p.no, payload |-> p.payload]
  BY DEF Packet
<1>8. QED BY <1>1, <1>2, <1>4, <1>6, <1>7

LEMMA OnlyOf == ASSUME NEW p \in Packet PROVE <<p>> \in Seq(Packet)
<1>1. <<p>> = Append(<<>>, p) /\ <<>> \in Seq(Packet)
  BY EmptySeq
<1>2. Append(<<>>, p) \in Seq(Packet)
  BY <1>1, AppendProperties
<1>3. QED BY <1>1, <1>2

LEMMA BuilderType == Builder \in [Packet -> Seq(Nat)]
BY Built DEF Builder

LEMMA BytesType == ASSUME NEW s \in Seq(Packet) PROVE Bytes(s) \in Seq(Nat)
BY BuilderType, FlatMapType DEF Bytes

LEMMA BytesIs ==
  ASSUME NEW s \in Seq(Packet)
  PROVE  FlattenSeq([i \in DOMAIN s |-> Build(s[i])]) = Bytes(s)
<1>1. \A i \in DOMAIN s : s[i] \in Packet
  BY ElementOfSeq, LenProperties
<1>2. \A i \in DOMAIN s : Builder[s[i]] = Build(s[i])
  BY <1>1 DEF Builder
<1>3. [i \in DOMAIN s |-> Build(s[i])] = EachOf(Builder, s)
  BY <1>2 DEF EachOf
<1>4. QED BY <1>3 DEF Bytes, FlatMap

LEMMA BytesOne == ASSUME NEW p \in Packet PROVE Bytes(<<p>>) = Build(p)
<1>1. FlatMap(Builder, <<p>>) = Builder[p]
  BY BuilderType, FlatMapOne
<1>2. QED BY <1>1 DEF Bytes, Builder

(* Concatenation without what it is made of.                               *)
Cat(s, t) == s \o t

LEMMA CatType == \A S : \A x, y \in Seq(S) : Cat(x, y) \in Seq(S)
BY ConcatProperties DEF Cat

LEMMA CatAssoc ==
  \A S : \A x, y, z \in Seq(S) : Cat(Cat(x, y), z) = Cat(x, Cat(y, z))
<1>1. SUFFICES ASSUME NEW S, NEW x \in Seq(S), NEW y \in Seq(S),
                      NEW z \in Seq(S)
               PROVE  Cat(Cat(x, y), z) = Cat(x, Cat(y, z))
  OBVIOUS
<1>2. QED BY ConcatAssociative DEF Cat

LEMMA Regrouped ==
  ASSUME NEW x \in Seq(Nat), NEW y \in Seq(Nat), NEW z \in Seq(Nat)
  PROVE  (x \o y) \o z = x \o (y \o z)
<1>1. Cat(Cat(x, y), z) = Cat(x, Cat(y, z))
  BY CatAssoc
<1>2. QED BY <1>1, Zenon DEF Cat

LEMMA CatFour ==
  \A x, y, z, w \in Seq(Nat) :
    Cat(Cat(Cat(x, y), z), w) = Cat(x, Cat(y, Cat(z, w)))
<1>1. SUFFICES ASSUME NEW x \in Seq(Nat), NEW y \in Seq(Nat),
                      NEW z \in Seq(Nat), NEW w \in Seq(Nat)
               PROVE  Cat(Cat(Cat(x, y), z), w) = Cat(x, Cat(y, Cat(z, w)))
  OBVIOUS
<1>2. Cat(x, y) \in Seq(Nat) /\ Cat(z, w) \in Seq(Nat)
  BY CatType
<1>3. Cat(Cat(Cat(x, y), z), w) = Cat(Cat(x, y), Cat(z, w))
  BY <1>2, CatAssoc
<1>4. Cat(Cat(x, y), Cat(z, w)) = Cat(x, Cat(y, Cat(z, w)))
  BY <1>2, CatAssoc
<1>5. QED BY <1>3, <1>4, Zenon

LEMMA OneMore ==
  ASSUME NEW g \in Seq(Packet), NEW p \in Packet, NEW q \in Seq(Packet)
  PROVE  Append(g, p) \o q = g \o (<<p>> \o q)
<1>1. PICK o \in Seq(Packet) : o = <<p>>
  BY OnlyOf
<1>2. Append(g, p) = g \o o
  BY <1>1, AppendIsConcat
<1>3. (g \o o) \o q = g \o (o \o q)
  BY ConcatAssociative
<1>4. QED BY <1>1, <1>2, <1>3

LEMMA BytesConcat ==
  ASSUME NEW s \in Seq(Packet), NEW t \in Seq(Packet)
  PROVE  Bytes(s \o t) = Bytes(s) \o Bytes(t)
<1> DEFINE T == {u \in Seq(Packet) : Bytes(s \o u) = Bytes(s) \o Bytes(u)}
<1>1. PICK x \in Seq(Nat) : x = Bytes(s)
  BY BytesType
<1>2. <<>> \in T
  <2>1. Bytes(<<>>) = <<>>
    BY FlatMapEmpty DEF Bytes
  <2>2. s \o <<>> = s /\ x \o <<>> = x /\ <<>> \in Seq(Packet)
    BY ConcatEmptySeq, EmptySeq
  <2>3. QED BY <1>1, <2>1, <2>2
<1>3. ASSUME NEW u \in T, NEW p \in Packet PROVE Append(u, p) \in T
  <2>1. u \in Seq(Packet) /\ Bytes(s \o u) = x \o Bytes(u)
    BY <1>1
  <2>2. PICK v \in Seq(Packet) : v = s \o u
    BY <2>1, ConcatProperties
  <2>3. PICK y \in Seq(Nat) : y = Bytes(u)
    BY <2>1, BytesType
  <2>4. PICK z \in Seq(Nat) : z = Builder[p]
    BY BuilderType
  <2>5. Bytes(Append(u, p)) = y \o z
    BY <2>1, <2>3, <2>4, BuilderType, FlatMapAppend DEF Bytes
  <2>6. Bytes(Append(v, p)) = Bytes(v) \o z
    BY <2>4, BuilderType, FlatMapAppend DEF Bytes
  <2>7. s \o Append(u, p) = Append(v, p)
    <3>1. PICK w \in Seq(Packet) : w = u
      BY <2>1
    <3>2. s \o Append(w, p) = Append(s \o w, p)
      BY ConcatAppend
    <3>3. QED BY <2>2, <3>1, <3>2
  <2>8. (x \o y) \o z = x \o (y \o z)
    BY Regrouped
  <2>9. Append(u, p) \in Seq(Packet)
    BY <2>1, AppendProperties
  <2>10. QED BY <1>1, <2>1, <2>2, <2>3, <2>5, <2>6, <2>7, <2>8, <2>9
<1>4. T \subseteq Seq(Packet)
  OBVIOUS
<1> HIDE DEF T
<1>5. T = Seq(Packet)
  BY <1>2, <1>3, <1>4, SeqInduction
<1>6. QED BY <1>5 DEF T
-----------------------------------------------------------------------------
(* What is dispatched and a stream of bytes make up what connection k sent.*)
Splits(k, g, b) ==
  \E rest \in Seq(Packet) : g \o rest = Sent[k] /\ b = Bytes(rest)

LEMMA SentType == \A k \in 1..2 : Sent[k] \in Seq(Packet)
BY StreamAssumption DEF Packet

LEMMA SplitsAtFirst ==
  ASSUME NEW k \in 1..2
  PROVE  Splits(k, <<>>, Stream(k)) /\ Stream(k) \in Seq(Nat)
<1>1. PICK s \in Seq(Packet) : s = Sent[k]
  BY SentType
<1>2. <<>> \o s = s
  BY ConcatEmptySeq
<1>3. Stream(k) = Bytes(s)
  BY <1>1, BytesIs DEF Stream
<1>4. QED BY <1>1, <1>2, <1>3, BytesType DEF Splits

(* Where five bytes are buffered, they begin a packet.                     *)
Begins(b, p) ==
  b[1] = M /\ b[2] = M /\ b[3] = 5 + Len(p.payload)

LEMMA FirstFive ==
  \A n, k \in Nat : n >= 5 => \A i \in 1..5 : i \in 1..(n + k) /\ i <= n
OBVIOUS

LEMMA FirstPacket ==
  ASSUME NEW rest \in Seq(Packet), NEW b \in Seq(Nat), NEW w \in Seq(Nat),
         b \o w = Bytes(rest), Len(b) >= 5
  PROVE  \E p \in Packet, q \in Seq(Packet) :
           /\ rest = <<p>> \o q /\ b \o w = Build(p) \o Bytes(q)
           /\ Begins(b, p)
<1>1. PICK n \in Nat, k \in Nat : n = Len(b) /\ k = Len(w) /\ n >= 5
  BY LenProperties
<1>2. PICK c \in Seq(Nat) : IsJoin(c, b, w, n, k)
  BY <1>1, Joined
<1>3. rest # <<>>
  <2>1. SUFFICES ASSUME rest = <<>> PROVE FALSE
    OBVIOUS
  <2>2. Bytes(<<>>) = <<>>
    BY FlatMapEmpty DEF Bytes
  <2>3. c = <<>> /\ Len(c) = n + k
    BY <1>2, <2>1, <2>2 DEF IsJoin
  <2>4. Len(c) = 0
    BY <2>3, EmptySeq
  <2>5. QED BY <1>1, <2>3, <2>4
<1>4. PICK p \in Packet, q \in Seq(Packet) : rest = <<p>> \o q
  <2>1. Head(rest) \in Packet /\ Tail(rest) \in Seq(Packet)
    BY <1>3, HeadTailProperties
  <2>2. rest = <<Head(rest)>> \o Tail(rest)
    BY <1>3, HeadTailProperties
  <2>3. QED BY <2>1, <2>2
<1>5. Bytes(rest) = Build(p) \o Bytes(q)
  <2>1. PICK o \in Seq(Packet) : o = <<p>>
    BY OnlyOf
  <2>2. Bytes(o \o q) = Bytes(o) \o Bytes(q)
    BY BytesConcat
  <2>3. QED BY <1>4, <2>1, <2>2, BytesOne
<1>6. PICK x \in Seq(Nat) : x = Build(p)
  BY Built
<1>7. PICK y \in Seq(Nat) : y = Bytes(q)
  BY BytesType
<1>8. PICK l \in Nat : /\ l = 5 + Len(p.payload) /\ l = Len(x) /\ l >= 5
                       /\ x[1] = M /\ x[2] = M /\ x[3] = l
  <2>1. /\ Len(p.payload) \in Nat /\ Len(x) = 5 + Len(p.payload)
        /\ x[1] = M /\ x[2] = M /\ x[3] = 5 + Len(p.payload)
    BY <1>6, Built
  <2>2. PICK l \in Nat : l = 5 + Len(p.payload) /\ l >= 5
    BY <2>1
  <2>3. QED BY <2>1, <2>2
<1>9. PICK j \in Nat : j = Len(y)
  BY LenProperties
<1>10. PICK d \in Seq(Nat) : IsJoin(d, x, y, l, j)
  BY <1>8, <1>9, Joined
<1>11. c = d
  BY <1>2, <1>5, <1>6, <1>7, <1>10 DEF IsJoin
<1>12. n \in Nat /\ k \in Nat /\ n >= 5
  BY <1>1
<1>13. l \in Nat /\ j \in Nat /\ l >= 5
  BY <1>8, <1>9
<1>14. \A i \in 1..5 : b[i] = x[i]
  <2>1. ASSUME NEW i \in 1..5 PROVE b[i] = x[i]
    <3>1. i \in 1..(n + k) /\ i <= n /\ i \in 1..(l + j) /\ i <= l
      BY <1>12, <1>13, FirstFive
    <3>2. c[i] = b[i]
      BY <1>2, <3>1 DEF IsJoin
    <3>3. d[i] = x[i]
      BY <1>10, <3>1 DEF IsJoin
    <3>4. QED BY <1>11, <3>2, <3>3
  <2>2. QED BY <2>1
<1>15. Begins(b, p)
  <2>1. b[1] = x[1] /\ b[2] = x[2] /\ b[3] = x[3]
    BY <1>14
  <2>2. QED BY <1>8, <2>1 DEF Begins
<1>16. QED BY <1>4, <1>5, <1>15

LEMMA Header ==
  ASSUME NEW k, NEW g, NEW b \in Seq(Nat), NEW w \in Seq(Nat),
         Splits(k, g, b \o w), Len(b) >= 5
  PROVE  b[1] = M /\ b[2] = M /\ b[3] \in Nat /\ b[3] >= 5
<1>1. PICK rest \in Seq(Packet) : b \o w = Bytes(rest)
  BY DEF Splits
<1>2. PICK p \in Packet, q \in Seq(Packet) : Begins(b, p)
  BY <1>1, FirstPacket
<1>3. Len(p.payload) \in Nat
  BY Built
<1>4. QED BY <1>2, <1>3 DEF Begins

(* The packet at the head of the buffer, once it is there, is the next one.*)
LEMMA CutOne ==
  ASSUME NEW k, NEW g \in Seq(Packet), NEW b \in Seq(Nat), NEW w \in Seq(Nat),
         Splits(k, g, b \o w), Len(b) >= 5, Len(b) >= b[3],
         NEW n, n = b[3], NEW a, a = FirstOf(b, n)
  PROVE  /\ IsPacket(a) /\ Append(g, Parse(a)) \in Seq(Packet)
         /\ SubSeq(b, n + 1, Len(b)) \in Seq(Nat)
         /\ Splits(k, Append(g, Parse(a)), SubSeq(b, n + 1, Len(b)) \o w)
<1>1. PICK rest \in Seq(Packet) : g \o rest = Sent[k] /\ b \o w = Bytes(rest)
  BY DEF Splits
<1>2. PICK p \in Packet, q \in Seq(Packet) :
        /\ rest = <<p>> \o q /\ b \o w = Build(p) \o Bytes(q)
        /\ Begins(b, p)
  BY <1>1, FirstPacket
<1>3. PICK x \in Seq(Nat) : x = Build(p) /\ Len(x) = 5 + Len(p.payload)
  BY Built
<1>4. PICK y \in Seq(Nat) : y = Bytes(q)
  BY BytesType
<1>5. n = Len(x) /\ n \in Nat
  BY <1>2, <1>3, LenProperties DEF Begins
<1>6. Len(x) <= Len(b)
  BY <1>5
<1>7. b \o w = x \o y
  BY <1>2, <1>3, <1>4
<1>8. /\ SubSeq(b, 1, Len(x)) = x
      /\ SubSeq(b, Len(x) + 1, Len(b)) \o w = y
  BY <1>6, <1>7, TakeFront
<1>9. a = x
  <2>1. PICK l \in Nat : l = Len(b)
    BY LenProperties
  <2>2. Min({n, l}) = n
    BY <1>5, <1>6, <2>1, FirstLength
  <2>3. QED BY <1>5, <1>8, <2>1, <2>2 DEF FirstOf
<1>10. IsPacket(a) /\ Parse(a) = p
  BY <1>3, <1>9, Parsed
<1>11. Append(g, p) \in Seq(Packet)
  BY AppendProperties
<1>12. Append(g, p) \o q = Sent[k]
  BY <1>1, <1>2, OneMore
<1>13. Splits(k, Append(g, p), y)
  BY <1>4, <1>12 DEF Splits
<1>14. SubSeq(b, n + 1, Len(b)) \in Seq(Nat)
  BY <1>5, Portion
<1>15. QED BY <1>5, <1>8, <1>10, <1>11, <1>13, <1>14

(* The header is where the search for it begins.                           *)
LEMMA FoundAtOnce ==
  ASSUME NEW b \in Seq(Nat), Len(b) >= 5, b[1] = M, b[2] = M, NEW S,
         S = {i \in 1..Len(b) - 1 : b[i] = M /\ b[i + 1] = M}
  PROVE  S # {} /\ Min(S) = 1
<1>1. PICK n \in Nat : n = Len(b) /\ n >= 5
  BY LenProperties
<1>2. 1 \in S
  BY <1>1
<1>3. \A y \in S : y \in Nat /\ 1 <= y
  BY <1>1
<1>4. PICK m : m = Min(S)
  OBVIOUS
<1>5. m \in S /\ \A y \in S : m <= y
  <2>1. \E x \in S : \A y \in S : x <= y
    BY <1>2, <1>3
  <2>2. QED BY <1>4, <2>1, Zenon DEF Min
<1>6. m \in Nat /\ 1 <= m /\ m <= 1
  BY <1>2, <1>3, <1>5
<1>7. m = 1
  BY <1>6
<1>8. QED BY <1>2, <1>4, <1>7

LEMMA NothingDropped ==
  ASSUME NEW b \in Seq(Nat) PROVE SubSeq(b, 1, Len(b)) = b
<1>1. b = b \o <<>> /\ <<>> \in Seq(Nat)
  BY ConcatEmptySeq, EmptySeq
<1>2. PICK e \in Seq(Nat) : e = <<>>
  BY <1>1
<1>3. PICK n \in Nat : n = Len(b)
  BY LenProperties
<1>4. SubSeq(b, 1, Len(b)) = b
  BY <1>1, <1>2, <1>3, TakeFront
<1>5. QED BY <1>4

-----------------------------------------------------------------------------
(* The inductive invariant.  One reader is at work, and the other is off or*)
(* left behind in recv() on the earlier socket; at each point of its loop  *)
(* the buffer begins with a packet of the laser's, and when one is cut*)
(* it is all there: the search for a header, the jump over a bad length    *)
(* and the rejected packet never come to pass.                             *)
Held == IF Is(conn, "append") THEN reader[conn].has ELSE <<>>

Points == {"recv", "append", "find", "measure", "cut", "off"}
Places == [at : Points, on : 1..2, has : Seq(Nat)]
Reading ==
  /\ reader \in [Readers -> Places] /\ connected
  /\ ~Is(conn, "off") /\ reader[conn].on = conn
  /\ conn = 1 => Is(2, "off")
  /\ conn = 2 => Is(1, "recv") /\ reader[1].on = 1

Whole ==
  /\ Reading
  /\ buf \in Seq(Nat) /\ wire \in [1..2 -> Seq(Nat)] /\ got \in Seq(Packet)
  /\ conn = 1 => wire[2] = Stream(2)
  /\ Is(conn, "measure") => Len(buf) >= 5
  /\ Is(conn, "cut") =>
       Len(buf) >= 5 /\ Len(buf) >= buf[3] /\ reader[conn].has = <<buf[3]>>
  /\ Splits(conn, got, buf \o (Held \o wire[conn]))

Intact ==
  /\ conn \in 1..2 /\ mixed \in BOOLEAN /\ (mixed => conn = 2)
  /\ ~mixed => Whole

LEMMA HeldType ==
  ASSUME conn \in 1..2, Reading PROVE Held \in Seq(Nat)
BY EmptySeq DEF Held, Reading, Readers, Places

LEMMA Goes ==
  ASSUME NEW c \in 1..2, c = conn, UNCHANGED <<conn, connected>>, Reading,
         NEW where \in {"recv", "append", "find", "measure", "cut"},
         NEW h \in Seq(Nat), Go(c, where, h)
  PROVE  /\ Reading' /\ reader'[c].at = where /\ reader'[c].has = h
         /\ Held' = IF where = "append" THEN h ELSE <<>>
<1>1. PICK x : x = [at |-> where, on |-> c, has |-> h]
  OBVIOUS
<1>2. x \in Places /\ x.at = where /\ x.on = c /\ x.has = h
  BY <1>1 DEF Places, Points
<1>3. /\ reader \in [Readers -> Places] /\ c \in Readers
      /\ reader' = [reader EXCEPT ![c] = x]
  BY <1>1 DEF Go, Reading, Readers
<1>4. /\ reader' \in [Readers -> Places] /\ reader'[c] = x
      /\ \A d \in Readers : d # c => reader'[d] = reader[d]
  BY <1>2, <1>3
<1>5. 1 \in Readers /\ 2 \in Readers
  BY DEF Readers
<1>6. QED BY <1>2, <1>4, <1>5 DEF Reading, Held, Is

LEMMA Wires ==
  ASSUME NEW w, w = [k \in 1..2 |-> Stream(k)]
  PROVE  w \in [1..2 -> Seq(Nat)] /\ \A k \in 1..2 : w[k] = Stream(k)
BY SplitsAtFirst

LEMMA IntactInit == Init => Intact
<1> SUFFICES ASSUME Init PROVE Intact
  OBVIOUS
<1>1. /\ conn = 1 /\ buf = <<>> /\ got = <<>> /\ mixed = FALSE
      /\ connected = TRUE /\ wire = [k \in 1..2 |-> Stream(k)]
  BY DEF Init
<1>2. Reading /\ Is(1, "recv")
  <2>1. 1 \in Readers /\ 2 \in Readers /\ 1 # 2 /\ 1 \in 1..2
    BY DEF Readers
  <2>2. <<>> \in Seq(Nat)
    BY EmptySeq
  <2>3. reader \in [Readers -> Places]
    BY <2>1, <2>2 DEF Init, Places, Points
  <2>4. /\ reader[1].at = "recv" /\ reader[1].on = 1
        /\ reader[2].at = "off"
    BY <2>1 DEF Init
  <2>5. QED BY <1>1, <2>3, <2>4 DEF Reading, Is
<1>3. Held = <<>>
  BY <1>1, <1>2 DEF Held, Is
<1>4. Splits(1, <<>>, Stream(1)) /\ Stream(1) \in Seq(Nat)
  BY SplitsAtFirst
<1>5. <<>> \o (<<>> \o Stream(1)) = Stream(1)
  BY <1>4, ConcatEmptySeq
<1>6. <<>> \in Seq(Nat) /\ <<>> \in Seq(Packet)
  BY EmptySeq
<1>7. /\ wire \in [1..2 -> Seq(Nat)] /\ wire[1] = Stream(1)
      /\ wire[2] = Stream(2)
  BY <1>1, Wires
<1>8. Whole
  BY <1>1, <1>2, <1>3, <1>4, <1>5, <1>6, <1>7 DEF Whole, Is
<1>9. conn \in 1..2 /\ ~mixed /\ mixed \in BOOLEAN
  <2>1. 1 \in 1..2
    OBVIOUS
  <2>2. QED BY <1>1, <2>1, Zenon
<1>10. QED BY <1>8, <1>9, Zenon DEF Intact

LEMMA IntactConnect == ASSUME Intact, Connect PROVE Intact'
<1>1. /\ conn = 1 /\ conn' = 2 /\ UNCHANGED wire /\ buf' = <<>>
      /\ got' = <<>> /\ connected' = TRUE /\ ~mixed /\ Whole
  BY DEF Intact, Connect, NewBuffer
<1>2. PICK on \in 1..2 :
        /\ reader' = [reader EXCEPT
             ![1].on = on, ![2] = [at |-> "recv", on |-> 2, has |-> <<>>]]
        /\ mixed' = (~Is(1, "recv") \/ on = 2)
  BY DEF Connect
<1>3. mixed' \in BOOLEAN
  BY <1>2 DEF Is
<1>4. SUFFICES ASSUME Is(1, "recv"), on = 1 PROVE Whole'
  <2>1. conn' \in 1..2 /\ conn' = 2
    BY <1>1
  <2>2. ~mixed' => Is(1, "recv") /\ on = 1
    <3>1. on = 1 \/ on = 2
      OBVIOUS
    <3>2. mixed' = (~Is(1, "recv") \/ on = 2)
      BY <1>2
    <3>3. QED BY <3>1, <3>2, Zenon
  <2>3. QED BY <1>3, <2>1, <2>2, Zenon DEF Intact
<1>5. /\ reader' \in [Readers -> Places]
      /\ reader'[1].at = "recv" /\ reader'[1].on = 1
      /\ reader'[2].at = "recv" /\ reader'[2].on = 2
  <2>1. reader \in [Readers -> Places] /\ 1 \in Readers /\ 2 \in Readers
    BY <1>1 DEF Whole, Reading, Readers
  <2>2. PICK y : y = [reader[1] EXCEPT !.on = 1]
    OBVIOUS
  <2>3. reader[1] \in Places
    BY <2>1
  <2>4. y \in Places /\ y.at = "recv" /\ y.on = 1
    BY <1>4, <2>2, <2>3 DEF Places, Is
  <2>5. PICK x : x = [at |-> "recv", on |-> 2, has |-> <<>>]
    OBVIOUS
  <2>6. x \in Places /\ x.at = "recv" /\ x.on = 2
    BY <2>5, EmptySeq DEF Places, Points
  <2>7. reader' = [reader EXCEPT ![1] = y, ![2] = x]
    BY <1>2, <1>4, <2>1, <2>2, <2>5
  <2>8. reader'[1] = y /\ reader'[2] = x /\ reader' \in [Readers -> Places]
    BY <2>1, <2>4, <2>6, <2>7
  <2>9. QED BY <2>4, <2>6, <2>8
<1>6. Reading' /\ Held' = <<>>
  BY <1>1, <1>5 DEF Reading, Held, Is
<1>7. Splits(2, <<>>, Stream(2)) /\ Stream(2) \in Seq(Nat)
  BY SplitsAtFirst
<1>8. <<>> \o (<<>> \o Stream(2)) = Stream(2)
  BY <1>7, ConcatEmptySeq
<1>9. <<>> \in Seq(Nat) /\ <<>> \in Seq(Packet)
  BY EmptySeq
<1>10. wire' \in [1..2 -> Seq(Nat)] /\ wire'[2] = Stream(2)
  BY <1>1 DEF Whole
<1>11. QED BY <1>1, <1>5, <1>6, <1>7, <1>8, <1>9, <1>10 DEF Whole, Is

(* A step of a reader that is not left behind, while no other goes on.     *)
LEMMA OnlyReader ==
  ASSUME Intact, ~mixed, NEW r \in Readers, ~Is(r, "off"), ~LeftBehind(r)
  PROVE  r = conn
<1>1. conn \in 1..2 /\ Reading /\ r \in 1..2
  BY DEF Intact, Whole, Readers
<1>2. CASE conn = 1
  BY <1>1, <1>2 DEF Reading
<1>3. CASE conn = 2
  BY <1>1, <1>3 DEF Reading, LeftBehind
<1>4. QED BY <1>1, <1>2, <1>3

LEMMA IntactStep ==
  ASSUME Intact, ~mixed, UNCHANGED <<conn, mixed>>, Whole' PROVE Intact'
BY DEF Intact

(* The reader that is left behind hears something.                         *)
LEMMA IntactBehind ==
  ASSUME Intact, ~mixed, NEW r \in Readers, LeftBehind(r), UNCHANGED conn,
         mixed' = TRUE
  PROVE  Intact'
<1>1. conn \in 1..2 /\ Reading /\ r \in 1..2
  BY DEF Intact, Whole, Readers
<1>2. conn # 1
  BY <1>1 DEF Reading, LeftBehind, Is
<1>3. QED BY <1>1, <1>2 DEF Intact

LEMMA IntactRecv ==
  ASSUME Intact, ~mixed, NEW r \in Readers, Recv(r), ~LeftBehind(r)
  PROVE  Intact'
<1>1. /\ Is(r, "recv") /\ Whole /\ r \in 1..2 /\ r = conn
      /\ UNCHANGED <<conn, buf, connected, got, mixed>>
      /\ reader[r].on = conn
  BY OnlyReader DEF Recv, Intact, Is, Readers, LeftBehind
<1>2. PICK v : v = wire[conn]
  OBVIOUS
<1>3. v \in Seq(Nat) /\ wire \in [1..2 -> Seq(Nat)] /\ conn \in 1..2
  BY <1>1, <1>2 DEF Whole
<1>4. PICK n \in Nat :
        /\ Go(r, "append", FirstOf(v, n))
        /\ wire' = [wire EXCEPT ![conn] = SubSeq(@, n + 1, Len(@))]
  BY <1>1, <1>2, StreamAssumption DEF Recv
<1>5. PICK f \in Seq(Nat) : f = FirstOf(v, n)
  BY <1>3, Portion
<1>6. PICK w \in Seq(Nat) : w = SubSeq(v, n + 1, Len(v))
  BY <1>3, Portion
<1>7. f \o w = v
  BY <1>3, <1>5, <1>6, Portion
<1>8. /\ wire' \in [1..2 -> Seq(Nat)] /\ wire'[conn] = w
      /\ conn = 1 => wire'[2] = wire[2]
  BY <1>2, <1>3, <1>4, <1>6
<1>9. Reading' /\ reader'[r].at = "append" /\ Held' = f
  BY <1>1, <1>4, <1>5, Goes DEF Whole
<1>10. Held = <<>>
  BY <1>1 DEF Held, Is
<1>11. <<>> \o v = v
  BY <1>3, ConcatEmptySeq
<1>12. Splits(conn, got, buf \o (f \o w))
  BY <1>1, <1>2, <1>7, <1>10, <1>11 DEF Whole
<1>13. Whole'
  BY <1>1, <1>8, <1>9, <1>12 DEF Whole, Is
<1>14. QED BY <1>1, <1>13, IntactStep

LEMMA IntactAppend ==
  ASSUME Intact, ~mixed, NEW r \in Readers, AppendChunk(r) PROVE Intact'
<1>1. /\ Is(r, "append") /\ Whole /\ r \in 1..2 /\ r = conn
      /\ UNCHANGED <<conn, wire, connected, got, mixed>>
      /\ Go(r, "find", <<>>) /\ buf' = buf \o reader[r].has
  BY OnlyReader DEF AppendChunk, Intact, Is, Readers, LeftBehind
<1>2. <<>> \in Seq(Nat)
  BY EmptySeq
<1>3. Reading' /\ reader'[r].at = "find" /\ Held' = <<>>
  BY <1>1, <1>2, Goes DEF Whole
<1>4. Held = reader[r].has /\ Held \in Seq(Nat)
  BY <1>1, HeldType DEF Held, Whole
<1>5. buf' \in Seq(Nat)
  BY <1>1, <1>4, ConcatProperties DEF Whole
<1>6. PICK w \in Seq(Nat) : w = wire[conn]
  BY <1>1 DEF Whole
<1>7. (buf \o Held) \o w = buf \o (Held \o w)
  BY <1>1, <1>4, Regrouped DEF Whole
<1>8. <<>> \o w = w
  BY ConcatEmptySeq
<1>9. Splits(conn, got, buf' \o (<<>> \o w))
  BY <1>1, <1>4, <1>6, <1>7, <1>8 DEF Whole
<1>10. Whole'
  BY <1>1, <1>3, <1>5, <1>6, <1>9 DEF Whole, Is
<1>11. QED BY <1>1, <1>10, IntactStep

(* At the points where nothing is held, the buffer and the wire are it.    *)
LEMMA Scans ==
  ASSUME Intact, ~mixed, NEW r \in Readers, Scanning(r)
  PROVE  /\ Whole /\ r \in 1..2 /\ r = conn /\ Held = <<>>
         /\ wire[conn] \in Seq(Nat) /\ <<>> \o wire[conn] = wire[conn]
         /\ Splits(conn, got, buf \o wire[conn])
<1>1. Whole /\ r \in 1..2 /\ r = conn
  BY OnlyReader DEF Scanning, Intact, Is, Readers, LeftBehind
<1>2. Held = <<>>
  BY <1>1 DEF Held, Is, Scanning
<1>3. wire[conn] \in Seq(Nat)
  BY <1>1 DEF Whole
<1>4. <<>> \o wire[conn] = wire[conn]
  BY <1>3, ConcatEmptySeq
<1>5. QED BY <1>1, <1>2, <1>3, <1>4 DEF Whole

(* It goes on with the buffer as it was.                                   *)
LEMMA GoesOn ==
  ASSUME Intact, ~mixed, NEW r \in Readers, Scanning(r),
         UNCHANGED <<conn, wire, connected, buf, got, mixed>>,
         NEW where \in {"recv", "measure"}, Go(r, where, <<>>),
         where = "measure" => Len(buf) >= 5
  PROVE  Intact'
<1>1. /\ Whole /\ r \in 1..2 /\ r = conn /\ Held = <<>>
  BY Scans
<1>2. <<>> \in Seq(Nat)
  BY EmptySeq
<1>3. Reading' /\ reader'[r].at = where /\ Held' = <<>>
  BY <1>1, <1>2, Goes DEF Whole
<1>4. Whole'
  BY <1>1, <1>3 DEF Whole, Is
<1>5. QED BY <1>4, IntactStep

LEMMA BackIs ==
  ASSUME Intact, ~mixed, NEW r, Back(r) PROVE Go(r, "recv", <<>>)
BY DEF Intact, Whole, Reading, Back

LEMMA IntactFind ==
  ASSUME Intact, ~mixed, NEW r \in Readers, Find(r) PROVE Intact'
<1>1. /\ Scanning(r) /\ UNCHANGED <<conn, wire, connected, got, mixed>>
  BY DEF Find, Scanning, Is
<1>2. CASE ~MayHold /\ Back(r) /\ UNCHANGED buf
  BY <1>1, <1>2, BackIs, GoesOn
<1>3. ASSUME MayHold
      PROVE  Len(buf) >= 5 /\ MagicAt # {} /\ Drop(Min(MagicAt) - 1) = buf
  <2>1. Len(buf) >= 5 /\ buf \in Seq(Nat) /\ wire[conn] \in Seq(Nat)
    BY <1>1, <1>3, Scans DEF MayHold, MinPacket, Whole
  <2>2. buf[1] = M /\ buf[2] = M
    BY <1>1, <2>1, Scans, Header
  <2>3. MagicAt # {} /\ Min(MagicAt) = 1
    BY <2>1, <2>2, FoundAtOnce DEF MagicAt
  <2>4. Drop(Min(MagicAt) - 1) = SubSeq(buf, 1, Len(buf))
    BY <2>3 DEF Drop
  <2>5. QED BY <2>1, <2>3, <2>4, NothingDropped
<1>4. CASE /\ MayHold /\ MagicAt # {} /\ Go(r, "measure", <<>>)
           /\ buf' = Drop(Min(MagicAt) - 1)
  <2>1. UNCHANGED buf /\ Len(buf) >= 5
    BY <1>3, <1>4
  <2>2. QED BY <1>1, <1>4, <2>1, GoesOn
<1>5. QED BY <1>2, <1>3, <1>4 DEF Find

LEMMA IntactMeasure ==
  ASSUME Intact, ~mixed, NEW r \in Readers, Measure(r) PROVE Intact'
<1>1. /\ Scanning(r) /\ UNCHANGED <<conn, wire, connected, got, mixed>>
  BY DEF Measure, Scanning, Is
<1>2. /\ Whole /\ r \in 1..2 /\ r = conn
      /\ Splits(conn, got, buf \o wire[conn])
      /\ wire[conn] \in Seq(Nat) /\ <<>> \o wire[conn] = wire[conn]
  BY <1>1, Scans
<1>3. Len(buf) >= 5 /\ buf \in Seq(Nat) /\ wire[conn] \in Seq(Nat)
  BY <1>2 DEF Whole, Measure
<1>4. buf[3] \in Nat /\ buf[3] >= 5
  BY <1>2, <1>3, Header
<1>5. /\ ~(Len(buf) < 3) /\ ~TooShort(buf[3])
      /\ Len(buf) \in Nat
  BY <1>3, <1>4, LenProperties DEF TooShort, MinPacket
<1>6. UNCHANGED buf
  BY <1>5 DEF Measure
<1>7. CASE Len(buf) < buf[3]
  <2>1. Back(r)
    BY <1>5, <1>7 DEF Measure
  <2>2. QED BY <1>1, <1>6, <2>1, BackIs, GoesOn
<1>8. CASE ~(Len(buf) < buf[3])
  <2>1. Go(r, "cut", <<buf[3]>>)
    BY <1>5, <1>8 DEF Measure
  <2>2. <<buf[3]>> \in Seq(Nat)
    BY <1>4
  <2>3. Reading' /\ reader'[r].at = "cut" /\ reader'[r].has = <<buf[3]>>
        /\ Held' = <<>>
    BY <1>1, <1>2, <2>1, <2>2, Goes DEF Whole
  <2>4. Len(buf) >= buf[3]
    BY <1>4, <1>5, <1>8
  <2>5. Whole'
    BY <1>1, <1>2, <1>3, <1>6, <2>3, <2>4 DEF Whole, Is
  <2>6. QED BY <1>1, <2>5, IntactStep
<1>9. QED BY <1>7, <1>8

LEMMA IntactCut ==
  ASSUME Intact, ~mixed, NEW r \in Readers, Cut(r) PROVE Intact'
<1>1. /\ Scanning(r) /\ Is(r, "cut")
      /\ UNCHANGED <<conn, wire, connected, mixed>>
      /\ Go(r, "find", <<>>)
  BY DEF Cut, Scanning, Is, Again
<1>2. /\ Whole /\ r \in 1..2 /\ r = conn
      /\ Splits(conn, got, buf \o wire[conn])
      /\ wire[conn] \in Seq(Nat) /\ <<>> \o wire[conn] = wire[conn]
  BY <1>1, Scans
<1>3. /\ Len(buf) >= 5 /\ Len(buf) >= buf[3] /\ reader[r].has = <<buf[3]>>
      /\ buf \in Seq(Nat) /\ wire[conn] \in Seq(Nat) /\ got \in Seq(Packet)
  BY <1>1, <1>2 DEF Whole
<1>4. PICK n : n = buf[3]
  OBVIOUS
<1>5. reader[r].has[1] = n
  BY <1>3, <1>4
<1>6. PICK a : a = FirstOf(buf, n)
  OBVIOUS
<1>7. /\ IsPacket(a) /\ Append(got, Parse(a)) \in Seq(Packet)
      /\ SubSeq(buf, n + 1, Len(buf)) \in Seq(Nat)
      /\ Splits(conn, Append(got, Parse(a)),
                SubSeq(buf, n + 1, Len(buf)) \o wire[conn])
  BY <1>2, <1>3, <1>4, <1>6, CutOne
<1>8. buf' = SubSeq(buf, n + 1, Len(buf)) /\ got' = Append(got, Parse(a))
  BY <1>5, <1>6, <1>7 DEF Cut, Drop
<1>9. <<>> \in Seq(Nat)
  BY EmptySeq
<1>10. Reading' /\ reader'[r].at = "find" /\ Held' = <<>>
  BY <1>1, <1>2, <1>9, Goes DEF Whole
<1>11. Splits(conn, got', buf' \o (<<>> \o wire[conn]))
  BY <1>2, <1>7, <1>8
<1>12. Whole'
  BY <1>1, <1>2, <1>3, <1>7, <1>8, <1>10, <1>11 DEF Whole, Is
<1>13. QED BY <1>1, <1>12, IntactStep

LEMMA IntactNext == Intact /\ [Next]_vars => Intact'
<1> SUFFICES ASSUME Intact, [Next]_vars PROVE Intact'
  OBVIOUS
<1>1. CASE UNCHANGED vars
  BY <1>1 DEF vars, Intact, Whole, Reading, Held, Is
<1>2. CASE Connect
  BY <1>2, IntactConnect
<1>3. ASSUME NEW r \in Readers, ReaderStep(r) PROVE Intact'
  <2>1. CASE mixed
    <3>1. UNCHANGED conn /\ mixed'
      BY <1>3, <2>1 DEF ReaderStep, Recv, OldEnds, AppendChunk, Find, Measure,
                        Cut
    <3>2. mixed' \in BOOLEAN
      BY <1>3, <2>1 DEF ReaderStep, Recv, OldEnds, AppendChunk, Find, Measure,
                        Cut, Intact, LeftBehind, Is
    <3>3. QED BY <2>1, <3>1, <3>2 DEF Intact
  <2>2. CASE ~mixed
    <3>1. CASE Recv(r) /\ LeftBehind(r)
      BY <2>2, <3>1, IntactBehind DEF Recv
    <3>2. CASE OldEnds(r)
      BY <2>2, <3>2, IntactBehind DEF OldEnds
    <3>3. QED
      BY <1>3, <2>2, <3>1, <3>2, IntactRecv, IntactAppend, IntactFind,
         IntactMeasure, IntactCut DEF ReaderStep
  <2>3. QED BY <2>1, <2>2 DEF Intact
<1>4. QED BY <1>1, <1>2, <1>3 DEF Next

LEMMA NoByteLostWhileIntact == Intact => NoByteLost
<1> SUFFICES ASSUME Intact, ~mixed
             PROVE  FlattenSeq([i \in DOMAIN got |-> Build(got[i])]) \o buf
                      \o Held \o wire[conn] = Stream(conn)
  BY DEF NoByteLost, Held
<1>1. Whole /\ conn \in 1..2
  BY DEF Intact
<1>2. PICK rest \in Seq(Packet) :
        /\ got \o rest = Sent[conn] /\ buf \o (Held \o wire[conn]) = Bytes(rest)
  BY <1>1 DEF Whole, Splits
<1>3. PICK g \in Seq(Packet) : g = got
  BY <1>1 DEF Whole
<1>4. PICK x \in Seq(Nat) : x = Bytes(g)
  BY BytesType
<1>5. FlattenSeq([i \in DOMAIN got |-> Build(got[i])]) = x
  BY <1>3, <1>4, BytesIs
<1>6. PICK b \in Seq(Nat) : b = buf
  BY <1>1 DEF Whole
<1>7. PICK h \in Seq(Nat) : h = Held
  BY <1>1, HeldType DEF Whole
<1>8. PICK w \in Seq(Nat) : w = wire[conn]
  BY <1>1 DEF Whole
<1>9. ((x \o b) \o h) \o w = x \o (b \o (h \o w))
  <2>1. Cat(Cat(Cat(x, b), h), w) = Cat(x, Cat(b, Cat(h, w)))
    BY CatFour
  <2>2. QED BY <2>1, Zenon DEF Cat
<1>10. x \o Bytes(rest) = Bytes(g \o rest)
  BY <1>4, BytesConcat
<1>11. PICK s \in Seq(Packet) : s = Sent[conn]
  BY <1>1, SentType
<1>12. Stream(conn) = Bytes(s)
  BY <1>11, BytesIs DEF Stream
<1>13. QED
  BY <1>2, <1>3, <1>5, <1>6, <1>7, <1>8, <1>9, <1>10, <1>11, <1>12

(* Whatever the laser sends, however TCP divides it, and whatever bytes a  *)
(* payload holds: as long as no reader of an earlier connection goes on    *)
(* (it may be left behind in recv()), what is dispatched and what is still *)
(* under way are the laser's stream.                                       *)
THEOREM EveryByteInOrder == Spec => []NoByteLost
<1>1. Spec => []Intact
  BY IntactInit, IntactNext, PTL DEF Spec
<1>2. QED BY <1>1, NoByteLostWhileIntact, PTL
=============================================================================
