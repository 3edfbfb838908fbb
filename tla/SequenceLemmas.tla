--------------------------- MODULE SequenceLemmas ---------------------------
(* Induction over sequences, and what FlattenSeq does to one more element. *)
(* The induction theorems of the library take an operator; these take the  *)
(* set of the numbers, or sequences, that have the property.               *)
EXTENDS Naturals, Sequences, SequencesExt, SequenceTheorems,
        WellFoundedInduction, TLAPS

LEMMA SetInduction ==
  ASSUME NEW T, T \subseteq Nat, 0 \in T, \A n \in Nat : n \in T => n + 1 \in T
  PROVE  T = Nat
<1> DEFINE R == OpToRel(<, Nat)
           B == Nat \ T
<1>1. IsWellFoundedOn(R, Nat)
  BY NatLessThanWellFounded
<1>2. SUFFICES ASSUME B # {} PROVE FALSE
  OBVIOUS
<1>3. PICK x \in B : \A y \in B : ~ (<<y, x>> \in R)
  <2> HIDE DEF B, R
  <2>1. B \subseteq Nat
    BY DEF B
  <2>2. QED BY <1>1, <1>2, <2>1, WFMin
<1>4. x \in Nat /\ x - 1 \in Nat /\ x - 1 \in B
  <2>1. x \in Nat /\ x \notin T /\ x # 0
    OBVIOUS
  <2>2. x - 1 \in Nat /\ (x - 1) + 1 = x
    BY <2>1
  <2>3. x - 1 \notin T
    BY <2>1, <2>2
  <2>4. QED BY <2>1, <2>2, <2>3
<1>5. <<x - 1, x>> \in R
  BY <1>4 DEF OpToRel
<1>6. QED BY <1>3, <1>4, <1>5

LEMMA SeqInduction ==
  ASSUME NEW S, NEW T, T \subseteq Seq(S), <<>> \in T,
         \A s \in T, x \in S : Append(s, x) \in T
  PROVE  T = Seq(S)
<1> DEFINE N == {n \in Nat : \A s \in Seq(S) : Len(s) = n => s \in T}
<1>1. 0 \in N
  BY EmptySeq
<1>2. ASSUME NEW n \in Nat, n \in N PROVE n + 1 \in N
  <2>1. ASSUME NEW s \in Seq(S), Len(s) = n + 1 PROVE s \in T
    <3>1. s # <<>>
      BY <2>1
    <3>2. PICK t \in Seq(S), x \in S : s = Append(t, x)
      BY <3>1, SequenceEmptyOrAppend
    <3>3. Len(t) = n
      BY <2>1, <3>2, AppendProperties, LenProperties
    <3>4. t \in T
      BY <1>2, <3>3
    <3>5. QED BY <3>2, <3>4
  <2>2. QED BY <2>1
<1>3. N \subseteq Nat
  OBVIOUS
<1> HIDE DEF N
<1>4. N = Nat
  BY <1>1, <1>2, <1>3, SetInduction
<1>5. \A s \in Seq(S) : Len(s) \in Nat
  BY LenProperties
<1>6. QED BY <1>4, <1>5 DEF N

(* Sequences as functions on an interval.                                  *)
LEMMA IsSeq ==
  ASSUME NEW S, NEW s, NEW n \in Nat, s \in [1..n -> S]
  PROVE  s \in Seq(S) /\ Len(s) = n
OBVIOUS

LEMMA Edited ==
  ASSUME NEW S, NEW s \in Seq(S), NEW i \in 1..Len(s), NEW r, NEW t,
         t = [s EXCEPT ![i] = r]
  PROVE  /\ t \in Seq(S \cup {r}) /\ Len(t) = Len(s) /\ t[i] = r
         /\ \A k \in 1..Len(s) : k # i => t[k] = s[k]
<1>1. Len(s) \in Nat /\ s \in [1..Len(s) -> S]
  BY LenProperties
<1>2. /\ t \in [1..Len(s) -> S \cup {r}] /\ t[i] = r
      /\ \A k \in 1..Len(s) : k # i => t[k] = s[k]
  BY <1>1
<1>3. QED BY <1>1, <1>2, IsSeq

LEMMA Extended ==
  ASSUME NEW S, NEW s \in Seq(S), NEW r, NEW t, t = Append(s, r)
  PROVE  /\ t \in Seq(S \cup {r}) /\ Len(t) = Len(s) + 1
         /\ t[Len(s) + 1] = r /\ \A k \in 1..Len(s) : t[k] = s[k]
<1>1. Len(s) \in Nat /\ s \in [1..Len(s) -> S \cup {r}]
  BY LenProperties
<1>2. s \in Seq(S \cup {r})
  BY <1>1, IsSeq
<1>3. QED BY <1>2, AppendProperties

-----------------------------------------------------------------------------
(* FlattenSeq(s) is the last value of the function that its definition     *)
(* names; this is what such a function is up to n.                         *)
Flattens(f, s, n) ==
  f = [i \in 1..n |-> IF i = 1 THEN s[i] ELSE f[i - 1] \o s[i]]

LEMMA FlattenExists ==
  ASSUME NEW s, NEW n \in Nat PROVE \E f : Flattens(f, s, n)
<1> DEFINE N == {m \in Nat : \E f : Flattens(f, s, m)}
<1>1. 0 \in N
  <2>1. Flattens([i \in 1..0 |-> s[i]], s, 0)
    BY DEF Flattens
  <2>2. QED BY <2>1
<1>2. ASSUME NEW m \in Nat, m \in N PROVE m + 1 \in N
  <2>1. PICK f : Flattens(f, s, m)
    BY <1>2
  <2> DEFINE v == IF m + 1 = 1 THEN s[m + 1] ELSE f[m] \o s[m + 1]
             g == [i \in 1..(m + 1) |-> IF i = m + 1 THEN v ELSE f[i]]
  <2>2. ASSUME NEW i \in 1..(m + 1)
        PROVE  g[i] = IF i = 1 THEN s[i] ELSE g[i - 1] \o s[i]
    <3>1. CASE i = m + 1
      <4>1. g[i] = v /\ (m # 0 => m \in 1..(m + 1) /\ g[m] = f[m])
        BY <3>1
      <4>2. QED BY <3>1, <4>1
    <3>2. CASE i # m + 1
      <4>1. i \in 1..m /\ g[i] = f[i]
        BY <3>2
      <4>2. f[i] = IF i = 1 THEN s[i] ELSE f[i - 1] \o s[i]
        BY <2>1, <4>1, Zenon DEF Flattens
      <4>3. i # 1 => g[i - 1] = f[i - 1]
        BY <4>1
      <4>4. QED BY <4>1, <4>2, <4>3
    <3>3. QED BY <3>1, <3>2
  <2>3. g = [i \in 1..(m + 1) |-> g[i]]
    OBVIOUS
  <2> HIDE DEF g
  <2>4. Flattens(g, s, m + 1)
    BY <2>2, <2>3 DEF Flattens
  <2>5. QED BY <2>4
<1>3. N \subseteq Nat
  OBVIOUS
<1> HIDE DEF N
<1>4. N = Nat
  BY <1>1, <1>2, <1>3, SetInduction
<1>5. QED BY <1>4 DEF N

LEMMA FlattenAgrees ==
  \A s, t, f, g : \A n, m \in Nat :
    Flattens(f, s, n) /\ Flattens(g, t, m) /\ n <= m
    /\ (\A i \in 1..n : s[i] = t[i])
      => \A i \in 1..n : f[i] = g[i]
<1> SUFFICES ASSUME NEW s, NEW t, NEW f, NEW g, NEW n \in Nat, NEW m \in Nat,
                    Flattens(f, s, n), Flattens(g, t, m), n <= m,
                    \A i \in 1..n : s[i] = t[i]
             PROVE  \A i \in 1..n : f[i] = g[i]
  OBVIOUS
<1> DEFINE N == {k \in Nat : k \in 1..n => f[k] = g[k]}
<1>1. 0 \in N
  OBVIOUS
<1>2. ASSUME NEW k \in Nat, k \in N PROVE k + 1 \in N
  <2>1. SUFFICES ASSUME k + 1 \in 1..n PROVE f[k + 1] = g[k + 1]
    OBVIOUS
  <2>2. /\ f[k + 1] = IF k + 1 = 1 THEN s[k + 1] ELSE f[k] \o s[k + 1]
        /\ g[k + 1] = IF k + 1 = 1 THEN t[k + 1] ELSE g[k] \o t[k + 1]
    <3>1. k + 1 \in 1..m /\ (k + 1) - 1 = k
      BY <2>1
    <3>2. /\ f[k + 1] = IF k + 1 = 1 THEN s[k + 1]
                        ELSE f[(k + 1) - 1] \o s[k + 1]
          /\ g[k + 1] = IF k + 1 = 1 THEN t[k + 1]
                        ELSE g[(k + 1) - 1] \o t[k + 1]
      BY <2>1, <3>1, Zenon DEF Flattens
    <3>3. QED BY <3>1, <3>2
  <2>3. k # 0 => f[k] = g[k]
    BY <1>2, <2>1
  <2>4. s[k + 1] = t[k + 1]
    BY <2>1
  <2>5. QED BY <2>2, <2>3, <2>4
<1>3. N \subseteq Nat
  OBVIOUS
<1> HIDE DEF N
<1>4. N = Nat
  BY <1>1, <1>2, <1>3, SetInduction
<1>5. QED BY <1>4 DEF N

LEMMA FlattenIs ==
  ASSUME NEW s, Len(s) \in Nat, Len(s) # 0
  PROVE  \E f : Flattens(f, s, Len(s)) /\ FlattenSeq(s) = f[Len(s)]
<1> DEFINE c == CHOOSE f : Flattens(f, s, Len(s))
<1>1. Flattens(c, s, Len(s))
  BY FlattenExists
<1>2. FlattenSeq(s) = c[Len(s)]
  BY Zenon DEF FlattenSeq, Flattens
<1>3. QED BY <1>1, <1>2

LEMMA FlattenEmpty == FlattenSeq(<<>>) = <<>>
<1>1. Len(<<>>) = 0
  BY EmptySeq
<1>2. QED BY <1>1, Zenon DEF FlattenSeq

LEMMA FlattenOne == ASSUME NEW S, NEW x \in Seq(S) PROVE FlattenSeq(<<x>>) = x
<1>1. Len(<<x>>) = 1 /\ <<x>>[1] = x
  OBVIOUS
<1>2. PICK f : Flattens(f, <<x>>, 1) /\ FlattenSeq(<<x>>) = f[1]
  <2>1. PICK s : s = <<x>>
    OBVIOUS
  <2>2. Len(s) \in Nat /\ Len(s) # 0 /\ Len(s) = 1
    BY <1>1, <2>1
  <2>3. \E f : Flattens(f, s, Len(s)) /\ FlattenSeq(s) = f[Len(s)]
    BY <2>2, FlattenIs
  <2>4. QED BY <2>1, <2>2, <2>3
<1>3. 1 \in 1..1
  OBVIOUS
<1>4. f[1] = <<x>>[1]
  BY <1>2, <1>3, Zenon DEF Flattens
<1>5. QED BY <1>1, <1>2, <1>4

LEMMA FlattenAppend ==
  ASSUME NEW S, NEW s \in Seq(Seq(S)), NEW x \in Seq(S)
  PROVE  FlattenSeq(Append(s, x)) = FlattenSeq(s) \o x
<1>1. PICK n \in Nat : n = Len(s)
  BY LenProperties
<1>2. CASE s = <<>>
  <2>1. Append(s, x) = <<x>> /\ FlattenSeq(s) = <<>>
    BY <1>2, FlattenEmpty
  <2>2. QED BY <2>1, FlattenOne, ConcatEmptySeq
<1>3. CASE s # <<>>
  <2> DEFINE t == Append(s, x)
  <2>1. n # 0 /\ n >= 1
    BY <1>1, <1>3, EmptySeq
  <2>2. Len(t) = n + 1 /\ t[n + 1] = x /\ \A i \in 1..n : t[i] = s[i]
    BY <1>1, AppendProperties
  <2> HIDE DEF t
  <2>3. PICK f : Flattens(f, s, n) /\ FlattenSeq(s) = f[n]
    BY <1>1, <2>1, FlattenIs
  <2>4. PICK g : Flattens(g, t, n + 1) /\ FlattenSeq(t) = g[n + 1]
    <3>1. Len(t) \in Nat /\ Len(t) # 0
      BY <1>1, <2>2
    <3>2. QED BY <2>2, <3>1, FlattenIs
  <2>5. f[n] = g[n]
    <3>1. \A i \in 1..n : f[i] = g[i]
      <4>1. PICK m : m = n + 1
        OBVIOUS
      <4>2. m \in Nat /\ n \in Nat
        BY <1>1, <4>1
      <4>3. /\ Flattens(f, s, n) /\ Flattens(g, t, m) /\ n <= m
            /\ \A i \in 1..n : s[i] = t[i]
        BY <1>1, <2>2, <2>3, <2>4, <4>1
      <4>4. Flattens(f, s, n) /\ Flattens(g, t, m) /\ n <= m
            /\ (\A i \in 1..n : s[i] = t[i])
              => \A i \in 1..n : f[i] = g[i]
        BY ONLY <4>2, FlattenAgrees
      <4>5. QED BY <4>3, <4>4
    <3>2. n \in 1..n
      BY <1>1, <2>1
    <3>3. QED BY <3>1, <3>2
  <2>6. g[n + 1] = g[n] \o t[n + 1]
    <3>1. n + 1 \in 1..(n + 1) /\ n + 1 # 1 /\ (n + 1) - 1 = n
      BY <1>1, <2>1
    <3>2. g[n + 1] = g[(n + 1) - 1] \o t[n + 1]
      BY <2>4, <3>1, Zenon DEF Flattens
    <3>3. QED BY <3>1, <3>2
  <2>7. QED BY <2>2, <2>3, <2>4, <2>5, <2>6 DEF t
<1>4. QED BY <1>2, <1>3

LEMMA FlattenType ==
  ASSUME NEW S, NEW s \in Seq(Seq(S)) PROVE FlattenSeq(s) \in Seq(S)
<1> DEFINE T == {t \in Seq(Seq(S)) : FlattenSeq(t) \in Seq(S)}
<1>1. <<>> \in T
  BY EmptySeq, FlattenEmpty
<1>2. ASSUME NEW t \in T, NEW x \in Seq(S) PROVE Append(t, x) \in T
  <2>1. Append(t, x) \in Seq(Seq(S))
    BY AppendProperties
  <2>2. FlattenSeq(Append(t, x)) \in Seq(S)
    BY FlattenAppend, ConcatProperties
  <2>3. QED BY <2>1, <2>2
<1>3. T \subseteq Seq(Seq(S))
  OBVIOUS
<1> HIDE DEF T
<1>4. T = Seq(Seq(S))
  BY <1>1, <1>2, <1>3, SeqInduction
<1>5. QED BY <1>4 DEF T

(* One element more, when the elements are given by a function.            *)
LEMMA Grown ==
  ASSUME NEW S, NEW n \in Nat, NEW s \in Seq(S), Len(s) = n,
         NEW t \in [1..(n + 1) -> S], \A i \in 1..n : t[i] = s[i]
  PROVE  t = Append(s, t[n + 1])
<1>1. PICK m \in Nat : m = n + 1
  OBVIOUS
<1>2. t \in Seq(S) /\ Len(t) = m /\ t[m] \in S
  BY <1>1, IsSeq
<1>3. PICK a \in Seq(S) : a = Append(s, t[m])
  BY <1>2, AppendProperties
<1>4. Len(a) = m /\ a[m] = t[m] /\ \A i \in 1..n : a[i] = s[i]
  BY <1>1, <1>2, <1>3, AppendProperties
<1>5. ASSUME NEW i \in 1..Len(t) PROVE t[i] = a[i]
  <2>1. i = m \/ i \in 1..n
    BY <1>1, <1>2
  <2>2. QED BY <1>4, <2>1
<1>6. t = a
  BY <1>2, <1>4, <1>5, SeqEqual
<1>7. QED BY <1>1, <1>3, <1>6

Prefix(d, k) == [i \in 1..k |-> d[i]]

LEMMA FlattenPrefix ==
  ASSUME NEW S, NEW n \in Nat, NEW d \in [1..n -> Seq(S)],
         NEW k \in Nat, k < n
  PROVE  FlattenSeq(Prefix(d, k + 1)) = FlattenSeq(Prefix(d, k)) \o d[k + 1]
<1>1. PICK m \in Nat : m = k + 1
  OBVIOUS
<1>2. PICK s : s = Prefix(d, k)
  OBVIOUS
<1>3. PICK t : t = Prefix(d, m)
  OBVIOUS
<1>4. s \in [1..k -> Seq(S)] /\ t \in [1..(k + 1) -> Seq(S)]
  BY <1>1, <1>2, <1>3 DEF Prefix
<1>5. s \in Seq(Seq(S)) /\ Len(s) = k /\ \A i \in 1..k : t[i] = s[i]
  BY <1>1, <1>2, <1>3, <1>4, IsSeq DEF Prefix
<1>6. t[k + 1] = d[k + 1] /\ d[k + 1] \in Seq(S)
  BY <1>1, <1>3 DEF Prefix
<1>7. t = Append(s, t[k + 1])
  BY <1>4, <1>5, Grown
<1>8. FlattenSeq(Append(s, d[k + 1])) = FlattenSeq(s) \o d[k + 1]
  BY <1>5, <1>6, FlattenAppend
<1>9. QED BY <1>1, <1>2, <1>3, <1>6, <1>7, <1>8

LEMMA FlattenNothing ==
  ASSUME NEW n \in Nat, NEW d, d = [i \in 1..n |-> <<>>]
  PROVE  FlattenSeq(d) = <<>>
<1> DEFINE N == {k \in Nat : k <= n => FlattenSeq(Prefix(d, k)) = <<>>}
<1>1. 0 \in N
  <2>1. Prefix(d, 0) = <<>>
    BY DEF Prefix
  <2>2. QED BY <2>1, FlattenEmpty
<1>2. ASSUME NEW k \in Nat, k \in N PROVE k + 1 \in N
  <2>1. SUFFICES ASSUME k < n PROVE FlattenSeq(Prefix(d, k + 1)) = <<>>
    OBVIOUS
  <2>2. d \in [1..n -> Seq({})] /\ d[k + 1] = <<>>
    BY <2>1, EmptySeq
  <2>3. FlattenSeq(Prefix(d, k + 1)) = FlattenSeq(Prefix(d, k)) \o d[k + 1]
    BY <2>1, <2>2, FlattenPrefix
  <2>4. FlattenSeq(Prefix(d, k)) = <<>>
    BY <1>2, <2>1
  <2>5. <<>> \o <<>> = <<>>
    BY EmptySeq, ConcatEmptySeq
  <2>6. QED BY <2>2, <2>3, <2>4, <2>5
<1>3. N \subseteq Nat
  OBVIOUS
<1> HIDE DEF N
<1>4. N = Nat
  BY <1>1, <1>2, <1>3, SetInduction
<1>5. Prefix(d, n) = d
  BY DEF Prefix
<1>6. QED BY <1>4, <1>5 DEF N

(* One element put in where there was none, and nothing is behind it.      *)
Inserted(d, e, l, n) ==
  /\ e[l] = <<>>
  /\ \A i \in 1..n : i # l => d[i] = e[i]
  /\ \A i \in l + 1..n : d[i] = <<>>

LEMMA FlattenOneMore ==
  ASSUME NEW S, NEW n \in Nat, NEW d \in [1..n -> Seq(S)],
         NEW e \in [1..n -> Seq(S)], NEW l \in 1..n, Inserted(d, e, l, n)
  PROVE  FlattenSeq(d) = FlattenSeq(e) \o d[l]
<1> DEFINE Same(k) ==
      FlattenSeq(Prefix(d, k)) = FlattenSeq(Prefix(e, k)) \o d[l]
           N == {k \in Nat : k \in l..n => Same(k)}
<1> HIDE DEF Same
<1>0. /\ e[l] = <<>>
      /\ \A i \in 1..n : i # l => d[i] = e[i]
      /\ \A i \in l + 1..n : d[i] = <<>>
  BY DEF Inserted
<1>1. 0 \in N
  OBVIOUS
<1>2. ASSUME NEW k \in Nat, k \in N PROVE k + 1 \in N
  <2>1. SUFFICES ASSUME k + 1 \in l..n PROVE Same(k + 1)
    OBVIOUS
  <2>0. l \in Nat /\ k < n /\ k + 1 \in 1..n /\ l <= k + 1
    BY <2>1
  <2>2. /\ FlattenSeq(Prefix(d, k + 1)) = FlattenSeq(Prefix(d, k)) \o d[k + 1]
        /\ FlattenSeq(Prefix(e, k + 1)) = FlattenSeq(Prefix(e, k)) \o e[k + 1]
    <3>1. FlattenSeq(Prefix(d, k + 1)) = FlattenSeq(Prefix(d, k)) \o d[k + 1]
      BY <2>0, FlattenPrefix
    <3>2. FlattenSeq(Prefix(e, k + 1)) = FlattenSeq(Prefix(e, k)) \o e[k + 1]
      BY <2>0, FlattenPrefix
    <3>3. QED BY <3>1, <3>2
  <2>3. PICK f \in Seq(S) : f = FlattenSeq(Prefix(e, k))
    <3>1. Prefix(e, k) \in [1..k -> Seq(S)]
      BY <2>0 DEF Prefix
    <3>2. Prefix(e, k) \in Seq(Seq(S))
      BY <3>1, IsSeq
    <3>3. QED BY <3>2, FlattenType
  <2>4. e[k + 1] = <<>> /\ (k + 1 # l => d[k + 1] = <<>>) /\ d[l] \in Seq(S)
    <3>1. k + 1 # l => k + 1 \in l + 1..n
      BY <2>0
    <3>2. e[k + 1] = <<>> \/ k + 1 # l
      BY <1>0
    <3>3. k + 1 # l => d[k + 1] = <<>> /\ d[k + 1] = e[k + 1]
      BY <1>0, <2>0, <3>1
    <3>4. QED BY <3>2, <3>3
  <2>5. f \o <<>> = f /\ (f \o d[l]) \o <<>> = f \o d[l]
    BY <2>4, ConcatProperties, ConcatEmptySeq
  <2>6. CASE k + 1 = l
    <3>1. Prefix(d, k) = Prefix(e, k)
      <4>1. \A i \in 1..k : i \in 1..n /\ i # l
        BY <2>0, <2>6
      <4>2. QED BY <1>0, <4>1 DEF Prefix
    <3>2. QED BY <2>2, <2>3, <2>4, <2>5, <2>6, <3>1 DEF Same
  <2>7. CASE k + 1 # l
    <3>1. FlattenSeq(Prefix(d, k)) = f \o d[l]
      <4>1. k \in l..n
        BY <2>0, <2>7
      <4>2. QED BY <1>2, <2>3, <4>1 DEF Same
    <3>2. QED BY <2>2, <2>3, <2>4, <2>5, <2>7, <3>1 DEF Same
  <2>8. QED BY <2>6, <2>7
<1>3. N \subseteq Nat
  OBVIOUS
<1> HIDE DEF N
<1>4. N = Nat
  BY <1>1, <1>2, <1>3, SetInduction
<1>5. Prefix(d, n) = d /\ Prefix(e, n) = e
  BY DEF Prefix
<1>6. n \in l..n /\ n \in Nat
  OBVIOUS
<1>7. QED BY <1>4, <1>5, <1>6 DEF N, Same

-----------------------------------------------------------------------------
(* The concatenation of what a function makes of each element.             *)
EachOf(F, s) == [i \in DOMAIN s |-> F[s[i]]]
FlatMap(F, s) == FlattenSeq(EachOf(F, s))

LEMMA EachElement ==
  ASSUME NEW S, NEW F, NEW s \in Seq(S)
  PROVE  /\ Len(EachOf(F, s)) = Len(s)
         /\ \A i \in 1..Len(s) : EachOf(F, s)[i] = F[s[i]]
<1> DEFINE R == {F[s[i]] : i \in 1..Len(s)}
<1>1. Len(s) \in Nat /\ DOMAIN s = 1..Len(s)
  BY LenProperties
<1>2. EachOf(F, s) \in [1..Len(s) -> R]
  BY <1>1 DEF EachOf
<1>3. EachOf(F, s) \in Seq(R) /\ Len(EachOf(F, s)) = Len(s)
  <2> HIDE DEF R
  <2>1. QED BY <1>1, <1>2
<1>4. \A i \in 1..Len(s) : EachOf(F, s)[i] = F[s[i]]
  BY <1>1 DEF EachOf
<1>5. QED BY <1>3, <1>4

LEMMA EachType ==
  ASSUME NEW S, NEW T, NEW F \in [S -> T], NEW s \in Seq(S)
  PROVE  EachOf(F, s) \in Seq(T)
<1>1. Len(s) \in Nat /\ DOMAIN s = 1..Len(s)
  BY LenProperties
<1>2. \A i \in 1..Len(s) : s[i] \in S
  BY ElementOfSeq
<1>3. EachOf(F, s) \in [1..Len(s) -> T]
  BY <1>1, <1>2 DEF EachOf
<1>4. QED BY <1>1, <1>3

LEMMA FlatMapType ==
  ASSUME NEW S, NEW T, NEW F \in [S -> Seq(T)], NEW s \in Seq(S)
  PROVE  FlatMap(F, s) \in Seq(T)
<1>1. EachOf(F, s) \in Seq(Seq(T))
  BY EachType
<1>2. QED BY <1>1, FlattenType DEF FlatMap

LEMMA FlatMapEmpty == ASSUME NEW F PROVE FlatMap(F, <<>>) = <<>>
<1>1. EachOf(F, <<>>) = <<>>
  BY DEF EachOf
<1>2. QED BY <1>1, FlattenEmpty, Zenon DEF FlatMap

LEMMA EachAppend ==
  ASSUME NEW S, NEW T, NEW F \in [S -> T], NEW s \in Seq(S), NEW x \in S
  PROVE  EachOf(F, Append(s, x)) = Append(EachOf(F, s), F[x])
<1>1. PICK t \in Seq(S) : t = Append(s, x)
  BY AppendProperties
<1>2. PICK m \in Seq(T) : m = EachOf(F, s)
  BY EachType
<1>3. PICK k \in Seq(T) : k = EachOf(F, t)
  BY EachType
<1>4. /\ Len(s) \in Nat /\ Len(t) = Len(s) + 1 /\ t[Len(s) + 1] = x
      /\ \A i \in 1..Len(s) : t[i] = s[i]
  BY <1>1, AppendProperties, LenProperties
<1>5. F[x] \in T
  OBVIOUS
<1>6. /\ Len(m) = Len(s) /\ \A i \in 1..Len(s) : m[i] = F[s[i]]
      /\ Len(k) = Len(t) /\ \A i \in 1..Len(t) : k[i] = F[t[i]]
  <2>1. /\ Len(EachOf(F, s)) = Len(s)
        /\ \A i \in 1..Len(s) : EachOf(F, s)[i] = F[s[i]]
    BY EachElement
  <2>2. /\ Len(EachOf(F, t)) = Len(t)
        /\ \A i \in 1..Len(t) : EachOf(F, t)[i] = F[t[i]]
    BY EachElement
  <2>3. QED BY <1>2, <1>3, <2>1, <2>2, Zenon
<1>7. PICK a \in Seq(T) : a = Append(m, F[x])
  BY <1>5, AppendProperties
<1>8. /\ Len(a) = Len(m) + 1 /\ a[Len(m) + 1] = F[x]
      /\ \A i \in 1..Len(m) : a[i] = m[i]
  BY <1>5, <1>7, AppendProperties
<1>9. Len(k) = Len(a)
  BY <1>4, <1>6, <1>8
<1>10. ASSUME NEW i \in 1..Len(k) PROVE k[i] = a[i]
  <2>1. CASE i = Len(s) + 1
    BY <1>4, <1>6, <1>8, <2>1
  <2>2. CASE i # Len(s) + 1
    <3>1. i \in 1..Len(s)
      BY <1>4, <1>6, <2>2
    <3>2. QED BY <1>4, <1>6, <1>8, <3>1
  <2>3. QED BY <2>1, <2>2
<1>11. k = a
  BY <1>9, <1>10, SeqEqual
<1>12. QED BY <1>1, <1>2, <1>3, <1>7, <1>11

LEMMA FlatMapAppend ==
  ASSUME NEW S, NEW T, NEW F \in [S -> Seq(T)], NEW s \in Seq(S), NEW x \in S
  PROVE  FlatMap(F, Append(s, x)) = FlatMap(F, s) \o F[x]
<1>1. PICK m \in Seq(Seq(T)) : m = EachOf(F, s)
  BY EachType
<1>2. F[x] \in Seq(T)
  OBVIOUS
<1>3. EachOf(F, Append(s, x)) = Append(m, F[x])
  BY <1>1, EachAppend
<1>4. FlattenSeq(Append(m, F[x])) = FlattenSeq(m) \o F[x]
  BY <1>2, FlattenAppend
<1>5. QED BY <1>1, <1>3, <1>4 DEF FlatMap

LEMMA FlatMapOne ==
  ASSUME NEW S, NEW T, NEW F \in [S -> Seq(T)], NEW x \in S
  PROVE  FlatMap(F, <<x>>) = F[x]
<1>1. <<>> \in Seq(S) /\ Append(<<>>, x) = <<x>> /\ F[x] \in Seq(T)
  BY EmptySeq
<1>2. FlatMap(F, Append(<<>>, x)) = FlatMap(F, <<>>) \o F[x]
  BY <1>1, FlatMapAppend
<1>3. QED BY <1>1, <1>2, FlatMapEmpty, ConcatEmptySeq

LEMMA ConcatAppend ==
  ASSUME NEW S, NEW s \in Seq(S), NEW t \in Seq(S), NEW x \in S
  PROVE  s \o Append(t, x) = Append(s \o t, x)
<1>1. s \o t \in Seq(S) /\ <<x>> \in Seq(S)
  BY ConcatProperties
<1>2. Append(t, x) = t \o <<x>> /\ Append(s \o t, x) = (s \o t) \o <<x>>
  BY <1>1, AppendIsConcat
<1>3. QED BY <1>1, <1>2, ConcatAssociative

(* The last element of a sequence that has one.                            *)
EndsWith(s, t, x) ==
  /\ s = Append(t, x) /\ Last(s) = x /\ s[Len(s)] = x
  /\ \A y : [s EXCEPT ![Len(s)] = y] = Append(t, y)

LEMMA SplitLast ==
  ASSUME NEW S, NEW s \in Seq(S), s # <<>>
  PROVE  \E t \in Seq(S), x \in S : EndsWith(s, t, x)
<1>1. PICK t \in Seq(S), x \in S : s = Append(t, x)
  BY SequenceEmptyOrAppend
<1>2. /\ Len(t) \in Nat /\ Len(s) = Len(t) + 1 /\ s[Len(t) + 1] = x
      /\ \A i \in 1..Len(t) : s[i] = t[i]
  BY <1>1, AppendProperties, LenProperties
<1>3. Last(s) = x /\ s[Len(s)] = x
  BY <1>2 DEF Last
<1>4. ASSUME NEW y PROVE [s EXCEPT ![Len(s)] = y] = Append(t, y)
  <2>1. PICK n \in Nat : n = Len(t) + 1
    BY <1>2
  <2>2. t \in Seq(S \cup {y}) /\ y \in S \cup {y}
    <3>1. t \in [1..Len(t) -> S \cup {y}]
      BY <1>2, LenProperties
    <3>2. QED BY <1>2, <3>1
  <2>3. PICK a \in Seq(S \cup {y}) : a = Append(t, y)
    BY <2>2, AppendProperties
  <2>4. /\ Len(a) = n /\ a[n] = y /\ \A i \in 1..Len(t) : a[i] = t[i]
    BY <2>1, <2>2, <2>3, AppendProperties
  <2>5. s \in [1..n -> S] /\ Len(s) = n
    BY <1>2, <2>1, LenProperties
  <2>6. PICK b \in [1..n -> S \cup {y}] : b = [s EXCEPT ![n] = y]
    <3>1. [s EXCEPT ![n] = y] \in [1..n -> S \cup {y}]
      BY <2>5
    <3>2. QED BY <3>1, Zenon
  <2>7. a \in [1..n -> S \cup {y}]
    BY <2>4, LenProperties
  <2>8. \A i \in 1..n : a[i] = b[i]
    <3>1. ASSUME NEW i \in 1..n PROVE a[i] = b[i]
      <4>1. CASE i = n
        BY <2>4, <2>5, <2>6, <4>1
      <4>2. CASE i # n
        <5>1. i \in 1..Len(t)
          BY <1>2, <2>1, <4>2
        <5>2. a[i] = t[i] /\ s[i] = t[i] /\ b[i] = s[i]
          BY <1>2, <2>4, <2>5, <2>6, <4>2, <5>1
        <5>3. QED BY <5>2
      <4>3. QED BY <4>1, <4>2
    <3>2. QED BY <3>1
  <2>9. a = b
    BY <2>6, <2>7, <2>8
  <2>10. QED BY <2>3, <2>5, <2>6, <2>9
<1>5. QED BY <1>1, <1>3, <1>4 DEF EndsWith

LEMMA LastOfAppend ==
  ASSUME NEW S, NEW s \in Seq(S), NEW x \in S PROVE Last(Append(s, x)) = x
<1>1. PICK t \in Seq(S) : t = Append(s, x)
  BY AppendProperties
<1>2. Len(s) \in Nat /\ Len(t) = Len(s) + 1 /\ t[Len(s) + 1] = x
  BY <1>1, AppendProperties, LenProperties
<1>3. QED BY <1>1, <1>2 DEF Last

LEMMA LastOfConcat ==
  ASSUME NEW S, NEW s \in Seq(S), NEW t \in Seq(S), t # <<>>
  PROVE  Last(s \o t) = Last(t)
<1>1. PICK c \in Seq(S) : c = s \o t
  BY ConcatProperties
<1>2. /\ Len(s) \in Nat /\ Len(t) \in Nat /\ Len(t) # 0
      /\ Len(c) = Len(s) + Len(t)
      /\ \A i \in 1..(Len(s) + Len(t)) :
           c[i] = IF i <= Len(s) THEN s[i] ELSE t[i - Len(s)]
  BY <1>1, ConcatProperties, LenProperties, EmptySeq
<1>3. c[Len(c)] = t[Len(t)]
  <2>1. Len(c) \in 1..(Len(s) + Len(t)) /\ ~(Len(c) <= Len(s))
        /\ Len(c) - Len(s) = Len(t)
    BY <1>2
  <2>2. QED BY <1>2, <2>1
<1>4. QED BY <1>1, <1>3 DEF Last

LEMMA FrontIs ==
  ASSUME NEW S, NEW f \in Seq(S), NEW x \in S PROVE Front(Append(f, x)) = f
<1>1. PICK g \in Seq(S) : g = Append(f, x)
  BY AppendProperties
<1>2. /\ Len(f) \in Nat /\ Len(g) = Len(f) + 1
      /\ \A i \in 1..Len(f) : g[i] = f[i]
  BY <1>1, AppendProperties, LenProperties
<1>3. PICK n \in Nat : n = Len(f) /\ Len(g) - 1 = n
  BY <1>2
<1>4. PICK h \in Seq(S) : /\ h = Front(g) /\ Len(h) = Len(f)
                          /\ \A i \in 1..Len(f) : h[i] = g[i]
  <2>1. Front(g) = SubSeq(g, 1, n)
    BY <1>3 DEF Front
  <2>2. \A i \in 1..n : g[i] \in S
    BY <1>2, <1>3, ElementOfSeq
  <2>3. /\ SubSeq(g, 1, n) \in Seq(S)
        /\ Len(SubSeq(g, 1, n)) = IF 1 <= n THEN n - 1 + 1 ELSE 0
        /\ \A i \in 1..(n - 1 + 1) : SubSeq(g, 1, n)[i] = g[1 + i - 1]
    BY <2>2, SubSeqProperties
  <2>4. (IF 1 <= n THEN n - 1 + 1 ELSE 0) = n /\ n - 1 + 1 = n
        /\ \A i \in 1..n : 1 + i - 1 = i
    OBVIOUS
  <2>5. QED BY <1>3, <2>1, <2>3, <2>4
<1>5. h = f
  <2>1. Len(h) = Len(f) /\ \A i \in 1..Len(h) : h[i] = f[i]
    BY <1>2, <1>4
  <2>2. QED BY <2>1, SeqEqual
<1>6. QED BY <1>1, <1>4, <1>5

(* The head of one sequence moved to the end of the one before it.        *)
LEMMA HeadMoves ==
  ASSUME NEW S, NEW g \in Seq(S), NEW t \in Seq(S), t # <<>>
  PROVE  Append(g, Head(t)) \o Tail(t) = g \o t
<1>1. PICK h \in S, u \in Seq(S) : h = Head(t) /\ u = Tail(t) /\ t = <<h>> \o u
  <2>1. Head(t) \in S /\ Tail(t) \in Seq(S)
    BY HeadTailProperties
  <2>2. t = <<Head(t)>> \o Tail(t)
    BY HeadTailProperties
  <2>3. QED BY <2>1, <2>2
<1>2. PICK o \in Seq(S) : o = <<h>>
  <2>1. <<h>> \in Seq(S)
    OBVIOUS
  <2>2. QED BY <2>1, Zenon
<1>3. Append(g, h) = g \o o
  BY <1>2, AppendIsConcat
<1>4. (g \o o) \o u = g \o (o \o u)
  BY ConcatAssociative
<1>5. QED BY <1>1, <1>2, <1>3, <1>4
=============================================================================
