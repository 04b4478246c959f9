--------------------------- MODULE CardDataProofs ---------------------------
(***************************************************************************)
(* What the card sends, for every value of the constants.  Its bytes: what *)
(* the readers of ResponseParsing accept is the one encoding of what they  *)
(* return.  Its CVM list: the walk is typed (so the index never leaves the *)
(* list by more than one), it keeps the card's priorities, and TVR byte 3  *)
(* shows its failures.                                                     *)
(***************************************************************************)
EXTENDS ResponseParsing, CardholderVerification, FiniteSetTheorems, SequenceTheorems, TLAPS

-----------------------------------------------------------------------------
(* Numbers and sequences.                                                  *)

(* A set of numbers that is not empty has a least one.                     *)
LEMMA LeastNumber ==
  ASSUME NEW S, S \subseteq Nat, S # {}
  PROVE  \E n \in S : \A m \in S : n <= m
<1>1. PICK n \in S : \A m \in S : <<m, n>> \notin OpToRel(<, Nat)
  BY NatLessThanWellFounded, WFMin
<1>2. \A m \in S : ~ (m < n)
  BY <1>1 DEF OpToRel
<1>3. QED
  BY <1>2

(* The step FlattenSeq takes.                                              *)
Flattens(f, s, n) ==
  f = [i \in 1..n |-> IF i = 1 THEN s[i] ELSE f[i - 1] \o s[i]]

(* FlattenSeq is defined by a recursion over the positions of s: there is  *)
(* such a function as far as any n, or there would be a first n for which  *)
(* there is none.                                                          *)
LEMMA FlattensExists ==
  ASSUME NEW s, NEW n \in Nat
  PROVE  \E f : Flattens(f, s, n)
<1> DEFINE without == {m \in Nat : ~ \E f : Flattens(f, s, m)}
<1>1. SUFFICES ASSUME without # {} PROVE FALSE
  OBVIOUS
<1>2. PICK m \in without : \A k \in without : m <= k
  BY <1>1, LeastNumber
<1>3. CASE m = 0
  <2> DEFINE f == [i \in 1..0 |-> s[i]]
  <2>1. f = [i \in 1..0 |-> IF i = 1 THEN s[i] ELSE f[i - 1] \o s[i]]
    <3>1. 1..0 = {}
      OBVIOUS
    <3>2. QED
      BY <3>1
  <2>2. Flattens(f, s, 0)
    BY <2>1 DEF Flattens
  <2>3. QED
    BY <1>2, <1>3, <2>2
<1>4. CASE m # 0
  <2>1. m - 1 \in Nat /\ m - 1 \notin without
    BY <1>2, <1>4
  <2>2. PICK g : Flattens(g, s, m - 1)
    BY <2>1
  <2> DEFINE f == [i \in 1..m |-> IF i = m THEN IF m = 1 THEN s[i] ELSE g[m - 1] \o s[i] ELSE g[i]]
  <2>3. ASSUME NEW i \in 1..m
        PROVE  f[i] = IF i = 1 THEN s[i] ELSE f[i - 1] \o s[i]
    <3>1. CASE i = m /\ m = 1
      BY <3>1
    <3>2. CASE i = m /\ m # 1
      <4>1. m - 1 \in 1..m /\ m - 1 # m
        BY <1>4, <3>2
      <4>2. f[m - 1] = g[m - 1]
        BY <4>1
      <4>3. QED
        BY <3>2, <4>2
    <3>3. CASE i # m
      <4>1. i \in 1..(m - 1) /\ f[i] = g[i]
        BY <3>3
      <4>2. g[i] = IF i = 1 THEN s[i] ELSE g[i - 1] \o s[i]
        BY <2>2, <4>1 DEF Flattens
      <4>3. i # 1 => f[i - 1] = g[i - 1]
        <5>1. i # 1 => i - 1 \in 1..m /\ i - 1 # m
          BY <4>1
        <5>2. QED
          BY <5>1
      <4>4. QED
        BY <4>1, <4>2, <4>3
    <3>4. QED
      BY <3>1, <3>2, <3>3
  <2>4. f = [i \in 1..m |-> IF i = 1 THEN s[i] ELSE f[i - 1] \o s[i]]
    <3>1. f = [i \in 1..m |-> f[i]]
      OBVIOUS
    <3> HIDE DEF f
    <3>2. QED
      BY <2>3, <3>1
  <2>5. Flattens(f, s, m)
    BY <2>4 DEF Flattens
  <2>6. QED
    BY <1>2, <2>5
<1>5. QED
  BY <1>3, <1>4

(* Two such functions agree as far as their sequences do.                  *)
LEMMA FlattensAgree ==
  ASSUME NEW f, NEW s, NEW m \in Nat, Flattens(f, s, m),
         NEW g, NEW t, NEW n \in Nat, Flattens(g, t, n),
         NEW k \in 1..m, k <= n, \A i \in 1..k : s[i] = t[i]
  PROVE  f[k] = g[k]
<1> DEFINE wrong == {i \in 1..k : f[i] # g[i]}
<1>1. SUFFICES ASSUME wrong # {} PROVE FALSE
  <2>1. k \in 1..k
    OBVIOUS
  <2>2. QED
    BY <2>1
<1>2. PICK i \in wrong : \A j \in wrong : i <= j
  <2>1. wrong \subseteq Nat
    OBVIOUS
  <2> HIDE DEF wrong
  <2>2. QED
    BY <1>1, <2>1, LeastNumber
<1>3. i \in 1..m /\ i \in 1..n /\ i \in 1..k /\ s[i] = t[i] /\ f[i] # g[i]
  BY <1>2
<1>4. /\ f[i] = IF i = 1 THEN s[i] ELSE f[i - 1] \o s[i]
      /\ g[i] = IF i = 1 THEN t[i] ELSE g[i - 1] \o t[i]
  BY <1>3 DEF Flattens
<1>5. i # 1 => f[i - 1] = g[i - 1]
  <2>1. SUFFICES ASSUME i # 1 PROVE i - 1 \notin wrong /\ i - 1 \in 1..k
    OBVIOUS
  <2>2. i - 1 \in 1..k /\ ~ (i <= i - 1)
    BY <1>3, <2>1
  <2> HIDE DEF wrong
  <2>3. QED
    BY <1>2, <2>2
<1>6. QED
  BY <1>3, <1>4, <1>5

(* A sequence that is not empty is flattened up to its last element, and   *)
(* then the last one is added.                                             *)
LEMMA FlattenLast ==
  ASSUME NEW T, NEW s \in Seq(Seq(T)), s # <<>>
  PROVE  FlattenSeq(s) = IF Len(s) = 1 THEN s[1]
                         ELSE FlattenSeq(SubSeq(s, 1, Len(s) - 1)) \o s[Len(s)]
<1> DEFINE n == Len(s)
           t == SubSeq(s, 1, n - 1)
           fs == CHOOSE f : f = [i \in 1..Len(s) |-> IF i = 1 THEN s[i] ELSE f[i - 1] \o s[i]]
           ft == CHOOSE f : f = [i \in 1..Len(t) |-> IF i = 1 THEN t[i] ELSE f[i - 1] \o t[i]]
<1>1. n \in Nat /\ n # 0 /\ DOMAIN s = 1..n
  BY EmptySeq, LenProperties
<1>2. \A i \in 1..(n - 1) : s[i] \in Seq(T)
  BY <1>1, ElementOfSeq
<1>3. /\ t \in Seq(Seq(T)) /\ Len(t) = n - 1
      /\ \A i \in 1..(n - 1) : t[i] = s[i]
  <2>1. /\ t \in Seq(Seq(T)) /\ Len(t) = IF 1 <= n - 1 THEN n - 1 - 1 + 1 ELSE 0
        /\ \A i \in 1..(n - 1 - 1 + 1) : t[i] = s[1 + i - 1]
    <3>1. 1 \in Int /\ n - 1 \in Int
      BY <1>1
    <3> HIDE DEF n
    <3>2. QED
      BY <1>2, <3>1, SubSeqProperties
  <2> HIDE DEF t, n
  <2>2. QED
    BY <1>1, <2>1
<1>4. FlattenSeq(s) = fs[n] /\ Flattens(fs, s, n)
  <2>1. FlattenSeq(s) = fs[n]
    BY <1>1 DEF FlattenSeq
  <2>2. \E f : Flattens(f, s, n)
    BY <1>1, FlattensExists
  <2>3. Flattens(fs, s, n)
    BY <2>2 DEF Flattens
  <2>4. QED
    BY <2>1, <2>3
<1>5. CASE n = 1
  <2>1. fs[1] = s[1]
    BY <1>4, <1>5 DEF Flattens
  <2>2. QED
    BY <1>4, <1>5, <2>1
<1>6. CASE n # 1
  <2>1. Len(t) # 0 /\ Len(t) \in Nat
    <3> HIDE DEF t
    <3>1. QED
      BY <1>1, <1>3, <1>6
  <2>2. FlattenSeq(t) = ft[Len(t)]
    BY <2>1 DEF FlattenSeq
  <2>3. \E f : Flattens(f, t, Len(t))
    BY <2>1, FlattensExists
  <2>4. Flattens(ft, t, Len(t))
    BY <2>3 DEF Flattens
  <2> HIDE DEF fs, ft, t, n
  <2>5. Len(t) \in 1..n /\ Len(t) = n - 1 /\ Len(t) \in 1..Len(t)
    BY <1>1, <1>3, <1>6
  <2>6. \A i \in 1..Len(t) : t[i] = s[i]
    BY <1>3, <2>5
  <2>7. ft[Len(t)] = fs[Len(t)]
    BY <1>1, <1>4, <2>1, <2>4, <2>5, <2>6, FlattensAgree
  <2>8. n \in 1..n /\ n # 1
    BY <1>1, <1>6
  <2>9. fs[n] = fs[n - 1] \o s[n]
    BY <1>4, <2>8 DEF Flattens
  <2>10. FlattenSeq(s) = FlattenSeq(t) \o s[n]
    BY <1>4, <2>2, <2>5, <2>7, <2>9
  <2>11. QED
    BY <1>6, <2>10 DEF t, n
<1>7. QED
  BY <1>5, <1>6

(* Of nothing nothing is flattened.                                        *)
LEMMA FlattenEmpty == FlattenSeq(<<>>) = <<>>
<1>1. Len(<<>>) = 0
  BY EmptySeq
<1>2. QED
  BY <1>1 DEF FlattenSeq

(* What is appended comes last.                                            *)
LEMMA FlattenAppend ==
  ASSUME NEW T, NEW s \in Seq(Seq(T)), NEW x \in Seq(T)
  PROVE  FlattenSeq(Append(s, x)) = IF s = <<>> THEN x ELSE FlattenSeq(s) \o x
<1> DEFINE t == Append(s, x)
<1>1. /\ t \in Seq(Seq(T)) /\ t # <<>> /\ Len(t) = Len(s) + 1 /\ t[Len(s) + 1] = x
      /\ Len(s) \in Nat /\ \A i \in 1..Len(s) : t[i] = s[i]
  BY AppendProperties, LenProperties
<1>2. SubSeq(t, 1, Len(t) - 1) = s
  <2> DEFINE u == SubSeq(t, 1, Len(s))
  <2>1. \A i \in 1..Len(s) : t[i] \in Seq(T)
    BY <1>1, ElementOfSeq
  <2>2. 1 \in Int /\ Len(s) \in Int
    BY <1>1
  <2> HIDE DEF t
  <2>3. /\ u \in Seq(Seq(T)) /\ Len(u) = IF 1 <= Len(s) THEN Len(s) - 1 + 1 ELSE 0
        /\ \A i \in 1..(Len(s) - 1 + 1) : u[i] = t[1 + i - 1]
    BY <2>1, <2>2, SubSeqProperties
  <2> HIDE DEF u
  <2>4. Len(u) = Len(s) /\ \A i \in 1..Len(u) : u[i] = s[i]
    <3>1. Len(u) = Len(s) /\ Len(s) - 1 + 1 = Len(s)
      BY <1>1, <2>3
    <3>2. ASSUME NEW i \in 1..Len(s) PROVE u[i] = s[i]
      <4>1. 1 + i - 1 = i /\ i \in 1..(Len(s) - 1 + 1)
        BY <1>1
      <4>2. QED
        BY <1>1, <2>3, <4>1
    <3>3. QED
      BY <3>1, <3>2
  <2>5. u = s
    BY <2>3, <2>4, SeqEqual
  <2>6. Len(t) - 1 = Len(s)
    BY <1>1
  <2>7. QED
    BY <2>5, <2>6 DEF u
<1>3. s = <<>> <=> Len(t) = 1
  <2>1. s = <<>> <=> Len(s) = 0
    BY EmptySeq
  <2> HIDE DEF t
  <2>2. QED
    BY <1>1, <2>1
<1> HIDE DEF t
<1>4. FlattenSeq(t) = IF Len(t) = 1 THEN t[1]
                      ELSE FlattenSeq(SubSeq(t, 1, Len(t) - 1)) \o t[Len(t)]
  BY <1>1, FlattenLast
<1>5. CASE s = <<>>
  BY <1>1, <1>3, <1>4, <1>5, EmptySeq DEF t
<1>6. CASE s # <<>>
  BY <1>1, <1>2, <1>3, <1>4, <1>6 DEF t
<1>7. QED
  BY <1>5, <1>6

(* Flattening gives a sequence of what is in the sequences.                *)
LEMMA FlattenTyped ==
  ASSUME NEW T, NEW s \in Seq(Seq(T))
  PROVE  FlattenSeq(s) \in Seq(T)
<1> DEFINE wrong == {n \in Nat : \E t \in Seq(Seq(T)) : Len(t) = n /\ FlattenSeq(t) \notin Seq(T)}
<1>1. SUFFICES ASSUME wrong # {} PROVE FALSE
  <2>1. Len(s) \in Nat
    BY LenProperties
  <2>2. QED
    BY <2>1
<1>2. PICK n \in wrong : \A m \in wrong : n <= m
  <2>1. wrong \subseteq Nat
    OBVIOUS
  <2> HIDE DEF wrong
  <2>2. QED
    BY <1>1, <2>1, LeastNumber
<1>3. PICK t \in Seq(Seq(T)) : Len(t) = n /\ FlattenSeq(t) \notin Seq(T)
  OBVIOUS
<1>4. t # <<>>
  BY <1>3, FlattenEmpty, EmptySeq
<1>5. PICK u \in Seq(Seq(T)), x \in Seq(T) : t = Append(u, x)
  BY <1>4, SequenceEmptyOrAppend
<1>6. Len(u) \in Nat /\ Len(u) = n - 1 /\ n \in Nat
  BY <1>3, <1>5, AppendProperties, LenProperties
<1>7. FlattenSeq(u) \in Seq(T)
  <2>1. Len(u) \notin wrong
    <3>1. ~ (n <= Len(u))
      BY <1>6
    <3> HIDE DEF wrong
    <3>2. QED
      BY <1>2, <3>1
  <2>2. QED
    BY <1>6, <2>1
<1>8. FlattenSeq(t) \in Seq(T)
  <2>1. FlattenSeq(u) \o x \in Seq(T)
    BY <1>7, ConcatProperties
  <2>2. QED
    BY <1>5, <2>1, FlattenAppend
<1>9. QED
  BY <1>3, <1>8

(* What is appended comes last, whatever was before.                       *)
LEMMA FlattenSnoc ==
  ASSUME NEW T, NEW s \in Seq(Seq(T)), NEW x \in Seq(T)
  PROVE  FlattenSeq(Append(s, x)) = FlattenSeq(s) \o x
<1>1. CASE s = <<>>
  BY <1>1, FlattenAppend, FlattenEmpty, ConcatEmptySeq
<1>2. CASE s # <<>>
  BY <1>2, FlattenAppend
<1>3. QED
  BY <1>1, <1>2

(* A sequence by itself is flattened into itself.                          *)
LEMMA FlattenOne ==
  ASSUME NEW T, NEW x \in Seq(T)
  PROVE  <<x>> \in Seq(Seq(T)) /\ FlattenSeq(<<x>>) = x
<1>1. <<>> \in Seq(Seq(T)) /\ Append(<<>>, x) = <<x>>
  BY EmptySeq
<1>2. <<x>> \in Seq(Seq(T))
  BY <1>1, AppendProperties
<1>3. QED
  BY <1>1, <1>2, FlattenAppend

(* Concatenation is associative.                                           *)
LEMMA Regroup ==
  ASSUME NEW T, NEW a, NEW b, NEW c, a \in Seq(T), b \in Seq(T), c \in Seq(T)
  PROVE  (a \o b) \o c = a \o (b \o c)
  BY ConcatAssociative

(* Flattening goes through concatenation.                                  *)
LEMMA FlattenConcat ==
  ASSUME NEW T, NEW s \in Seq(Seq(T)), NEW t \in Seq(Seq(T))
  PROVE  FlattenSeq(s \o t) = FlattenSeq(s) \o FlattenSeq(t)
<1> DEFINE Wrong(v) == FlattenSeq(s \o v) # FlattenSeq(s) \o FlattenSeq(v)
           wrong == {n \in Nat : \E v \in Seq(Seq(T)) : Len(v) = n /\ Wrong(v)}
<1>1. SUFFICES ASSUME wrong # {} PROVE FALSE
  <2>1. Len(t) \in Nat
    BY LenProperties
  <2>2. QED
    BY <2>1
<1>2. PICK n \in Nat : n \in wrong /\ \A m \in wrong : n <= m
  <2>1. wrong \subseteq Nat
    OBVIOUS
  <2> HIDE DEF wrong
  <2>2. QED
    BY <1>1, <2>1, LeastNumber
<1>3. PICK v \in Seq(Seq(T)) : Len(v) = n /\ Wrong(v)
  BY <1>2
<1>4. FlattenSeq(s) \in Seq(T)
  BY FlattenTyped
<1>5. v # <<>>
  <2>1. SUFFICES ASSUME v = <<>> PROVE FALSE
    OBVIOUS
  <2>2. s \o v = s
    BY <2>1, ConcatEmptySeq
  <2>3. FlattenSeq(s) \o FlattenSeq(v) = FlattenSeq(s)
    BY <1>4, <2>1, FlattenEmpty, ConcatEmptySeq
  <2>4. QED
    BY <1>3, <2>2, <2>3
<1>6. PICK u \in Seq(Seq(T)), x \in Seq(T) : v = Append(u, x)
  BY <1>5, SequenceEmptyOrAppend
<1>7. Len(u) \in Nat /\ Len(u) = n - 1 /\ n \in Nat
  BY <1>3, <1>6, AppendProperties, LenProperties
<1>8. ~ Wrong(u)
  <2>1. Len(u) \notin wrong
    <3>1. ~ (n <= Len(u))
      BY <1>7
    <3> HIDE DEF wrong
    <3>2. QED
      BY <1>2, <3>1
  <2> HIDE DEF Wrong
  <2>2. QED
    BY <1>7, <2>1
<1>9. s \o v = Append(s \o u, x) /\ s \o u \in Seq(Seq(T))
  <2>1. <<x>> \in Seq(Seq(T)) /\ s \o u \in Seq(Seq(T))
    BY FlattenOne, ConcatProperties
  <2>2. v = u \o <<x>> /\ Append(s \o u, x) = (s \o u) \o <<x>>
    BY <1>6, <2>1, AppendIsConcat
  <2>3. s \o (u \o <<x>>) = (s \o u) \o <<x>>
    <3> HIDE DEF Wrong
    <3> HIDE DEF wrong
    <3>1. QED
      BY <2>1, ConcatAssociative
  <2>4. QED
    BY <2>1, <2>2, <2>3
<1>10. /\ FlattenSeq(s \o v) = FlattenSeq(s \o u) \o x
       /\ FlattenSeq(v) = FlattenSeq(u) \o x
       /\ FlattenSeq(u) \in Seq(T)
  BY <1>6, <1>9, FlattenSnoc, FlattenTyped
<1>11. (FlattenSeq(s) \o FlattenSeq(u)) \o x = FlattenSeq(s) \o (FlattenSeq(u) \o x)
  <2>1. PICK a : a = FlattenSeq(s)
    OBVIOUS
  <2>2. PICK c : c = FlattenSeq(u)
    OBVIOUS
  <2>3. a \in Seq(T) /\ c \in Seq(T) /\ x \in Seq(T)
    BY <1>4, <1>10, <2>1, <2>2
  <2> HIDE DEF Wrong
  <2> HIDE DEF wrong
  <2>4. (a \o c) \o x = a \o (c \o x)
    BY <2>3, ConcatAssociative
  <2>5. QED
    BY <2>1, <2>2, <2>4
<1>12. QED
  BY <1>3, <1>8, <1>10, <1>11

(* What is put before the others comes first.                              *)
LEMMA FlattenCons ==
  ASSUME NEW T, NEW x \in Seq(T), NEW s \in Seq(Seq(T))
  PROVE  FlattenSeq(<<x>> \o s) = x \o FlattenSeq(s)
<1>1. <<x>> \in Seq(Seq(T)) /\ FlattenSeq(<<x>>) = x
  BY FlattenOne
<1>2. FlattenSeq(<<x>> \o s) = FlattenSeq(<<x>>) \o FlattenSeq(s)
  BY <1>1, FlattenConcat
<1>3. QED
  BY <1>1, <1>2

(* A sequence that goes on from one sequence to another is their           *)
(* concatenation.                                                          *)
LEMMA IsConcat ==
  ASSUME NEW T, NEW p \in Seq(T), NEW q \in Seq(T),
         NEW r \in Seq(T), Len(r) = Len(p) + Len(q),
         \A i \in 1..Len(p) : r[i] = p[i],
         \A i \in 1..Len(q) : r[Len(p) + i] = q[i]
  PROVE  r = p \o q
<1>1. /\ p \o q \in Seq(T) /\ Len(p \o q) = Len(p) + Len(q)
      /\ Len(p) \in Nat /\ Len(q) \in Nat
      /\ \A i \in 1..(Len(p) + Len(q)) :
           (p \o q)[i] = IF i <= Len(p) THEN p[i] ELSE q[i - Len(p)]
  BY ConcatProperties, LenProperties
<1>2. ASSUME NEW i \in 1..Len(r) PROVE r[i] = (p \o q)[i]
  <2>1. CASE i <= Len(p)
    <3>1. i \in 1..Len(p) /\ i \in 1..(Len(p) + Len(q))
      BY <1>1, <2>1
    <3>2. QED
      BY <1>1, <2>1, <3>1
  <2>2. CASE ~ (i <= Len(p))
    <3>1. /\ i - Len(p) \in 1..Len(q) /\ Len(p) + (i - Len(p)) = i
          /\ i \in 1..(Len(p) + Len(q))
      BY <1>1, <2>2
    <3>2. r[i] = q[i - Len(p)]
      BY <3>1
    <3>3. QED
      BY <1>1, <2>2, <3>1, <3>2
  <2>3. QED
    BY <2>1, <2>2
<1>3. QED
  BY <1>1, <1>2, SeqEqual

-----------------------------------------------------------------------------
(* A sequence in two parts.                                                *)

(* Cut after any number of elements, it is its two parts again.            *)
LEMMA SplitAt ==
  ASSUME NEW T, NEW b \in Seq(T), NEW n \in 0..Len(b)
  PROVE  /\ SubSeq(b, 1, n) \in Seq(T) /\ Len(SubSeq(b, 1, n)) = n
         /\ \A i \in 1..n : SubSeq(b, 1, n)[i] = b[i]
         /\ After(b, n) \in Seq(T) /\ Len(After(b, n)) = Len(b) - n
         /\ \A i \in 1..(Len(b) - n) : After(b, n)[i] = b[n + i]
         /\ b = SubSeq(b, 1, n) \o After(b, n)
<1>1. Len(b) \in Nat /\ n \in Nat /\ n <= Len(b) /\ \A i \in 1..Len(b) : b[i] \in T
  BY LenProperties, ElementOfSeq
<1>2. /\ SubSeq(b, 1, n) \in Seq(T) /\ Len(SubSeq(b, 1, n)) = n
      /\ \A i \in 1..n : SubSeq(b, 1, n)[i] = b[i]
  <2>1. /\ SubSeq(b, 1, n) \in Seq(T) /\ Len(SubSeq(b, 1, n)) = IF 1 <= n THEN n - 1 + 1 ELSE 0
        /\ \A i \in 1..(n - 1 + 1) : SubSeq(b, 1, n)[i] = b[1 + i - 1]
    <3>1. 1 \in Int /\ n \in Int /\ \A i \in 1..n : b[i] \in T
      BY <1>1
    <3>2. QED
      BY <3>1, SubSeqProperties
  <2>2. n - 1 + 1 = n /\ \A i \in 1..n : 1 + i - 1 = i
    BY <1>1
  <2>3. QED
    BY <1>1, <2>1, <2>2
<1>3. /\ After(b, n) \in Seq(T) /\ Len(After(b, n)) = Len(b) - n
      /\ \A i \in 1..(Len(b) - n) : After(b, n)[i] = b[n + i]
  <2>1. /\ After(b, n) \in Seq(T)
        /\ Len(After(b, n)) = IF n + 1 <= Len(b) THEN Len(b) - (n + 1) + 1 ELSE 0
        /\ \A i \in 1..(Len(b) - (n + 1) + 1) : After(b, n)[i] = b[n + 1 + i - 1]
    <3>1. n + 1 \in Int /\ Len(b) \in Int /\ \A i \in (n + 1)..Len(b) : b[i] \in T
      BY <1>1
    <3>2. QED
      BY <3>1, SubSeqProperties DEF After
  <2>2. Len(b) - (n + 1) + 1 = Len(b) - n /\ \A i \in 1..(Len(b) - n) : n + 1 + i - 1 = n + i
    BY <1>1
  <2>3. Len(After(b, n)) = Len(b) - n
    <3>1. (IF n + 1 <= Len(b) THEN Len(b) - (n + 1) + 1 ELSE 0) = Len(b) - n
      BY <1>1
    <3>2. QED
      BY <2>1, <3>1
  <2>4. ASSUME NEW i \in 1..(Len(b) - n) PROVE After(b, n)[i] = b[n + i]
    <3>1. i \in 1..(Len(b) - (n + 1) + 1) /\ n + 1 + i - 1 = n + i
      BY <1>1
    <3>2. After(b, n)[i] = b[n + 1 + i - 1]
      BY <2>1, <3>1
    <3>3. QED
      BY <3>1, <3>2
  <2>5. QED
    BY <2>1, <2>3, <2>4
<1>4. b = SubSeq(b, 1, n) \o After(b, n)
  <2>1. PICK p : p = SubSeq(b, 1, n)
    OBVIOUS
  <2>2. PICK q : q = After(b, n)
    OBVIOUS
  <2>3. /\ p \in Seq(T) /\ q \in Seq(T) /\ Len(p) = n /\ Len(b) = Len(p) + Len(q)
        /\ \A i \in 1..Len(p) : b[i] = p[i]
        /\ \A i \in 1..Len(q) : b[Len(p) + i] = q[i]
    <3>1. p \in Seq(T) /\ Len(p) = n /\ \A i \in 1..Len(p) : b[i] = p[i]
      BY <1>2, <2>1
    <3>2. q \in Seq(T) /\ Len(q) = Len(b) - n /\ \A i \in 1..Len(q) : b[n + i] = q[i]
      BY <1>3, <2>2
    <3>3. Len(b) = n + (Len(b) - n)
      BY <1>1
    <3>4. QED
      BY <3>1, <3>2, <3>3
  <2>4. b = p \o q
    BY <2>3, IsConcat
  <2>5. QED
    BY <2>1, <2>2, <2>4
<1>5. QED
  BY <1>2, <1>3, <1>4

(* A concatenation cut after its first part is its parts.                  *)
LEMMA SplitConcat ==
  ASSUME NEW T, NEW a \in Seq(T), NEW c \in Seq(T)
  PROVE  SubSeq(a \o c, 1, Len(a)) = a /\ After(a \o c, Len(a)) = c
<1> DEFINE b == a \o c
<1>1. /\ b \in Seq(T) /\ Len(b) = Len(a) + Len(c) /\ Len(a) \in Nat /\ Len(c) \in Nat
      /\ \A i \in 1..(Len(a) + Len(c)) : b[i] = IF i <= Len(a) THEN a[i] ELSE c[i - Len(a)]
  BY ConcatProperties, LenProperties
<1> HIDE DEF b
<1>2. Len(a) \in 0..Len(b) /\ Len(b) - Len(a) = Len(c)
  BY <1>1
<1>3. /\ SubSeq(b, 1, Len(a)) \in Seq(T) /\ Len(SubSeq(b, 1, Len(a))) = Len(a)
      /\ \A i \in 1..Len(a) : SubSeq(b, 1, Len(a))[i] = b[i]
      /\ After(b, Len(a)) \in Seq(T) /\ Len(After(b, Len(a))) = Len(c)
      /\ \A i \in 1..Len(c) : After(b, Len(a))[i] = b[Len(a) + i]
  <2>1. PICK n : n = Len(a)
    OBVIOUS
  <2>2. n \in 0..Len(b) /\ b \in Seq(T)
    BY <1>1, <1>2, <2>1
  <2>3. /\ SubSeq(b, 1, n) \in Seq(T) /\ Len(SubSeq(b, 1, n)) = n
        /\ \A i \in 1..n : SubSeq(b, 1, n)[i] = b[i]
        /\ After(b, n) \in Seq(T) /\ Len(After(b, n)) = Len(b) - n
        /\ \A i \in 1..(Len(b) - n) : After(b, n)[i] = b[n + i]
    BY <2>2, SplitAt
  <2>4. QED
    BY <1>2, <2>1, <2>3
<1>4. \A i \in 1..Len(a) : b[i] = a[i]
  BY <1>1
<1>5. \A i \in 1..Len(c) : b[Len(a) + i] = c[i]
  <2>1. TAKE i \in 1..Len(c)
  <2>2. /\ Len(a) + i \in 1..(Len(a) + Len(c)) /\ ~ (Len(a) + i <= Len(a))
        /\ Len(a) + i - Len(a) = i
    BY <1>1
  <2>3. QED
    BY <1>1, <2>2
<1>6. SubSeq(b, 1, Len(a)) = a
  BY <1>3, <1>4, SeqEqual
<1>7. After(b, Len(a)) = c
  BY <1>3, <1>5, SeqEqual
<1>8. QED
  BY <1>6, <1>7 DEF b

-----------------------------------------------------------------------------
(* Tags.                                                                   *)

(* A byte is a number below 256.                                           *)
LEMMA ByteNat ==
  ASSUME NEW x
  PROVE  x \in Byte <=> x \in Nat /\ x <= 255
  BY DEF Byte

(* The high bit of a byte is set or not.                                   *)
LEMMA HighBit ==
  ASSUME NEW x \in Byte
  PROVE  x < 128 <=> ~ (x >= 128)
<1>1. x \in Nat
  BY ByteNat
<1>2. QED
  BY <1>1

(* The readers of tags and the guard of the store agree on what a tag is.  *)
LEMMA TagRead ==
  ASSUME NEW b \in Seq(Byte), NEW n
  PROVE  n \in TagLengths(b) <=> n \in 1..Len(b) /\ ValidDataTag(SubSeq(b, 1, n))
<1>1. Len(b) \in Nat /\ \A i \in 1..Len(b) : b[i] \in Byte
  BY LenProperties, ElementOfSeq
<1>2. CASE b = <<>>
  <2>1. Len(b) = 0
    BY <1>2, EmptySeq
  <2>2. QED
    BY <1>2, <2>1 DEF TagLengths
<1>3. CASE b # <<>>
  <2>1. Len(b) >= 1 /\ b[1] \in Byte
    BY <1>1, <1>3, EmptySeq
  <2>2. ASSUME n \in 1..Len(b)
        PROVE  n \in TagLengths(b) <=> ValidDataTag(SubSeq(b, 1, n))
    <3>1. PICK t : t = SubSeq(b, 1, n)
      OBVIOUS
    <3>2. Len(t) = n /\ \A i \in 1..n : t[i] = b[i]
      <4>1. n \in 0..Len(b)
        BY <1>1, <2>2
      <4>2. QED
        BY <3>1, <4>1, SplitAt
    <3>3. t[1] = b[1]
      BY <2>2, <3>2
    <3>4. CASE b[1] \in Reserved
      BY <1>3, <3>1, <3>3, <3>4 DEF TagLengths, ValidDataTag
    <3>5. CASE b[1] \notin Reserved /\ ~Continued(b[1])
      <4>1. TagLengths(b) = {1}
        BY <1>3, <3>5 DEF TagLengths
      <4>2. ValidDataTag(t) <=> Len(t) \in 1..4 /\ Len(t) = 1
        BY <3>3, <3>5 DEF ValidDataTag
      <4>3. QED
        BY <2>2, <3>1, <3>2, <4>1, <4>2
    <3>6. CASE b[1] \notin Reserved /\ Continued(b[1])
      <4>1. n \in TagLengths(b) <=>
              n \in 2..4 /\ n <= Len(b) /\ b[2] % 128 # 0 /\ b[n] < 128
              /\ \A j \in 2..(n - 1) : b[j] >= 128
        BY <1>3, <3>6 DEF TagLengths
      <4>2. ValidDataTag(t) <=>
              n \in 1..4 /\ n > 1 /\ t[2] % 128 # 0
              /\ \A i \in 2..n : t[i] >= 128 <=> i < n
        BY <3>2, <3>3, <3>6 DEF ValidDataTag
      <4>3. CASE n = 1
        BY <3>1, <4>1, <4>2, <4>3
      <4>4. CASE n > 1
        <5>1. 2 \in 1..n /\ t[2] = b[2] /\ \A i \in 2..n : t[i] = b[i] /\ b[i] \in Byte
          BY <1>1, <2>2, <3>2, <4>4
        <5>2. (\A i \in 2..n : t[i] >= 128 <=> i < n)
              <=> b[n] < 128 /\ \A j \in 2..(n - 1) : b[j] >= 128
          <6>1. ASSUME \A i \in 2..n : t[i] >= 128 <=> i < n
                PROVE  b[n] < 128 /\ \A j \in 2..(n - 1) : b[j] >= 128
            <7>1. n \in 2..n /\ ~ (n < n) /\ b[n] \in Byte /\ t[n] = b[n]
              BY <2>2, <4>4, <5>1
            <7>2. b[n] < 128
              <8>1. t[n] >= 128 <=> n < n
                BY <6>1, <7>1
              <8>2. ~ (t[n] >= 128)
                BY <7>1, <8>1
              <8>3. QED
                BY <7>1, <8>2, HighBit
            <7>3. ASSUME NEW j \in 2..(n - 1) PROVE b[j] >= 128
              <8>1. j \in 2..n /\ j < n
                BY <2>2
              <8>2. QED
                BY <5>1, <6>1, <8>1
            <7>4. QED
              BY <7>2, <7>3
          <6>2. ASSUME b[n] < 128, \A j \in 2..(n - 1) : b[j] >= 128, NEW i \in 2..n
                PROVE  t[i] >= 128 <=> i < n
            <7>1. t[i] = b[i] /\ b[i] \in Byte
              BY <5>1
            <7>2. CASE i = n
              <8>1. t[i] \in Byte /\ t[i] < 128
                BY <6>2, <7>1, <7>2
              <8>2. ~ (t[i] >= 128) /\ ~ (i < n)
                BY <2>2, <7>2, <8>1, HighBit
              <8>3. QED
                BY <8>2
            <7>3. CASE i # n
              <8>1. i \in 2..(n - 1) /\ i < n
                BY <2>2, <7>3
              <8>2. QED
                BY <6>2, <7>1, <8>1
            <7>4. QED
              BY <7>2, <7>3
          <6>3. QED
            BY <6>1, <6>2
        <5>3. n \in 1..4 /\ n > 1 <=> n \in 2..4 /\ n <= Len(b)
          BY <2>2, <4>4
        <5>4. QED
          BY <3>1, <4>1, <4>2, <5>1, <5>2, <5>3
      <4>5. QED
        BY <2>2, <4>3, <4>4
    <3>7. QED
      BY <3>4, <3>5, <3>6
  <2>3. ASSUME n \in TagLengths(b) PROVE n \in 1..Len(b)
    BY <1>1, <1>3, <2>1, <2>3 DEF TagLengths
  <2>4. QED
    BY <2>2, <2>3
<1>4. QED
  BY <1>2, <1>3

(* Bytes begin with one tag at most.                                       *)
LEMMA TagUnique ==
  ASSUME NEW b \in Seq(Byte), NEW m \in TagLengths(b), NEW n \in TagLengths(b)
  PROVE  m = n
<1>1. Len(b) \in Nat /\ \A i \in 1..Len(b) : b[i] \in Byte
  BY LenProperties, ElementOfSeq
<1>2. b # <<>> /\ b[1] \notin Reserved
  BY DEF TagLengths
<1>3. CASE ~Continued(b[1])
  BY <1>2, <1>3 DEF TagLengths
<1>4. CASE Continued(b[1])
  <2>1. ASSUME NEW k \in TagLengths(b)
        PROVE  /\ k \in 2..4 /\ k <= Len(b) /\ b[k] < 128
               /\ \A j \in 2..(k - 1) : b[j] >= 128
    BY <1>2, <1>4 DEF TagLengths
  <2>2. ~ (m < n)
    <3>1. SUFFICES ASSUME m < n PROVE FALSE
      OBVIOUS
    <3>2. m \in 2..(n - 1) /\ b[m] < 128 /\ m \in 1..Len(b)
      BY <1>1, <2>1, <3>1
    <3>3. b[m] >= 128
      BY <2>1, <3>2
    <3>4. b[m] \in Byte
      BY <1>1, <3>2
    <3>5. QED
      BY <3>2, <3>3, <3>4, HighBit
  <2>3. ~ (n < m)
    <3>1. SUFFICES ASSUME n < m PROVE FALSE
      OBVIOUS
    <3>2. n \in 2..(m - 1) /\ b[n] < 128 /\ n \in 1..Len(b)
      BY <1>1, <2>1, <3>1
    <3>3. b[n] >= 128
      BY <2>1, <3>2
    <3>4. b[n] \in Byte
      BY <1>1, <3>2
    <3>5. QED
      BY <3>2, <3>3, <3>4, HighBit
  <2>4. m \in 2..4 /\ n \in 2..4
    BY <2>1
  <2>5. QED
    BY <2>2, <2>3, <2>4
<1>5. QED
  BY <1>3, <1>4

(* A tag is read whatever follows it.                                      *)
LEMMA TagBefore ==
  ASSUME NEW tag \in Seq(Byte), ValidDataTag(tag), NEW r \in Seq(Byte)
  PROVE  /\ tag \o r \in Seq(Byte) /\ Len(tag) \in 1..4
         /\ TagLengths(tag \o r) = {Len(tag)}
         /\ SubSeq(tag \o r, 1, Len(tag)) = tag /\ After(tag \o r, Len(tag)) = r
<1>1. PICK b : b = tag \o r
  OBVIOUS
<1>2. b \in Seq(Byte) /\ Len(b) = Len(tag) + Len(r) /\ Len(r) \in Nat /\ Len(tag) \in 1..4
  BY <1>1, ConcatProperties, LenProperties DEF ValidDataTag
<1>3. SubSeq(b, 1, Len(tag)) = tag /\ After(b, Len(tag)) = r
  BY <1>1, SplitConcat
<1>4. Len(tag) \in 1..Len(b)
  <2>1. PICK n : n = Len(tag)
    OBVIOUS
  <2>2. n \in 1..4 /\ Len(b) = n + Len(r) /\ Len(r) \in Nat
    BY <1>2, <2>1
  <2>3. QED
    BY <2>1, <2>2
<1>5. Len(tag) \in TagLengths(b)
  BY <1>2, <1>3, <1>4, TagRead
<1>6. TagLengths(b) = {Len(tag)}
  BY <1>2, <1>5, TagUnique
<1>7. QED
  BY <1>1, <1>2, <1>3, <1>6

-----------------------------------------------------------------------------
(* Lengths.                                                                *)

(* Sequences of one, of two and of three elements.                         *)
LEMMA Short1 ==
  ASSUME NEW T, NEW x \in T
  PROVE  <<x>> \in Seq(T) /\ Len(<<x>>) = 1 /\ <<x>>[1] = x
<1>1. <<>> \in Seq(T) /\ Len(<<>>) = 0 /\ Append(<<>>, x) = <<x>>
  BY EmptySeq
<1>2. QED
  BY <1>1, AppendProperties

(* Of two.                                                                 *)
LEMMA Short2 ==
  ASSUME NEW T, NEW x \in T, NEW y \in T
  PROVE  <<x, y>> \in Seq(T) /\ Len(<<x, y>>) = 2 /\ <<x, y>>[1] = x /\ <<x, y>>[2] = y
  OBVIOUS

(* Of three.                                                               *)
LEMMA Short3 ==
  ASSUME NEW T, NEW x \in T, NEW y \in T, NEW z \in T
  PROVE  /\ <<x, y, z>> \in Seq(T) /\ Len(<<x, y, z>>) = 3
         /\ <<x, y, z>>[1] = x /\ <<x, y, z>>[2] = y /\ <<x, y, z>>[3] = z
  OBVIOUS

(* The longest length there is a field for.                                *)
LongestLength == \hFFFF

LEMMA LongestTyped ==
  /\ LongestLength \in Nat /\ LongestLength >= 4096
  /\ \A q \in Nat : 256 * q <= LongestLength => q <= 255
  /\ \A n \in Nat : n > 65535 <=> ~ (n <= LongestLength)
  BY DEF LongestLength

(* The limit on values is one of two bytes.                                *)
LEMMA LimitTyped ==
  MaxValueLength \in Nat /\ MaxValueLength >= 260 /\ MaxValueLength <= LongestLength
  BY EncodingAssumption DEF LongestLength

(* The shortest form of a length.                                          *)
LEMMA FieldTyped ==
  ASSUME NEW n \in Nat, n <= LongestLength
  PROVE  /\ LengthField(n) \in Seq(Byte) /\ Len(LengthField(n)) \in Nat
         /\ Len(LengthField(n)) >= 1 /\ Len(LengthField(n)) <= 3
         /\ n < 128 => LengthField(n) = <<n>> /\ Len(LengthField(n)) = 1
         /\ n >= 128 /\ n <= 255 => LengthField(n) = <<129, n>> /\ Len(LengthField(n)) = 2
         /\ n > 255 => /\ LengthField(n) = <<130, n \div 256, n % 256>>
                       /\ Len(LengthField(n)) = 3
<1>1. CASE n < 128
  <2>1. n \in Byte /\ LengthField(n) = <<n>> /\ ~ (n > 255) /\ ~ (n >= 128)
    BY <1>1, ByteNat DEF LengthField
  <2>2. LengthField(n) \in Seq(Byte) /\ Len(LengthField(n)) = 1
    BY <2>1, Short1
  <2>3. QED
    BY <2>1, <2>2
<1>2. CASE n >= 128 /\ n <= 255
  <2>1. n \in Byte /\ 129 \in Byte /\ LengthField(n) = <<129, n>> /\ ~ (n > 255) /\ ~ (n < 128)
    BY <1>2, ByteNat DEF LengthField
  <2>2. LengthField(n) \in Seq(Byte) /\ Len(LengthField(n)) = 2
    BY <2>1, Short2
  <2>3. QED
    BY <2>1, <2>2
<1>3. CASE n > 255
  <2>1. n \div 256 \in Byte /\ n % 256 \in Byte /\ 130 \in Byte
    <3>1. n \div 256 \in Nat /\ n \div 256 <= 255 /\ n % 256 \in Nat /\ n % 256 <= 255
      <4>1. PICK q : q = n \div 256
        OBVIOUS
      <4>2. q \in Nat /\ 256 * q <= n
        BY <4>1
      <4>3. 256 * q <= LongestLength
        BY <4>2, LongestTyped
      <4>4. n % 256 \in Nat /\ n % 256 <= 255
        OBVIOUS
      <4>5. QED
        BY <4>1, <4>2, <4>3, <4>4, LongestTyped
    <3>2. QED
      BY <3>1, ByteNat
  <2>2. /\ LengthField(n) = <<130, n \div 256, n % 256>>
        /\ ~ (n < 128) /\ ~ (n <= 255)
    BY <1>3 DEF LengthField
  <2>3. LengthField(n) \in Seq(Byte) /\ Len(LengthField(n)) = 3
    BY <2>1, <2>2, Short3
  <2>4. QED
    BY <2>2, <2>3
<1>4. QED
  BY <1>1, <1>2, <1>3

(* The bytes of a length and what follows it.                              *)
LEMMA FieldBefore ==
  ASSUME NEW n \in Nat, n <= LongestLength, NEW r \in Seq(Byte)
  PROVE  /\ LengthField(n) \o r \in Seq(Byte)
         /\ Len(LengthField(n) \o r) = Len(LengthField(n)) + Len(r)
         /\ \A i \in 1..Len(LengthField(n)) : (LengthField(n) \o r)[i] = LengthField(n)[i]
<1>1. LengthField(n) \in Seq(Byte)
  BY FieldTyped
<1>2. PICK f : f = LengthField(n)
  OBVIOUS
<1>3. f \in Seq(Byte) /\ Len(f) \in Nat /\ Len(r) \in Nat
  BY <1>1, <1>2, LenProperties
<1>4. /\ f \o r \in Seq(Byte) /\ Len(f \o r) = Len(f) + Len(r)
      /\ \A i \in 1..(Len(f) + Len(r)) : (f \o r)[i] = IF i <= Len(f) THEN f[i] ELSE r[i - Len(f)]
  BY <1>3, ConcatProperties
<1>5. \A i \in 1..Len(f) : (f \o r)[i] = f[i]
  BY <1>3, <1>4
<1>6. QED
  BY <1>2, <1>4, <1>5

(* A length is read as it was encoded, unless it is over the limit.        *)
LEMMA LengthRead ==
  ASSUME NEW n \in Nat, n <= LongestLength, NEW r \in Seq(Byte)
  PROVE  Lengths(LengthField(n) \o r) =
           IF n <= MaxValueLength THEN {[length |-> n, size |-> Len(LengthField(n))]} ELSE {}
<1>1. PICK b : b = LengthField(n) \o r
  OBVIOUS
<1>2. PICK f : f = LengthField(n)
  OBVIOUS
<1>3. /\ b \in Seq(Byte) /\ Len(b) = Len(f) + Len(r) /\ Len(r) \in Nat
      /\ Len(f) \in Nat /\ Len(f) >= 1 /\ \A i \in 1..Len(f) : b[i] = f[i]
  BY <1>1, <1>2, FieldBefore, FieldTyped, LenProperties
<1>4. b # <<>>
  <2>1. Len(b) # 0
    BY <1>3
  <2>2. QED
    BY <2>1, EmptySeq
<1>6. CASE n < 128
  <2>1. f = <<n>> /\ Len(f) = 1
    BY <1>2, <1>6, FieldTyped
  <2>2. b[1] = n
    BY <1>3, <2>1
  <2>3. Lengths(b) = {[length |-> n, size |-> 1]}
    BY <1>4, <1>6, <2>2 DEF Lengths
  <2>4. n <= MaxValueLength
    BY <1>6, LimitTyped
  <2>5. QED
    BY <1>1, <1>2, <2>1, <2>3, <2>4
<1>7. CASE n >= 128 /\ n <= 255
  <2>1. f = <<129, n>> /\ Len(f) = 2
    BY <1>2, <1>7, FieldTyped
  <2>2. b[1] = 129 /\ b[2] = n /\ 1 < Len(b)
    BY <1>3, <2>1
  <2>3. Number(b, 1) = n /\ Minimal(n, 1) /\ n <= MaxValueLength
    BY <1>7, <2>2, LimitTyped DEF Number, Minimal
  <2>4. ~ (b[1] < 128) /\ b[1] - 128 = 1 /\ 1 \in 1..3 /\ 1 + 1 = 2
    BY <2>2
  <2>5. Lengths(b) = {[length |-> n, size |-> 2]}
    BY <1>4, <2>2, <2>3, <2>4 DEF Lengths
  <2>6. QED
    BY <1>1, <1>2, <2>1, <2>3, <2>5
<1>8. CASE n > 255
  <2>1. f = <<130, n \div 256, n % 256>> /\ Len(f) = 3
    BY <1>2, <1>8, FieldTyped
  <2>2. b[1] = 130 /\ b[2] = n \div 256 /\ b[3] = n % 256 /\ 2 < Len(b)
    BY <1>3, <2>1
  <2>3. Number(b, 2) = n
    <3>1. PICK q : q = n \div 256
      OBVIOUS
    <3>2. PICK m : m = n % 256
      OBVIOUS
    <3>3. 256 * q + m = n
      BY <3>1, <3>2
    <3>4. QED
      BY <2>2, <3>1, <3>2, <3>3 DEF Number
  <2>4. Minimal(n, 2)
    BY <1>8 DEF Minimal
  <2>5. ~ (b[1] < 128) /\ b[1] - 128 = 2 /\ 2 \in 1..3 /\ 2 + 1 = 3
    BY <2>2
  <2>6. Lengths(b) = IF n <= MaxValueLength THEN {[length |-> n, size |-> 3]} ELSE {}
    <3>1. Lengths(b) = IF /\ 2 \in 1..3 /\ 2 < Len(b)
                          /\ Minimal(Number(b, 2), 2) /\ Number(b, 2) <= MaxValueLength
                       THEN {[length |-> Number(b, 2), size |-> 2 + 1]} ELSE {}
      BY <1>4, <2>5 DEF Lengths
    <3>2. QED
      BY <2>2, <2>3, <2>4, <2>5, <3>1
  <2>7. QED
    BY <1>1, <1>2, <2>1, <2>6
<1>9. QED
  BY <1>6, <1>7, <1>8

(* What is read as a length is its shortest form.                          *)
FieldOf(l, b, n) ==
  /\ n <= MaxValueLength /\ l = [length |-> n, size |-> Len(LengthField(n))]
  /\ Len(LengthField(n)) <= Len(b)
  /\ \A i \in 1..Len(LengthField(n)) : b[i] = LengthField(n)[i]

LEMMA LengthIsField ==
  ASSUME NEW b \in Seq(Byte), NEW l \in Lengths(b)
  PROVE  \E n \in Nat : FieldOf(l, b, n)
<1>1. /\ b # <<>> /\ Len(b) \in Nat /\ Len(b) >= 1
      /\ \A i \in 1..Len(b) : b[i] \in Byte
  <2>1. b # <<>>
    BY DEF Lengths
  <2>2. QED
    BY <2>1, EmptySeq, LenProperties, ElementOfSeq
<1>2. b[1] \in Nat /\ b[1] <= 255
  BY <1>1, ByteNat
<1>3. CASE b[1] < 128
  <2>1. l = [length |-> b[1], size |-> 1]
    BY <1>1, <1>3 DEF Lengths
  <2>2. PICK n : n = b[1]
    OBVIOUS
  <2>3. n \in Nat /\ n <= LongestLength /\ n < 128 /\ n <= MaxValueLength
    BY <1>2, <1>3, <2>2, LimitTyped, LongestTyped
  <2>4. LengthField(n) = <<n>> /\ Len(LengthField(n)) = 1
    BY <2>3, FieldTyped
  <2>5. PICK f : f = LengthField(n)
    OBVIOUS
  <2>6. \A i \in 1..1 : b[i] = f[i]
    BY <2>2, <2>4, <2>5
  <2>7. FieldOf(l, b, n)
    BY <1>1, <2>1, <2>2, <2>3, <2>4, <2>5, <2>6 DEF FieldOf
  <2>8. QED
    BY <2>3, <2>7
<1>4. CASE ~ (b[1] < 128)
  <2>1. PICK o : o = b[1] - 128
    OBVIOUS
  <2>2. /\ o \in 1..3 /\ o < Len(b) /\ Minimal(Number(b, o), o)
        /\ Number(b, o) <= MaxValueLength
        /\ l = [length |-> Number(b, o), size |-> o + 1]
    BY <1>1, <1>4, <2>1 DEF Lengths
  <2>3. b[1] = 128 + o
    BY <1>2, <2>1
  <2>4. CASE o = 1
    <3>1. PICK n : n = b[2]
      OBVIOUS
    <3>2. n \in Nat /\ n <= 255 /\ b[1] = 129 /\ 2 <= Len(b)
      BY <1>1, <2>2, <2>3, <2>4, <3>1, ByteNat
    <3>3. Number(b, 1) = n /\ n >= 128 /\ n <= MaxValueLength
      BY <2>2, <2>4, <3>1 DEF Number, Minimal
    <3>4. n <= LongestLength
      BY <3>2, LongestTyped
    <3>5. LengthField(n) = <<129, n>> /\ Len(LengthField(n)) = 2
      BY <3>2, <3>3, <3>4, FieldTyped
    <3>6. \A i \in 1..2 : b[i] = <<129, n>>[i]
      BY <3>1, <3>2
    <3>7. l = [length |-> n, size |-> 2]
      BY <2>2, <2>4, <3>3
    <3>8. FieldOf(l, b, n)
      <4>1. PICK f : f = LengthField(n)
        OBVIOUS
      <4>2. Len(f) = 2 /\ \A i \in 1..2 : b[i] = f[i]
        BY <3>5, <3>6, <4>1
      <4>3. QED
        BY <3>2, <3>3, <3>7, <4>1, <4>2 DEF FieldOf
    <3>9. QED
      BY <3>2, <3>8
  <2>5. CASE o = 2
    <3>1. PICK x : x = b[2]
      OBVIOUS
    <3>2. PICK y : y = b[3]
      OBVIOUS
    <3>3. x \in Nat /\ x <= 255 /\ y \in Nat /\ y <= 255 /\ b[1] = 130 /\ 3 <= Len(b)
      BY <1>1, <2>2, <2>3, <2>5, <3>1, <3>2, ByteNat
    <3>4. PICK n : n = 256 * x + y
      OBVIOUS
    <3>5. Number(b, 2) = n /\ n > 255 /\ n <= MaxValueLength
      BY <2>2, <2>5, <3>1, <3>2, <3>4 DEF Number, Minimal
    <3>6. n \in Nat /\ n <= LongestLength /\ n \div 256 = x /\ n % 256 = y
      <4>1. n \in Nat /\ n \div 256 = x /\ n % 256 = y
        BY <3>3, <3>4
      <4>2. QED
        BY <3>5, <4>1, LimitTyped, LongestTyped
    <3>7. LengthField(n) = <<130, x, y>> /\ Len(LengthField(n)) = 3
      BY <3>5, <3>6, FieldTyped
    <3>8. \A i \in 1..3 : b[i] = <<130, x, y>>[i]
      BY <3>1, <3>2, <3>3
    <3>9. l = [length |-> n, size |-> 3]
      BY <2>2, <2>5, <3>5
    <3>10. FieldOf(l, b, n)
      <4>1. PICK f : f = LengthField(n)
        OBVIOUS
      <4>2. Len(f) = 3 /\ \A i \in 1..3 : b[i] = f[i]
        BY <3>7, <3>8, <4>1
      <4>3. QED
        BY <3>3, <3>5, <3>9, <4>1, <4>2 DEF FieldOf
    <3>11. QED
      BY <3>6, <3>10
  <2>6. CASE o = 3
    <3>1. PICK n : n = Number(b, o)
      OBVIOUS
    <3>2. b[2] \in Nat /\ b[3] \in Nat /\ b[4] \in Nat
      BY <1>1, <2>2, <2>6, ByteNat
    <3>3. n \in Nat
      BY <2>6, <3>1, <3>2 DEF Number
    <3>4. n > 65535 /\ n <= MaxValueLength
      BY <2>2, <2>6, <3>1 DEF Minimal
    <3>5. QED
      BY <3>3, <3>4, LimitTyped, LongestTyped
  <2>7. o = 1 \/ o = 2 \/ o = 3
    BY <2>2
  <2>8. QED
    BY <2>4, <2>5, <2>6, <2>7
<1>5. QED
  BY <1>3, <1>4

(* So the bytes that are read are that form, and the length is not over    *)
(* the limit.                                                              *)
LEMMA LengthSound ==
  ASSUME NEW b \in Seq(Byte), NEW l \in Lengths(b)
  PROVE  /\ l = [length |-> l.length, size |-> Len(LengthField(l.length))]
         /\ l.length \in Nat /\ l.length <= LongestLength /\ l.length <= MaxValueLength
         /\ l.size = Len(LengthField(l.length)) /\ l.size \in 1..Len(b)
         /\ SubSeq(b, 1, l.size) = LengthField(l.length)
<1>1. PICK n \in Nat :
        /\ n <= MaxValueLength /\ l = [length |-> n, size |-> Len(LengthField(n))]
        /\ Len(LengthField(n)) <= Len(b)
        /\ \A i \in 1..Len(LengthField(n)) : b[i] = LengthField(n)[i]
  BY LengthIsField DEF FieldOf
<1>2. n <= LongestLength /\ Len(b) \in Nat
  BY <1>1, LimitTyped, LongestTyped, LenProperties
<1>3. PICK f : f = LengthField(n)
  OBVIOUS
<1>4. PICK m : m = Len(f)
  OBVIOUS
<1>5. f \in Seq(Byte) /\ m \in Nat /\ m >= 1
  BY <1>1, <1>2, <1>3, <1>4, FieldTyped
<1>6. m \in 0..Len(b) /\ m \in 1..Len(b)
  BY <1>1, <1>2, <1>3, <1>4, <1>5
<1>7. SubSeq(b, 1, m) = f
  <2>1. /\ SubSeq(b, 1, m) \in Seq(Byte) /\ Len(SubSeq(b, 1, m)) = m
        /\ \A i \in 1..m : SubSeq(b, 1, m)[i] = b[i]
    BY <1>6, SplitAt
  <2>2. \A i \in 1..m : b[i] = f[i]
    BY <1>1, <1>3, <1>4
  <2>3. QED
    BY <1>4, <1>5, <2>1, <2>2, SeqEqual
<1>8. l.length = n /\ l.size = m
  BY <1>1, <1>3, <1>4
<1>9. QED
  BY <1>1, <1>2, <1>3, <1>4, <1>6, <1>7, <1>8

(* Bytes begin with one length at most.                                    *)
LEMMA LengthUnique ==
  ASSUME NEW b, NEW l \in Lengths(b), NEW m \in Lengths(b)
  PROVE  l = m
  BY DEF Lengths

-----------------------------------------------------------------------------
(* Sequences put together and cut, whatever their elements.                *)

(* A sequence as a whole, what is put together, and where it is cut: names *)
(* that keep the provers from looking at the elements.                     *)
Over(s, T)  == s \in Seq(T)
Cat(x, y)   == x \o y
Upto(b, n)  == SubSeq(b, 1, n)

(* Two sequences make one.                                                 *)
LEMMA Joined ==
  ASSUME NEW T, NEW x, NEW y, Over(x, T), Over(y, T)
  PROVE  /\ Over(Cat(x, y), T) /\ Len(Cat(x, y)) = Len(x) + Len(y)
         /\ Len(x) \in Nat /\ Len(y) \in Nat
  BY ConcatProperties, LenProperties DEF Over, Cat

(* In whatever order they are put together.                                *)
LEMMA Rejoined ==
  ASSUME NEW T, NEW x, NEW y, NEW z, Over(x, T), Over(y, T), Over(z, T)
  PROVE  Cat(Cat(x, y), z) = Cat(x, Cat(y, z))
<1>1. (x \o y) \o z = x \o (y \o z)
  BY Regroup DEF Over
<1>2. QED
  BY <1>1 DEF Cat

(* What was put together is cut into the same again.                       *)
LEMMA JoinedCut ==
  ASSUME NEW T, NEW x, NEW y, Over(x, T), Over(y, T)
  PROVE  Upto(Cat(x, y), Len(x)) = x /\ After(Cat(x, y), Len(x)) = y
  BY SplitConcat DEF Over, Cat, Upto

(* What was cut is put together the same again.                            *)
LEMMA CutJoined ==
  ASSUME NEW T, NEW b, Over(b, T), NEW n \in Nat, n <= Len(b)
  PROVE  /\ Over(Upto(b, n), T) /\ Len(Upto(b, n)) = n
         /\ Over(After(b, n), T) /\ Len(After(b, n)) = Len(b) - n
         /\ b = Cat(Upto(b, n), After(b, n))
<1>1. b \in Seq(T)
  BY DEF Over
<1>2. Len(b) \in Nat
  BY <1>1, LenProperties
<1>3. n \in 0..Len(b)
  BY <1>2
<1>4. /\ SubSeq(b, 1, n) \in Seq(T) /\ Len(SubSeq(b, 1, n)) = n
      /\ After(b, n) \in Seq(T) /\ Len(After(b, n)) = Len(b) - n
      /\ b = SubSeq(b, 1, n) \o After(b, n)
  BY <1>1, <1>3, SplitAt
<1>5. QED
  BY <1>4 DEF Over, Cat, Upto

(* Its length is a number, and none only if it is empty.                   *)
LEMMA Measured ==
  ASSUME NEW T, NEW s, Over(s, T)
  PROVE  Len(s) \in Nat /\ (Len(s) = 0 <=> s = <<>>)
  BY LenProperties, EmptySeq DEF Over

(* Nothing is added by an empty one.                                       *)
LEMMA JoinedEmpty ==
  ASSUME NEW T
  PROVE  Over(<<>>, T) /\ \A s : Over(s, T) => Cat(s, <<>>) = s /\ Cat(<<>>, s) = s
  BY EmptySeq, ConcatEmptySeq DEF Over, Cat

(* Four parts from the right are four parts from the left.                 *)
LEMMA FourParts ==
  ASSUME NEW T, NEW t, NEW f, NEW v, NEW r,
         Over(t, T), Over(f, T), Over(v, T), Over(r, T)
  PROVE  Cat(t, Cat(f, Cat(v, r))) = Cat(Cat(Cat(t, f), v), r)
<1>1. Over(Cat(v, r), T) /\ Over(Cat(t, f), T)
  BY Joined
<1>2. Cat(Cat(t, f), Cat(v, r)) = Cat(t, Cat(f, Cat(v, r)))
  BY <1>1, Rejoined
<1>3. Cat(Cat(Cat(t, f), v), r) = Cat(Cat(t, f), Cat(v, r))
  BY <1>1, Rejoined
<1>4. QED
  BY <1>2, <1>3

(* Three parts are as long as they are together.                           *)
LEMMA ThreeParts ==
  ASSUME NEW T, NEW t, NEW f, NEW v, Over(t, T), Over(f, T), Over(v, T)
  PROVE  /\ Over(Cat(Cat(t, f), v), T) /\ Len(Cat(Cat(t, f), v)) \in Nat
         /\ Len(Cat(Cat(t, f), v)) = Len(t) + Len(f) + Len(v)
<1>1. PICK c : c = Cat(t, f)
  OBVIOUS
<1>2. Over(c, T) /\ Len(c) = Len(t) + Len(f)
  BY <1>1, Joined
<1>3. Over(Cat(c, v), T) /\ Len(Cat(c, v)) = Len(c) + Len(v) /\ Len(Cat(c, v)) \in Nat
  <2>1. Over(Cat(c, v), T) /\ Len(Cat(c, v)) = Len(c) + Len(v)
    BY <1>2, Joined
  <2>2. QED
    BY <2>1, Measured
<1>4. QED
  BY <1>1, <1>2, <1>3

(* What is left of what is left.                                           *)
LEMMA AfterAfter ==
  ASSUME NEW T, NEW b, Over(b, T), NEW m \in Nat, NEW n \in Nat, m + n <= Len(b)
  PROVE  After(After(b, m), n) = After(b, m + n)
<1>1. Len(b) \in Nat /\ m <= Len(b) /\ m + n \in Nat
  BY Measured
<1>2. PICK a, p : a = After(b, m) /\ p = Upto(b, m)
  OBVIOUS
<1>3. Over(a, T) /\ Over(p, T) /\ Len(p) = m /\ Len(a) = Len(b) - m /\ b = Cat(p, a)
  BY <1>1, <1>2, CutJoined
<1>4. n <= Len(a)
  BY <1>1, <1>3
<1>5. PICK c, q : c = After(a, n) /\ q = Upto(a, n)
  OBVIOUS
<1>6. Over(c, T) /\ Over(q, T) /\ Len(q) = n /\ a = Cat(q, c)
  BY <1>3, <1>4, <1>5, CutJoined
<1>7. b = Cat(Cat(p, q), c)
  BY <1>3, <1>6, Rejoined
<1>8. Over(Cat(p, q), T) /\ Len(Cat(p, q)) = m + n
  BY <1>3, <1>6, Joined
<1>9. After(Cat(Cat(p, q), c), Len(Cat(p, q))) = c
  BY <1>6, <1>8, JoinedCut
<1>10. QED
  BY <1>2, <1>5, <1>7, <1>8, <1>9

-----------------------------------------------------------------------------
(* One object.                                                             *)

(* The encoding of a tag and a value.                                      *)
TlvOf(tag, value) == Cat(Cat(tag, LengthField(Len(value))), value)

(* The object that bytes begin with is encoded in their beginning.         *)
LEMMA HeadSound ==
  ASSUME NEW b \in Seq(Byte), NEW h \in Heads(b)
  PROVE  /\ h = [tag |-> h.tag, value |-> h.value, rest |-> h.rest]
         /\ h.tag \in Seq(Byte) /\ ValidDataTag(h.tag)
         /\ h.value \in Seq(Byte) /\ Len(h.value) <= MaxValueLength
         /\ h.rest \in Seq(Byte) /\ b = Cat(TlvOf(h.tag, h.value), h.rest)
         /\ Len(h.value) < Len(b) /\ Len(h.rest) < Len(b)
<1>0. PICK n \in TagLengths(b) : \E l \in Lengths(After(b, n)) :
        /\ n + l.size + l.length <= Len(b)
        /\ h = [tag |-> SubSeq(b, 1, n), value |-> SubSeq(After(b, n + l.size), 1, l.length),
                rest |-> After(b, n + l.size + l.length)]
  BY DEF Heads
<1>1. PICK l \in Lengths(After(b, n)) :
        /\ n + l.size + l.length <= Len(b)
        /\ h = [tag |-> Upto(b, n), value |-> Upto(After(b, n + l.size), l.length),
                rest |-> After(b, n + l.size + l.length)]
  BY <1>0 DEF Upto
<1>2. n \in Nat /\ n >= 1 /\ n <= Len(b) /\ Len(b) \in Nat /\ ValidDataTag(Upto(b, n))
  BY TagRead, LenProperties DEF Upto
<1>3. PICK t, a : t = Upto(b, n) /\ a = After(b, n)
  OBVIOUS
<1>4. Over(b, Byte)
  BY DEF Over
<1>5. Over(t, Byte) /\ Len(t) = n /\ Over(a, Byte) /\ Len(a) = Len(b) - n /\ b = Cat(t, a)
  BY <1>2, <1>3, <1>4, CutJoined
<1>6. PICK k, m : k = l.size /\ m = l.length
  OBVIOUS
<1>7. /\ m \in Nat /\ m <= MaxValueLength /\ k \in Nat /\ k >= 1 /\ k <= Len(a)
      /\ Upto(a, k) = LengthField(m)
  <2>1. a \in Seq(Byte) /\ l \in Lengths(a) /\ Len(a) \in Nat
    BY <1>1, <1>2, <1>3, <1>5, Measured DEF Over
  <2>2. /\ l.length \in Nat /\ l.length <= MaxValueLength /\ l.size \in 1..Len(a)
        /\ SubSeq(a, 1, l.size) = LengthField(l.length)
    BY <2>1, LengthSound
  <2>3. QED
    BY <1>6, <2>1, <2>2 DEF Upto
<1>8. PICK f, c : f = Upto(a, k) /\ c = After(a, k)
  OBVIOUS
<1>9. Over(f, Byte) /\ Len(f) = k /\ Over(c, Byte) /\ Len(c) = Len(a) - k /\ a = Cat(f, c)
  BY <1>5, <1>7, <1>8, CutJoined
<1>10. n + k + m <= Len(b) /\ n + k <= Len(b) /\ m <= Len(c)
  <2>1. n + k + m <= Len(b)
    BY <1>1, <1>6
  <2>2. QED
    BY <1>2, <1>5, <1>7, <1>9, <2>1
<1>11. c = After(b, n + k)
  BY <1>2, <1>3, <1>4, <1>7, <1>8, <1>10, AfterAfter
<1>12. PICK v, r : v = Upto(c, m) /\ r = After(c, m)
  OBVIOUS
<1>13. Over(v, Byte) /\ Len(v) = m /\ Over(r, Byte) /\ Len(r) = Len(c) - m /\ c = Cat(v, r)
  <2>1. Over(c, Byte) /\ m \in Nat /\ m <= Len(c)
    BY <1>7, <1>9, <1>10
  <2>2. QED
    BY <1>12, <2>1, CutJoined
<1>14. r = After(b, n + k + m)
  <2>1. n + k \in Nat
    BY <1>2, <1>7
  <2>2. QED
    BY <1>4, <1>7, <1>10, <1>11, <1>12, <2>1, AfterAfter
<1>15. h = [tag |-> t, value |-> v, rest |-> r]
  BY <1>1, <1>3, <1>6, <1>11, <1>12, <1>14
<1>16. b = Cat(TlvOf(t, v), r)
  <2>1. b = Cat(t, Cat(f, Cat(v, r)))
    BY <1>5, <1>9, <1>13
  <2>2. Cat(t, Cat(f, Cat(v, r))) = Cat(Cat(Cat(t, f), v), r)
    BY <1>5, <1>9, <1>13, FourParts
  <2>3. TlvOf(t, v) = Cat(Cat(t, f), v)
    BY <1>7, <1>8, <1>13 DEF TlvOf
  <2>4. QED
    BY <2>1, <2>2, <2>3
<1>17. Len(v) < Len(b) /\ Len(r) < Len(b)
  BY <1>2, <1>5, <1>7, <1>9, <1>10, <1>13
<1>18. t \in Seq(Byte) /\ v \in Seq(Byte) /\ r \in Seq(Byte)
  BY <1>5, <1>9, <1>13 DEF Over
<1>19. h.tag = t /\ h.value = v /\ h.rest = r
  BY <1>15
<1>20. QED
  BY <1>2, <1>3, <1>7, <1>13, <1>15, <1>16, <1>17, <1>18, <1>19

(* Bytes begin with one object at most.                                    *)
LEMMA HeadUnique ==
  ASSUME NEW b \in Seq(Byte), NEW g \in Heads(b), NEW h \in Heads(b)
  PROVE  g = h
<1>1. PICK n \in TagLengths(b) : \E l \in Lengths(After(b, n)) :
        g = [tag |-> SubSeq(b, 1, n), value |-> SubSeq(After(b, n + l.size), 1, l.length),
             rest |-> After(b, n + l.size + l.length)]
  BY DEF Heads
<1>2. PICK m \in TagLengths(b) : \E k \in Lengths(After(b, m)) :
        h = [tag |-> SubSeq(b, 1, m), value |-> SubSeq(After(b, m + k.size), 1, k.length),
             rest |-> After(b, m + k.size + k.length)]
  BY DEF Heads
<1>3. m = n
  BY TagUnique
<1>4. PICK l \in Lengths(After(b, n)) :
        g = [tag |-> SubSeq(b, 1, n), value |-> SubSeq(After(b, n + l.size), 1, l.length),
             rest |-> After(b, n + l.size + l.length)]
  BY <1>1
<1>5. PICK k \in Lengths(After(b, m)) :
        h = [tag |-> SubSeq(b, 1, m), value |-> SubSeq(After(b, m + k.size), 1, k.length),
             rest |-> After(b, m + k.size + k.length)]
  BY <1>2
<1>6. k = l
  BY <1>3, LengthUnique
<1>7. QED
  BY <1>3, <1>4, <1>5, <1>6

(* The encoding of one object is at least two bytes longer than its value. *)
LEMMA TlvTyped ==
  ASSUME NEW t, Over(t, Byte), ValidDataTag(t), NEW v, Over(v, Byte), Len(v) <= LongestLength
  PROVE  /\ Over(LengthField(Len(v)), Byte) /\ Over(TlvOf(t, v), Byte)
         /\ Len(t) \in 1..4 /\ Len(v) \in Nat /\ Len(LengthField(Len(v))) \in 1..3
         /\ Len(TlvOf(t, v)) = Len(t) + Len(LengthField(Len(v))) + Len(v)
<1>1. Len(v) \in Nat /\ Len(t) \in 1..4
  BY Measured DEF ValidDataTag
<1>2. PICK f : f = LengthField(Len(v))
  OBVIOUS
<1>3. Over(f, Byte) /\ Len(f) \in 1..3
  BY <1>1, <1>2, FieldTyped DEF Over
<1>4. Over(Cat(Cat(t, f), v), Byte) /\ Len(Cat(Cat(t, f), v)) = Len(t) + Len(f) + Len(v)
  BY <1>3, ThreeParts
<1>5. QED
  BY <1>1, <1>2, <1>3, <1>4 DEF TlvOf

(* An object is read as it was encoded, unless its value is over the       *)
(* limit, whatever follows.                                                *)
LEMMA HeadComplete ==
  ASSUME NEW t, Over(t, Byte), ValidDataTag(t), NEW v, Over(v, Byte), Len(v) <= LongestLength,
         NEW r, Over(r, Byte)
  PROVE  Heads(Cat(TlvOf(t, v), r)) = IF Len(v) <= MaxValueLength
                                      THEN {[tag |-> t, value |-> v, rest |-> r]} ELSE {}
<1>1. PICK m, n, f, k : m = Len(v) /\ n = Len(t) /\ f = LengthField(m) /\ k = Len(f)
  OBVIOUS
<1>2. Over(f, Byte) /\ m \in Nat /\ n \in Nat /\ k \in Nat /\ m <= LongestLength
  <2>1. Over(LengthField(Len(v)), Byte) /\ Len(t) \in 1..4 /\ Len(v) \in Nat
    BY TlvTyped
  <2>2. QED
    BY <1>1, <2>1, Measured
<1>3. PICK b, a, c : b = Cat(TlvOf(t, v), r) /\ a = Cat(f, Cat(v, r)) /\ c = Cat(v, r)
  OBVIOUS
<1>4. Over(c, Byte) /\ Upto(c, m) = v /\ After(c, m) = r /\ Len(c) = m + Len(r)
  BY <1>1, <1>3, Joined, JoinedCut
<1>5. a = Cat(f, c) /\ Over(a, Byte) /\ After(a, k) = c
  BY <1>1, <1>2, <1>3, <1>4, Joined, JoinedCut
<1>6. b = Cat(t, a) /\ Over(b, Byte) /\ Len(b) = n + k + m + Len(r) /\ Len(r) \in Nat
  <2>1. PICK o : o = Cat(Cat(t, f), v)
    OBVIOUS
  <2>2. Over(o, Byte) /\ Len(o) = n + k + m /\ b = Cat(o, r)
    <3>1. Over(o, Byte) /\ Len(o) = n + k + m
      BY <1>1, <1>2, <2>1, ThreeParts
    <3>2. QED
      BY <1>1, <1>3, <2>1, <3>1 DEF TlvOf
  <2>3. Over(b, Byte) /\ Len(b) = Len(o) + Len(r) /\ Len(r) \in Nat
    BY <2>2, Joined
  <2>4. b = Cat(t, a)
    <3>1. Cat(t, Cat(f, Cat(v, r))) = Cat(Cat(Cat(t, f), v), r)
      BY <1>2, FourParts
    <3>2. QED
      BY <1>3, <2>1, <2>2, <3>1
  <2>5. QED
    BY <2>2, <2>3, <2>4
<1>7. TagLengths(b) = {n} /\ Upto(b, n) = t /\ After(b, n) = a
  <2>1. a \in Seq(Byte) /\ t \in Seq(Byte) /\ b = t \o a
    BY <1>5, <1>6 DEF Over, Cat
  <2>2. TagLengths(t \o a) = {Len(t)} /\ SubSeq(t \o a, 1, Len(t)) = t /\ After(t \o a, Len(t)) = a
    BY <2>1, TagBefore
  <2>3. QED
    BY <1>1, <2>1, <2>2 DEF Upto
<1>8. Lengths(a) = IF m <= MaxValueLength THEN {[length |-> m, size |-> k]} ELSE {}
  <2>1. c \in Seq(Byte) /\ a = LengthField(m) \o c
    BY <1>1, <1>4, <1>5 DEF Over, Cat
  <2>2. Lengths(LengthField(m) \o c) =
          IF m <= MaxValueLength THEN {[length |-> m, size |-> Len(LengthField(m))]} ELSE {}
    BY <1>2, <2>1, LengthRead
  <2>3. QED
    BY <1>1, <2>1, <2>2
<1>9. n + k <= Len(b) /\ n + k + m <= Len(b) /\ n + k \in Nat
  BY <1>2, <1>6
<1>10. After(b, n + k) = c
  BY <1>2, <1>5, <1>6, <1>7, <1>9, AfterAfter
<1>11. After(b, n + k + m) = r
  BY <1>2, <1>4, <1>6, <1>9, <1>10, AfterAfter
<1>12. CASE m <= MaxValueLength
  <2>1. PICK l : l = [length |-> m, size |-> k]
    OBVIOUS
  <2>2. l.length = m /\ l.size = k /\ Lengths(a) = {l}
    BY <1>8, <1>12, <2>1
  <2>3. Heads(b) =
          UNION {{[tag |-> Upto(b, n), value |-> Upto(After(b, n + x.size), x.length),
                   rest |-> After(b, n + x.size + x.length)] :
                    x \in {y \in Lengths(After(b, n)) : n + y.size + y.length <= Len(b)}}}
    BY <1>7 DEF Heads, Upto
  <2>4. {y \in Lengths(After(b, n)) : n + y.size + y.length <= Len(b)} = {l}
    BY <1>7, <1>9, <2>2
  <2>5. Heads(b) =
          UNION {{[tag |-> Upto(b, n), value |-> Upto(After(b, n + x.size), x.length),
                   rest |-> After(b, n + x.size + x.length)] : x \in {l}}}
    BY <2>3, <2>4
  <2>6. Heads(b) = {[tag |-> Upto(b, n), value |-> Upto(After(b, n + k), m),
                     rest |-> After(b, n + k + m)]}
    BY <2>2, <2>5
  <2>7. QED
    BY <1>1, <1>3, <1>4, <1>7, <1>10, <1>11, <1>12, <2>6
<1>13. CASE ~ (m <= MaxValueLength)
  <2>1. Lengths(After(b, n)) = {}
    BY <1>7, <1>8, <1>13
  <2>2. Heads(b) = {}
    BY <1>7, <2>1 DEF Heads
  <2>3. QED
    BY <1>1, <1>3, <1>13, <2>2
<1>14. QED
  BY <1>12, <1>13

-----------------------------------------------------------------------------
(* The three readers that go on with what is left: of objects, of data     *)
(* object lists and of tag lists.  Each is a recursion that takes shorter  *)
(* bytes every time; that there are such functions is proved for all three *)
(* at once.                                                                *)

ObjectPlaces == [bytes : Seq(Byte), depth : Nat, nodes : Nat]
DolPlaces    == [bytes : Seq(Byte), entries : Seq(Entries)]
TagPlaces    == [bytes : Seq(Byte), tags : Seq(Seq(Byte))]
Positions(k) == IF k = 1 THEN ObjectPlaces ELSE IF k = 2 THEN DolPlaces ELSE TagPlaces

(* What a function of positions says is a sequence of objects only if it   *)
(* has counted them.                                                       *)
Counted(f) == [q \in ObjectPlaces |-> IF f[q].nodes \in Nat THEN f[q] ELSE NoSequence]

StepOf(k, p, f) ==
  IF k = 1 THEN SequenceStep(p, Counted(f))
  ELSE IF k = 2 THEN DolStep(p, f) ELSE TagStep(p, f)

Shorter(q, p) == Len(q.bytes) < Len(p.bytes)

(* The two places where the parser of objects goes on: in the value of an  *)
(* object, and after it.                                                   *)
Inner(h, p, f) ==
  IF Constructed(h.tag[1]) THEN f[At(h.value, p.depth + 1, p.nodes + 1)]
  ELSE Sequence(<<>>, p.nodes + 1)
Further(h, p, f) == f[At(h.rest, p.depth, Inner(h, p, f).nodes)]
WithHead(h, p, f) ==
  IF ~Inner(h, p, f).ok THEN NoSequence
  ELSE IF ~Further(h, p, f).ok THEN NoSequence
  ELSE Sequence(<<Object(h.tag, h.value, Inner(h, p, f).items)>> \o Further(h, p, f).items,
                Further(h, p, f).nodes)

(* So its step is one of these.                                            *)
LEMMA SequenceCases ==
  ASSUME NEW p, NEW f
  PROVE  SequenceStep(p, f) =
           IF p.depth > MaxDepth THEN NoSequence
           ELSE IF p.bytes = <<>> THEN Sequence(<<>>, p.nodes)
           ELSE IF p.nodes >= MaxNodes \/ Heads(p.bytes) = {} THEN NoSequence
           ELSE WithHead(OnlyElement(Heads(p.bytes)), p, f)
  BY DEF SequenceStep, WithHead, Inner, Further

(* The one element of a set that is not empty is in it.                    *)
LEMMA OnlyElementIn ==
  ASSUME NEW S, S # {}
  PROVE  OnlyElement(S) \in S
  BY DEF OnlyElement

(* What the parser of objects does depends on shorter bytes only.          *)
LEMMA SequenceLocal ==
  ASSUME NEW p \in ObjectPlaces, NEW f, NEW g,
         \A q \in ObjectPlaces : Shorter(q, p) => f[q] = g[q]
  PROVE  SequenceStep(p, Counted(f)) = SequenceStep(p, Counted(g))
<1>1. PICK F, G : F = Counted(f) /\ G = Counted(g)
  OBVIOUS
<1>2. /\ \A q \in ObjectPlaces : Shorter(q, p) => F[q] = G[q]
      /\ \A q \in ObjectPlaces : F[q].nodes \in Nat \/ F[q] = NoSequence
  BY <1>1 DEF Counted
<1>3. SUFFICES ASSUME p.bytes # <<>>, Heads(p.bytes) # {}
               PROVE  WithHead(OnlyElement(Heads(p.bytes)), p, F) =
                        WithHead(OnlyElement(Heads(p.bytes)), p, G)
  <2>1. \/ p.bytes = <<>> \/ Heads(p.bytes) = {}
        \/ WithHead(OnlyElement(Heads(p.bytes)), p, F) =
             WithHead(OnlyElement(Heads(p.bytes)), p, G)
    BY <1>3
  <2>2. SequenceStep(p, F) = SequenceStep(p, G)
    BY <2>1, SequenceCases
  <2>3. QED
    BY <1>1, <2>2
<1>4. PICK h : h = OnlyElement(Heads(p.bytes))
  OBVIOUS
<1>5. /\ p.bytes \in Seq(Byte) /\ p.depth \in Nat /\ p.nodes \in Nat
  BY DEF ObjectPlaces
<1>6. h.value \in Seq(Byte) /\ h.rest \in Seq(Byte)
      /\ Len(h.value) < Len(p.bytes) /\ Len(h.rest) < Len(p.bytes)
  <2>1. h \in Heads(p.bytes)
    BY <1>3, <1>4, OnlyElementIn
  <2>2. QED
    BY <1>5, <2>1, HeadSound
<1>7. Inner(h, p, F) = Inner(h, p, G)
  <2>1. PICK q : q = At(h.value, p.depth + 1, p.nodes + 1)
    OBVIOUS
  <2>2. q \in ObjectPlaces /\ Shorter(q, p)
    BY <1>5, <1>6, <2>1 DEF ObjectPlaces, Shorter, At
  <2>3. F[q] = G[q]
    BY <1>2, <2>2
  <2>4. QED
    BY <2>1, <2>3 DEF Inner
<1>8. PICK u : u = Inner(h, p, F)
  OBVIOUS
<1>9. CASE ~ u.ok
  BY <1>4, <1>7, <1>8, <1>9 DEF WithHead
<1>10. CASE u.ok
  <2>1. u.nodes \in Nat
    <3>1. CASE Constructed(h.tag[1])
      <4>1. PICK q : q = At(h.value, p.depth + 1, p.nodes + 1)
        OBVIOUS
      <4>2. q \in ObjectPlaces /\ u = F[q]
        BY <1>5, <1>6, <1>8, <3>1, <4>1 DEF ObjectPlaces, At, Inner
      <4>3. F[q] # NoSequence
        BY <1>10, <4>2 DEF NoSequence
      <4>4. QED
        BY <1>2, <4>2, <4>3
    <3>2. CASE ~ Constructed(h.tag[1])
      BY <1>5, <1>8, <3>2 DEF Inner, Sequence
    <3>3. QED
      BY <3>1, <3>2
  <2>2. PICK q : q = At(h.rest, p.depth, u.nodes)
    OBVIOUS
  <2>3. q \in ObjectPlaces /\ Shorter(q, p)
    BY <1>5, <1>6, <2>1, <2>2 DEF ObjectPlaces, Shorter, At
  <2>4. F[q] = G[q]
    BY <1>2, <2>3
  <2>5. Further(h, p, F) = Further(h, p, G)
    BY <1>7, <1>8, <2>2, <2>4 DEF Further
  <2>6. QED
    BY <1>4, <1>7, <2>5 DEF WithHead
<1>11. QED
  BY <1>9, <1>10

(* Likewise the reader of data object lists.                               *)
LEMMA DolLocal ==
  ASSUME NEW p \in DolPlaces, NEW f, NEW g,
         \A q \in DolPlaces : Shorter(q, p) => f[q] = g[q]
  PROVE  DolStep(p, f) = DolStep(p, g)
<1>1. p.bytes \in Seq(Byte) /\ p.entries \in Seq(Entries)
  BY DEF DolPlaces
<1>2. SUFFICES ASSUME p.bytes # <<>>, \E n \in DolTagLengths(p.bytes) : n # Len(p.bytes)
               PROVE  DolStep(p, f) = DolStep(p, g)
  BY DEF DolStep
<1>3. PICK n : n = OnlyElement(DolTagLengths(p.bytes))
  OBVIOUS
<1>4. n \in Nat /\ n >= 1 /\ n + 1 <= Len(p.bytes) /\ Len(p.bytes) \in Nat
  <2>1. PICK m \in DolTagLengths(p.bytes) : m # Len(p.bytes)
    BY <1>2
  <2>2. n \in TagLengths(p.bytes) /\ m \in TagLengths(p.bytes)
    BY <1>3, <2>1, OnlyElementIn DEF DolTagLengths
  <2>3. n = m /\ n \in 1..Len(p.bytes) /\ Len(p.bytes) \in Nat
    BY <1>1, <2>2, TagUnique, TagRead, LenProperties
  <2>4. QED
    BY <2>1, <2>3
<1>5. PICK e : e = [tag |-> SubSeq(p.bytes, 1, n), length |-> p.bytes[n + 1]]
  OBVIOUS
<1>6. Over(p.bytes, Byte) /\ n <= Len(p.bytes)
  BY <1>1, <1>4 DEF Over
<1>7. e \in Entries
  <2>1. Upto(p.bytes, n) \in Seq(Byte)
    BY <1>4, <1>6, CutJoined DEF Over
  <2>2. p.bytes[n + 1] \in Byte
    <3>1. n + 1 \in 1..Len(p.bytes)
      BY <1>4
    <3>2. QED
      BY <1>1, <3>1, ElementOfSeq
  <2>3. QED
    BY <1>5, <2>1, <2>2 DEF Entries, Upto
<1>8. PICK q : q = [bytes |-> After(p.bytes, n + 1), entries |-> Append(p.entries, e)]
  OBVIOUS
<1>9. q \in DolPlaces /\ Shorter(q, p)
  <2>1. n + 1 \in Nat
    BY <1>4
  <2>2. Over(After(p.bytes, n + 1), Byte) /\ Len(After(p.bytes, n + 1)) = Len(p.bytes) - (n + 1)
    BY <1>4, <1>6, <2>1, CutJoined
  <2>3. Append(p.entries, e) \in Seq(Entries)
    BY <1>1, <1>7, AppendProperties
  <2>4. Len(After(p.bytes, n + 1)) < Len(p.bytes)
    BY <1>4, <2>2
  <2>5. QED
    BY <1>8, <2>2, <2>3, <2>4 DEF DolPlaces, Shorter, Over
<1>10. f[q] = g[q]
  BY <1>9
<1>11. QED
  BY <1>3, <1>5, <1>8, <1>10 DEF DolStep

(* And the reader of tag lists.                                            *)
LEMMA TagLocal ==
  ASSUME NEW p \in TagPlaces, NEW f, NEW g,
         \A q \in TagPlaces : Shorter(q, p) => f[q] = g[q]
  PROVE  TagStep(p, f) = TagStep(p, g)
<1>1. p.bytes \in Seq(Byte) /\ p.tags \in Seq(Seq(Byte))
  BY DEF TagPlaces
<1>2. SUFFICES ASSUME p.bytes # <<>>, TagLengths(p.bytes) # {}
               PROVE  TagStep(p, f) = TagStep(p, g)
  BY DEF TagStep
<1>3. PICK n : n = OnlyElement(TagLengths(p.bytes))
  OBVIOUS
<1>4. n \in Nat /\ n >= 1 /\ n <= Len(p.bytes) /\ Len(p.bytes) \in Nat
  <2>1. n \in TagLengths(p.bytes)
    BY <1>2, <1>3, OnlyElementIn
  <2>2. QED
    BY <1>1, <2>1, TagRead, LenProperties
<1>5. PICK tag : tag = SubSeq(p.bytes, 1, n)
  OBVIOUS
<1>6. PICK q : q = [bytes |-> After(p.bytes, n), tags |-> Append(p.tags, tag)]
  OBVIOUS
<1>7. q \in TagPlaces /\ Shorter(q, p)
  <2>1. Over(p.bytes, Byte)
    BY <1>1 DEF Over
  <2>2. /\ Over(After(p.bytes, n), Byte) /\ Len(After(p.bytes, n)) = Len(p.bytes) - n
        /\ Over(Upto(p.bytes, n), Byte)
    BY <1>4, <2>1, CutJoined
  <2>3. tag \in Seq(Byte)
    BY <1>5, <2>2 DEF Over, Upto
  <2>4. Append(p.tags, tag) \in Seq(Seq(Byte))
    BY <1>1, <2>3, AppendProperties
  <2>5. Len(After(p.bytes, n)) < Len(p.bytes)
    BY <1>4, <2>2
  <2>6. QED
    BY <1>6, <2>2, <2>4, <2>5 DEF TagPlaces, Shorter, Over
<1>8. f[q] = g[q]
  BY <1>7
<1>9. QED
  BY <1>3, <1>5, <1>6, <1>8 DEF TagStep

(* A step of any of them depends on shorter bytes only.                    *)
LEMMA StepLocal ==
  ASSUME NEW k, NEW p \in Positions(k), NEW f, NEW g,
         \A q \in Positions(k) : Shorter(q, p) => f[q] = g[q]
  PROVE  StepOf(k, p, f) = StepOf(k, p, g)
<1>1. CASE k = 1
  BY <1>1, SequenceLocal DEF StepOf, Positions
<1>2. CASE k = 2
  BY <1>2, DolLocal DEF StepOf, Positions
<1>3. CASE k # 1 /\ k # 2
  BY <1>3, TagLocal DEF StepOf, Positions
<1>4. QED
  BY <1>1, <1>2, <1>3

(* How much there is to read.                                              *)
Below(k, n) == {q \in Positions(k) : Len(q.bytes) < n}

LEMMA PositionMeasured ==
  ASSUME NEW k, NEW p \in Positions(k)
  PROVE  p.bytes \in Seq(Byte) /\ Len(p.bytes) \in Nat
<1>1. p.bytes \in Seq(Byte)
  BY DEF Positions, ObjectPlaces, DolPlaces, TagPlaces
<1>2. QED
  BY <1>1, LenProperties

(* A function that reads what is shorter than n.                           *)
Reads(k, f, n) == f = [p \in Below(k, n) |-> StepOf(k, p, f)]

LEMMA ReadsAt ==
  ASSUME NEW k, NEW f, NEW n, Reads(k, f, n), NEW p \in Positions(k), Len(p.bytes) < n
  PROVE  f[p] = StepOf(k, p, f)
<1>1. p \in Below(k, n)
  BY DEF Below
<1>2. f = [q \in Below(k, n) |-> StepOf(k, q, f)]
  BY DEF Reads
<1>3. QED
  BY <1>1, <1>2

(* Two of them say the same of what both read.                             *)
LEMMA ReadsAgree ==
  ASSUME NEW k, NEW f, NEW m \in Nat, Reads(k, f, m), NEW g, NEW n \in Nat, Reads(k, g, n),
         NEW p \in Positions(k), Len(p.bytes) < m, Len(p.bytes) < n
  PROVE  f[p] = g[p]
<1> DEFINE Wrong(q) == Len(q.bytes) < m /\ Len(q.bytes) < n /\ f[q] # g[q]
           wrong == {i \in Nat : \E q \in Positions(k) : Len(q.bytes) = i /\ Wrong(q)}
<1>1. SUFFICES ASSUME wrong # {} PROVE FALSE
  <2>1. Len(p.bytes) \in Nat
    BY PositionMeasured
  <2>2. QED
    BY <2>1
<1>2. PICK i \in Nat : i \in wrong /\ \A j \in wrong : i <= j
  <2>1. wrong \subseteq Nat
    OBVIOUS
  <2> HIDE DEF wrong
  <2>2. QED
    BY <1>1, <2>1, LeastNumber
<1>3. PICK q \in Positions(k) : Len(q.bytes) = i /\ Wrong(q)
  BY <1>2
<1>4. ASSUME NEW r \in Positions(k), Shorter(r, q)
      PROVE  f[r] = g[r]
  <2>1. Len(r.bytes) \in Nat /\ Len(r.bytes) < i
    BY <1>3, <1>4, PositionMeasured DEF Shorter
  <2>2. Len(r.bytes) \notin wrong
    <3>1. ~ (i <= Len(r.bytes))
      BY <2>1
    <3> HIDE DEF wrong
    <3>2. QED
      BY <1>2, <3>1
  <2>3. ~ Wrong(r)
    <3> HIDE DEF Wrong
    <3>1. QED
      BY <2>1, <2>2
  <2>4. Len(r.bytes) < m /\ Len(r.bytes) < n
    BY <1>3, <2>1
  <2>5. QED
    BY <2>3, <2>4
<1>5. f[q] = StepOf(k, q, f) /\ g[q] = StepOf(k, q, g)
  BY <1>3, ReadsAt
<1>6. StepOf(k, q, f) = StepOf(k, q, g)
  BY <1>4, StepLocal
<1>7. QED
  BY <1>3, <1>5, <1>6

(* There is one for every n.                                               *)
LEMMA ReadsExist ==
  ASSUME NEW k, NEW n \in Nat
  PROVE  \E f : Reads(k, f, n)
<1> DEFINE without == {m \in Nat : ~ \E f : Reads(k, f, m)}
<1>1. SUFFICES ASSUME without # {} PROVE FALSE
  OBVIOUS
<1>2. PICK m \in Nat : m \in without /\ \A j \in without : m <= j
  <2>1. without \subseteq Nat
    OBVIOUS
  <2> HIDE DEF without
  <2>2. QED
    BY <1>1, <2>1, LeastNumber
<1>3. CASE m = 0
  <2>1. Below(k, 0) = {}
    <3>1. ASSUME NEW p \in Positions(k), Len(p.bytes) < 0 PROVE FALSE
      BY <3>1, PositionMeasured
    <3>2. QED
      BY <3>1 DEF Below
  <2> DEFINE f == [p \in Below(k, 0) |-> 0]
  <2>2. f = [p \in Below(k, 0) |-> StepOf(k, p, f)]
    BY <2>1
  <2>3. Reads(k, f, 0)
    BY <2>2 DEF Reads
  <2>4. QED
    BY <1>2, <1>3, <2>3
<1>4. CASE m # 0
  <2>1. m - 1 \in Nat /\ m - 1 \notin without
    BY <1>2, <1>4
  <2>2. PICK g : Reads(k, g, m - 1)
    BY <2>1
  <2> DEFINE f == [p \in Below(k, m) |-> StepOf(k, p, g)]
  <2>3. ASSUME NEW p \in Below(k, m)
        PROVE  StepOf(k, p, g) = StepOf(k, p, f)
    <3>1. p \in Positions(k) /\ Len(p.bytes) < m /\ Len(p.bytes) \in Nat
      BY PositionMeasured DEF Below
    <3>2. ASSUME NEW q \in Positions(k), Shorter(q, p)
          PROVE  g[q] = f[q]
      <4>1. Len(q.bytes) < Len(p.bytes) /\ Len(q.bytes) \in Nat
        BY <3>2, PositionMeasured DEF Shorter
      <4>2. Len(q.bytes) < m - 1 /\ Len(q.bytes) < m
        BY <3>1, <4>1
      <4>3. q \in Below(k, m)
        BY <4>2 DEF Below
      <4>4. f[q] = StepOf(k, q, g)
        BY <4>3
      <4>5. g[q] = StepOf(k, q, g)
        BY <2>2, <4>2, ReadsAt
      <4>6. QED
        BY <4>4, <4>5
    <3> HIDE DEF f
    <3>3. QED
      BY <3>1, <3>2, StepLocal
  <2>4. f = [p \in Below(k, m) |-> StepOf(k, p, f)]
    <3>1. f = [p \in Below(k, m) |-> StepOf(k, p, g)]
      OBVIOUS
    <3> HIDE DEF f
    <3>2. QED
      BY <2>3, <3>1
  <2>5. Reads(k, f, m)
    <3> HIDE DEF f
    <3>1. QED
      BY <2>4 DEF Reads
  <2>6. QED
    BY <1>2, <2>5
<1>5. QED
  BY <1>3, <1>4

(* And so there is one that reads everything.                              *)
LEMMA ReaderExists ==
  ASSUME NEW k
  PROVE  \E f : f = [p \in Positions(k) |-> StepOf(k, p, f)]
<1> DEFINE upto(n) == CHOOSE g : Reads(k, g, n)
           f == [p \in Positions(k) |-> upto(Len(p.bytes) + 1)[p]]
<1>1. ASSUME NEW n \in Nat
      PROVE  Reads(k, upto(n), n)
  BY <1>1, ReadsExist
<1> HIDE DEF upto
<1>2. ASSUME NEW p \in Positions(k)
      PROVE  upto(Len(p.bytes) + 1)[p] = StepOf(k, p, f)
  <2>1. PICK n : n = Len(p.bytes) + 1
    OBVIOUS
  <2>2. n \in Nat /\ Len(p.bytes) < n
    BY <2>1, PositionMeasured
  <2>3. upto(n)[p] = StepOf(k, p, upto(n))
    BY <1>1, <2>2, ReadsAt
  <2>4. ASSUME NEW q \in Positions(k), Shorter(q, p)
        PROVE  upto(n)[q] = f[q]
    <3>1. PICK m : m = Len(q.bytes) + 1
      OBVIOUS
    <3>2. m \in Nat /\ Len(q.bytes) < m /\ Len(q.bytes) < n
      <4>1. Len(q.bytes) \in Nat /\ Len(p.bytes) \in Nat /\ Len(q.bytes) < Len(p.bytes)
        BY <2>4, PositionMeasured DEF Shorter
      <4>2. QED
        BY <2>1, <3>1, <4>1
    <3>3. f[q] = upto(m)[q]
      BY <3>1
    <3>4. upto(n)[q] = upto(m)[q]
      BY <1>1, <2>2, <3>2, ReadsAgree
    <3>5. QED
      BY <3>3, <3>4
  <2> HIDE DEF f
  <2>5. StepOf(k, p, upto(n)) = StepOf(k, p, f)
    BY <2>4, StepLocal
  <2>6. QED
    BY <2>1, <2>3, <2>5
<1>3. f = [p \in Positions(k) |-> StepOf(k, p, f)]
  <2>1. f = [p \in Positions(k) |-> upto(Len(p.bytes) + 1)[p]]
    OBVIOUS
  <2> HIDE DEF f
  <2>2. QED
    BY <1>2, <2>1
<1>4. QED
  BY <1>3

(* The readers, of which the code has one function each.                   *)
ParseSequence == CHOOSE f : f = [p \in ObjectPlaces |-> SequenceStep(p, f)]
ReadDol  == CHOOSE f : f = [p \in DolPlaces |-> DolStep(p, f)]
ReadTags == CHOOSE f : f = [p \in TagPlaces |-> TagStep(p, f)]

(* They are what starts at the first byte.                                 *)
LEMMA ReadersStart ==
  ASSUME NEW b
  PROVE  /\ ParseMany(b) = ParseSequence[At(b, 0, 0)]
         /\ ParseDol(b) = ReadDol[[bytes |-> b, entries |-> <<>>]]
         /\ TagList(b) = IF b = <<>> THEN [ok |-> FALSE]
                         ELSE ReadTags[[bytes |-> b, tags |-> <<>>]]
  BY DEF ParseMany, ParseDol, TagList, ParseSequence, ReadDol, ReadTags,
         ObjectPlaces, DolPlaces, TagPlaces

(* The reader of data object lists goes on step by step.                   *)
LEMMA ReadDolStep ==
  ASSUME NEW p \in DolPlaces
  PROVE  ReadDol[p] = DolStep(p, ReadDol)
<1>1. Positions(2) = DolPlaces /\ \A q, f : StepOf(2, q, f) = DolStep(q, f)
  BY DEF Positions, StepOf
<1>2. \E f : f = [q \in DolPlaces |-> DolStep(q, f)]
  BY <1>1, ReaderExists
<1>3. ReadDol = [q \in DolPlaces |-> DolStep(q, ReadDol)]
  BY <1>2 DEF ReadDol
<1>4. QED
  BY <1>3

(* So does the reader of tag lists.                                        *)
LEMMA ReadTagsStep ==
  ASSUME NEW p \in TagPlaces
  PROVE  ReadTags[p] = TagStep(p, ReadTags)
<1>1. Positions(3) = TagPlaces /\ \A q, f : StepOf(3, q, f) = TagStep(q, f)
  BY DEF Positions, StepOf
<1>2. \E f : f = [q \in TagPlaces |-> TagStep(q, f)]
  BY <1>1, ReaderExists
<1>3. ReadTags = [q \in TagPlaces |-> TagStep(q, ReadTags)]
  BY <1>2 DEF ReadTags
<1>4. QED
  BY <1>3

(* What has been counted goes on being counted.                            *)
LEMMA InnerCounted ==
  ASSUME NEW p \in ObjectPlaces, NEW h \in Heads(p.bytes), NEW f,
         \A q \in ObjectPlaces : f[q].nodes \in Nat \/ f[q] = NoSequence
  PROVE  /\ Inner(h, p, f).nodes \in Nat \/ Inner(h, p, f) = NoSequence
         /\ Inner(h, p, f).ok => Further(h, p, f).nodes \in Nat \/ Further(h, p, f) = NoSequence
<1>1. p.bytes \in Seq(Byte) /\ p.depth \in Nat /\ p.nodes \in Nat
  BY DEF ObjectPlaces
<1>2. h.value \in Seq(Byte) /\ h.rest \in Seq(Byte)
  BY <1>1, HeadSound
<1>3. PICK u : u = Inner(h, p, f)
  OBVIOUS
<1>4. u.nodes \in Nat \/ u = NoSequence
  <2>1. CASE Constructed(h.tag[1])
    <3>1. At(h.value, p.depth + 1, p.nodes + 1) \in ObjectPlaces
      BY <1>1, <1>2 DEF ObjectPlaces, At
    <3>2. QED
      BY <1>3, <2>1, <3>1 DEF Inner
  <2>2. CASE ~ Constructed(h.tag[1])
    BY <1>1, <1>3, <2>2 DEF Inner, Sequence
  <2>3. QED
    BY <2>1, <2>2
<1>5. ASSUME u.ok
      PROVE  Further(h, p, f).nodes \in Nat \/ Further(h, p, f) = NoSequence
  <2>1. u.nodes \in Nat
    BY <1>4, <1>5 DEF NoSequence
  <2>2. At(h.rest, p.depth, u.nodes) \in ObjectPlaces
    BY <1>1, <1>2, <2>1 DEF ObjectPlaces, At
  <2>3. QED
    BY <1>3, <2>2 DEF Further
<1>6. QED
  BY <1>3, <1>4, <1>5

(* The parser of objects goes on step by step.                             *)
LEMMA ParseSequenceStep ==
  ASSUME NEW p \in ObjectPlaces
  PROVE  ParseSequence[p] = SequenceStep(p, ParseSequence)
<1>1. Positions(1) = ObjectPlaces /\ \A q, f : StepOf(1, q, f) = SequenceStep(q, Counted(f))
  BY DEF Positions, StepOf
<1>2. PICK f : f = [q \in ObjectPlaces |-> SequenceStep(q, Counted(f))]
  BY <1>1, ReaderExists
<1>3. PICK F : F = Counted(f)
  OBVIOUS
<1>4. \A q \in ObjectPlaces : F[q].nodes \in Nat \/ F[q] = NoSequence
  BY <1>3 DEF Counted
<1>5. ASSUME NEW q \in ObjectPlaces
      PROVE  SequenceStep(q, F).nodes \in Nat \/ SequenceStep(q, F) = NoSequence
  <2>1. PICK h : h = OnlyElement(Heads(q.bytes))
    OBVIOUS
  <2>2. q.nodes \in Nat
    BY DEF ObjectPlaces
  <2>3. ASSUME Heads(q.bytes) # {}
        PROVE  WithHead(h, q, F).nodes \in Nat \/ WithHead(h, q, F) = NoSequence
    <3>1. h \in Heads(q.bytes)
      BY <2>1, <2>3, OnlyElementIn
    <3>2. Inner(h, q, F).ok =>
            Further(h, q, F).nodes \in Nat \/ Further(h, q, F) = NoSequence
      BY <1>4, <3>1, InnerCounted
    <3>3. QED
      BY <3>2 DEF WithHead, Sequence, NoSequence
  <2>4. QED
    BY <2>1, <2>2, <2>3, SequenceCases DEF Sequence
<1>6. F = f
  <2>1. \A q \in ObjectPlaces : f[q].nodes \in Nat \/ f[q] = NoSequence
    BY <1>2, <1>3, <1>5
  <2>2. \A q \in ObjectPlaces : (IF f[q].nodes \in Nat THEN f[q] ELSE NoSequence) = f[q]
    BY <2>1
  <2>3. F = [q \in ObjectPlaces |-> f[q]]
    BY <1>3, <2>2 DEF Counted
  <2>4. f = [q \in ObjectPlaces |-> f[q]]
    BY <1>2
  <2>5. QED
    BY <2>3, <2>4
<1>7. f = [q \in ObjectPlaces |-> SequenceStep(q, f)]
  BY <1>2, <1>3, <1>6
<1>8. ParseSequence = [q \in ObjectPlaces |-> SequenceStep(q, ParseSequence)]
  BY <1>7 DEF ParseSequence
<1>9. QED
  BY <1>8

-----------------------------------------------------------------------------
(* What is collected from the elements of a sequence.                      *)

(* The elements of a sequence: it is over any set that has them.           *)
LEMMA RangeOf ==
  ASSUME NEW T, NEW s, Over(s, T)
  PROVE  /\ DOMAIN s = 1..Len(s) /\ Range(s) \subseteq T /\ Over(s, Range(s))
         /\ \A U : Range(s) \subseteq U => Over(s, U)
         /\ \A x : x \in Range(s) <=> \E i \in 1..Len(s) : s[i] = x
<1>1. s \in Seq(T)
  BY DEF Over
<1>2. Len(s) \in Nat /\ DOMAIN s = 1..Len(s) /\ \A i \in 1..Len(s) : s[i] \in T
  BY <1>1, LenProperties, ElementOfSeq
<1>3. Range(s) = {s[i] : i \in 1..Len(s)}
  BY <1>2 DEF Range
<1>4. ASSUME NEW U, \A i \in 1..Len(s) : s[i] \in U
      PROVE  Over(s, U)
  <2>1. PICK n : n = Len(s)
    OBVIOUS
  <2>2. s = [i \in 1..n |-> s[i]]
    BY <1>1, <1>2, <2>1
  <2>3. [i \in 1..n |-> s[i]] \in Seq(U)
    BY <1>2, <1>4, <2>1
  <2>4. QED
    BY <2>2, <2>3 DEF Over
<1>5. QED
  BY <1>2, <1>3, <1>4

(* A sequence over a set is over a larger one.                             *)
LEMMA OverMore ==
  ASSUME NEW S, NEW T, S \subseteq T, NEW s, Over(s, S)
  PROVE  Over(s, T)
<1>1. Range(s) \subseteq S
  BY RangeOf
<1>2. QED
  BY <1>1, RangeOf

(* The elements of two sequences are those of both.                        *)
LEMMA RangeCat ==
  ASSUME NEW T, NEW a, NEW b, Over(a, T), Over(b, T)
  PROVE  Range(Cat(a, b)) = Range(a) \cup Range(b)
<1>1. a \in Seq(T) /\ b \in Seq(T) /\ Len(a) \in Nat /\ Len(b) \in Nat
  BY LenProperties DEF Over
<1>2. PICK c : c = Cat(a, b)
  OBVIOUS
<1>3. /\ Over(c, T) /\ Len(c) = Len(a) + Len(b)
      /\ \A i \in 1..(Len(a) + Len(b)) : c[i] = IF i <= Len(a) THEN a[i] ELSE b[i - Len(a)]
  BY <1>1, <1>2, ConcatProperties DEF Cat, Over
<1>4. ASSUME NEW x
      PROVE  x \in Range(c) <=> x \in Range(a) \/ x \in Range(b)
  <2>1. /\ x \in Range(c) <=> \E i \in 1..Len(c) : c[i] = x
        /\ x \in Range(a) <=> \E i \in 1..Len(a) : a[i] = x
        /\ x \in Range(b) <=> \E i \in 1..Len(b) : b[i] = x
    BY <1>3, RangeOf
  <2>2. ASSUME NEW i \in 1..Len(c) PROVE c[i] \in Range(a) \/ c[i] \in Range(b)
    <3>1. CASE i <= Len(a)
      <4>1. i \in 1..Len(a) /\ c[i] = a[i]
        BY <1>1, <1>3, <3>1
      <4>2. QED
        BY <4>1, RangeOf
    <3>2. CASE ~ (i <= Len(a))
      <4>1. i - Len(a) \in 1..Len(b) /\ c[i] = b[i - Len(a)]
        BY <1>1, <1>3, <3>2
      <4>2. QED
        BY <4>1, RangeOf
    <3>3. QED
      BY <3>1, <3>2
  <2>3. ASSUME NEW i \in 1..Len(a) PROVE i \in 1..Len(c) /\ c[i] = a[i]
    BY <1>1, <1>3
  <2>4. ASSUME NEW i \in 1..Len(b) PROVE Len(a) + i \in 1..Len(c) /\ c[Len(a) + i] = b[i]
    <3>1. /\ Len(a) + i \in 1..(Len(a) + Len(b)) /\ ~ (Len(a) + i <= Len(a))
          /\ Len(a) + i - Len(a) = i
      BY <1>1
    <3>2. QED
      BY <1>3, <3>1
  <2>5. QED
    BY <2>1, <2>2, <2>3, <2>4
<1>5. QED
  BY <1>2, <1>4

(* A sequence of one.                                                      *)
LEMMA One ==
  ASSUME NEW T, NEW x \in T
  PROVE  Over(<<x>>, T) /\ Len(<<x>>) = 1 /\ <<x>>[1] = x /\ Range(<<x>>) = {x}
<1>1. Over(<<x>>, T) /\ Len(<<x>>) = 1 /\ <<x>>[1] = x
  BY Short1 DEF Over
<1>2. \A y : y \in Range(<<x>>) <=> \E i \in 1..1 : <<x>>[i] = y
  BY <1>1, RangeOf
<1>3. QED
  BY <1>1, <1>2

(* There is nothing in the empty one.                                      *)
LEMMA RangeEmpty == Range(<<>>) = {}
  BY DEF Range

(* A sequence that is not empty is its first element and what follows.     *)
LEMMA Uncons ==
  ASSUME NEW T, NEW s, Over(s, T), s # <<>>
  PROVE  \E x \in T : \E t : /\ Over(t, T) /\ s = Cat(<<x>>, t) /\ x = s[1]
                             /\ Len(t) \in Nat /\ Len(s) = Len(t) + 1
<1>1. Len(s) \in Nat /\ Len(s) >= 1 /\ s \in Seq(T)
  BY Measured DEF Over
<1>2. PICK t : t = After(s, 1)
  OBVIOUS
<1>3. PICK x : x = s[1]
  OBVIOUS
<1>4. x \in T
  BY <1>1, <1>3, ElementOfSeq
<1>5. /\ Over(Upto(s, 1), T) /\ Len(Upto(s, 1)) = 1
      /\ Over(t, T) /\ Len(t) = Len(s) - 1 /\ s = Cat(Upto(s, 1), t)
  <2>1. 1 \in Nat /\ 1 <= Len(s)
    BY <1>1
  <2>2. /\ Over(Upto(s, 1), T) /\ Len(Upto(s, 1)) = 1
        /\ Over(After(s, 1), T) /\ Len(After(s, 1)) = Len(s) - 1
        /\ s = Cat(Upto(s, 1), After(s, 1))
    BY <2>1, CutJoined
  <2>3. QED
    BY <1>2, <2>2
<1>6. Upto(s, 1)[1] = s[1]
  <2>1. 1 \in 0..Len(s)
    BY <1>1
  <2>2. \A i \in 1..1 : SubSeq(s, 1, 1)[i] = s[i]
    BY <1>1, <2>1, SplitAt
  <2>3. QED
    BY <2>2 DEF Upto
<1>7. Upto(s, 1) = <<x>>
  <2>1. PICK u : u = Upto(s, 1)
    OBVIOUS
  <2>2. u \in Seq(T) /\ Len(u) = 1 /\ u[1] = x
    BY <1>3, <1>5, <1>6, <2>1 DEF Over
  <2>3. <<x>> \in Seq(T) /\ Len(<<x>>) = 1 /\ <<x>>[1] = x
    BY <1>4, Short1
  <2>4. u = <<x>>
    BY <2>2, <2>3, SeqEqual
  <2>5. QED
    BY <2>1, <2>4
<1>8. Len(t) \in Nat /\ Len(s) = Len(t) + 1
  BY <1>1, <1>5
<1>9. s = Cat(<<x>>, t) /\ Over(t, T)
  BY <1>5, <1>7
<1>10. QED
  BY <1>3, <1>4, <1>8, <1>9

(* One value for each element, as a function gives it.                     *)
Gives(F, S, T) == F \in [S -> T]
Mapped(s, F) == [i \in DOMAIN s |-> F[s[i]]]

LEMMA MappedTyped ==
  ASSUME NEW S, NEW T, NEW F, Gives(F, S, T), NEW s, Over(s, S)
  PROVE  /\ Over(Mapped(s, F), T) /\ Len(Mapped(s, F)) = Len(s) /\ Len(s) \in Nat
         /\ DOMAIN s = 1..Len(s) /\ \A i \in 1..Len(s) : s[i] \in S
         /\ \A i \in 1..Len(s) : Mapped(s, F)[i] = F[s[i]]
<1>1. Len(s) \in Nat /\ DOMAIN s = 1..Len(s) /\ \A i \in 1..Len(s) : s[i] \in S
  BY LenProperties, ElementOfSeq DEF Over
<1>2. PICK n : n = Len(s)
  OBVIOUS
<1>3. Mapped(s, F) = [i \in 1..n |-> F[s[i]]]
  BY <1>1, <1>2 DEF Mapped
<1>4. \A i \in 1..n : F[s[i]] \in T
  BY <1>1, <1>2 DEF Gives
<1>5. /\ [i \in 1..n |-> F[s[i]]] \in Seq(T) /\ Len([i \in 1..n |-> F[s[i]]]) = n
  BY <1>1, <1>2, <1>4
<1>6. QED
  BY <1>1, <1>2, <1>3, <1>5 DEF Over

(* Those of two sequences are those of both.                               *)
LEMMA MappedCat ==
  ASSUME NEW S, NEW T, NEW F, Gives(F, S, T), NEW a, NEW b, Over(a, S), Over(b, S)
  PROVE  Mapped(Cat(a, b), F) = Cat(Mapped(a, F), Mapped(b, F))
<1>1. PICK c, p, q, r : /\ c = Cat(a, b) /\ p = Mapped(a, F) /\ q = Mapped(b, F)
                        /\ r = Mapped(c, F)
  OBVIOUS
<1>2. /\ Over(c, S) /\ Len(c) = Len(a) + Len(b) /\ Len(a) \in Nat /\ Len(b) \in Nat
      /\ \A i \in 1..(Len(a) + Len(b)) : c[i] = IF i <= Len(a) THEN a[i] ELSE b[i - Len(a)]
  <2>1. a \in Seq(S) /\ b \in Seq(S)
    BY DEF Over
  <2>2. QED
    BY <1>1, <2>1, ConcatProperties, LenProperties DEF Cat, Over
<1>3. Over(p, T) /\ Len(p) = Len(a) /\ \A i \in 1..Len(a) : p[i] = F[a[i]]
  <2>1. /\ Over(Mapped(a, F), T) /\ Len(Mapped(a, F)) = Len(a)
        /\ \A i \in 1..Len(a) : Mapped(a, F)[i] = F[a[i]]
    BY MappedTyped
  <2>2. QED
    BY <1>1, <2>1
<1>4. Over(q, T) /\ Len(q) = Len(b) /\ \A i \in 1..Len(b) : q[i] = F[b[i]]
  <2>1. /\ Over(Mapped(b, F), T) /\ Len(Mapped(b, F)) = Len(b)
        /\ \A i \in 1..Len(b) : Mapped(b, F)[i] = F[b[i]]
    BY MappedTyped
  <2>2. QED
    BY <1>1, <2>1
<1>5. Over(r, T) /\ Len(r) = Len(c) /\ \A i \in 1..Len(c) : r[i] = F[c[i]]
  <2>1. /\ Over(Mapped(c, F), T) /\ Len(Mapped(c, F)) = Len(c)
        /\ \A i \in 1..Len(c) : Mapped(c, F)[i] = F[c[i]]
    BY <1>2, MappedTyped
  <2>2. QED
    BY <1>1, <2>1
<1>6. ASSUME NEW i \in 1..Len(p) PROVE r[i] = p[i]
  <2>1. i \in 1..(Len(a) + Len(b)) /\ i <= Len(a) /\ i \in 1..Len(a)
    BY <1>2, <1>3
  <2>2. c[i] = a[i] /\ i \in 1..Len(c)
    BY <1>2, <2>1
  <2>3. QED
    BY <1>3, <1>5, <2>1, <2>2
<1>7. ASSUME NEW i \in 1..Len(q) PROVE r[Len(p) + i] = q[i]
  <2>1. /\ Len(a) + i \in 1..(Len(a) + Len(b)) /\ ~ (Len(a) + i <= Len(a)) /\ i \in 1..Len(b)
        /\ Len(a) + i - Len(a) = i
    BY <1>2, <1>4
  <2>2. c[Len(a) + i] = b[i] /\ Len(a) + i \in 1..Len(c)
    BY <1>2, <2>1
  <2>3. QED
    BY <1>3, <1>4, <1>5, <2>1, <2>2
<1>8. r = p \o q
  <2>1. p \in Seq(T) /\ q \in Seq(T) /\ r \in Seq(T) /\ Len(r) = Len(p) + Len(q)
    BY <1>2, <1>3, <1>4, <1>5 DEF Over
  <2>2. QED
    BY <1>6, <1>7, <2>1, IsConcat
<1>9. QED
  BY <1>1, <1>8 DEF Cat

(* That of one element.                                                    *)
LEMMA MappedOne ==
  ASSUME NEW S, NEW T, NEW F, Gives(F, S, T), NEW x \in S
  PROVE  Mapped(<<x>>, F) = <<F[x]>>
<1>1. PICK s, r : s = <<x>> /\ r = Mapped(s, F)
  OBVIOUS
<1>2. Over(s, S) /\ Len(s) = 1 /\ s[1] = x
  BY <1>1, One
<1>3. Over(r, T) /\ Len(r) = 1 /\ r[1] = F[x]
  BY <1>1, <1>2, MappedTyped
<1>4. Over(<<F[x]>>, T) /\ Len(<<F[x]>>) = 1 /\ <<F[x]>>[1] = F[x]
  <2>1. F[x] \in T
    BY DEF Gives
  <2>2. QED
    BY <2>1, One
<1>5. r = <<F[x]>>
  <2>1. PICK y, u : y = F[x] /\ u = <<y>>
    OBVIOUS
  <2>2. r \in Seq(T) /\ u \in Seq(T) /\ Len(r) = 1 /\ Len(u) = 1 /\ r[1] = u[1]
    BY <1>3, <1>4, <2>1 DEF Over
  <2>3. r = u
    BY <2>2, SeqEqual
  <2>4. QED
    BY <2>1, <2>3
<1>6. QED
  BY <1>1, <1>5

(* What they are one after the other.                                      *)
Collected(s, F) == FlattenSeq(Mapped(s, F))

LEMMA CollectedCat ==
  ASSUME NEW S, NEW T, NEW F, Gives(F, S, Seq(T)), NEW a, NEW b, Over(a, S), Over(b, S)
  PROVE  /\ Over(Collected(a, F), T) /\ Over(Collected(b, F), T)
         /\ Collected(Cat(a, b), F) = Cat(Collected(a, F), Collected(b, F))
<1>1. PICK p, q : p = Mapped(a, F) /\ q = Mapped(b, F)
  OBVIOUS
<1>2. Mapped(Cat(a, b), F) = p \o q
  <2>1. Mapped(Cat(a, b), F) = Cat(Mapped(a, F), Mapped(b, F))
    BY MappedCat
  <2>2. QED
    BY <1>1, <2>1 DEF Cat
<1>3. p \in Seq(Seq(T)) /\ q \in Seq(Seq(T))
  BY <1>1, MappedTyped DEF Over
<1>4. FlattenSeq(p \o q) = FlattenSeq(p) \o FlattenSeq(q)
  BY <1>3, FlattenConcat
<1>5. FlattenSeq(p) \in Seq(T) /\ FlattenSeq(q) \in Seq(T)
  BY <1>3, FlattenTyped
<1>6. QED
  BY <1>1, <1>2, <1>4, <1>5 DEF Collected, Cat, Over

(* It is a sequence.                                                       *)
LEMMA CollectedTyped ==
  ASSUME NEW S, NEW T, NEW F, Gives(F, S, Seq(T)), NEW a, Over(a, S)
  PROVE  Over(Collected(a, F), T)
  BY CollectedCat

(* From one element.                                                       *)
LEMMA CollectedOne ==
  ASSUME NEW S, NEW T, NEW F, Gives(F, S, Seq(T)), NEW x \in S
  PROVE  Collected(<<x>>, F) = F[x]
<1>1. Mapped(<<x>>, F) = <<F[x]>>
  BY MappedOne
<1>2. FlattenSeq(<<F[x]>>) = F[x]
  <2>1. PICK y : y = F[x]
    OBVIOUS
  <2>2. y \in Seq(T)
    BY <2>1 DEF Gives
  <2>3. QED
    BY <2>1, <2>2, FlattenOne
<1>3. QED
  BY <1>1, <1>2 DEF Collected

(* From nothing.                                                           *)
LEMMA CollectedEmpty ==
  ASSUME NEW F
  PROVE  Collected(<<>>, F) = <<>>
<1>1. Mapped(<<>>, F) = <<>>
  BY DEF Mapped
<1>2. QED
  BY <1>1, FlattenEmpty DEF Collected

(* From the first element and from those that follow.                      *)
LEMMA CollectedCons ==
  ASSUME NEW S, NEW T, NEW F, Gives(F, S, Seq(T)), NEW x \in S, NEW b, Over(b, S)
  PROVE  Collected(Cat(<<x>>, b), F) = Cat(F[x], Collected(b, F))
<1>1. Over(<<x>>, S)
  BY One
<1>2. Collected(Cat(<<x>>, b), F) = Cat(Collected(<<x>>, F), Collected(b, F))
  BY <1>1, CollectedCat
<1>3. QED
  BY <1>2, CollectedOne

-----------------------------------------------------------------------------
(* Objects in sequences.                                                   *)

(* An object that is listed with what is inside of it.                     *)
ListedObject(o) == o.inside \in Seq(Range(o.inside)) /\ o.depth \in Nat
Around(S)       == S \cup UNION {Range(o.inside) : o \in S}
WithInside(S)   == [o \in S |-> <<o>> \o o.inside]

LEMMA ListedIs ==
  ASSUME NEW items
  PROVE  Listed(items) <=> Over(items, Range(items)) /\ \A o \in Range(items) : ListedObject(o)
  BY DEF Listed, Over, ListedObject

(* Such objects and what is inside of each make sequences.                 *)
LEMMA WithInsideGives ==
  ASSUME NEW S, \A o \in S : ListedObject(o)
  PROVE  /\ Gives(WithInside(S), S, Seq(Around(S)))
         /\ \A o \in S : /\ WithInside(S)[o] = Cat(<<o>>, o.inside)
                         /\ Over(<<o>>, Around(S)) /\ Over(o.inside, Around(S))
<1>1. ASSUME NEW o \in S
      PROVE  Over(<<o>>, Around(S)) /\ Over(o.inside, Around(S))
  <2>1. o \in Around(S) /\ Range(o.inside) \subseteq Around(S)
    BY DEF Around
  <2>2. Over(o.inside, Range(o.inside))
    BY DEF ListedObject, Over
  <2>3. QED
    BY <2>1, <2>2, One, OverMore
<1>2. \A o \in S : WithInside(S)[o] = Cat(<<o>>, o.inside)
  BY DEF WithInside, Cat
<1>3. ASSUME NEW o \in S PROVE <<o>> \o o.inside \in Seq(Around(S))
  <2>1. Over(Cat(<<o>>, o.inside), Around(S))
    BY <1>1, Joined
  <2>2. QED
    BY <2>1 DEF Cat, Over
<1>4. [o \in S |-> <<o>> \o o.inside] \in [S -> Seq(Around(S))]
  BY <1>3
<1>5. QED
  BY <1>1, <1>2, <1>4 DEF Gives, WithInside

(* Flattening collects them.                                               *)
LEMMA FlattenCollected ==
  ASSUME NEW S, NEW items, Over(items, S)
  PROVE  Flatten(items) = Collected(items, WithInside(S))
<1>1. ASSUME NEW i \in DOMAIN items
      PROVE  <<items[i]>> \o items[i].inside = WithInside(S)[items[i]]
  <2>1. items[i] \in S
    BY RangeOf DEF Range
  <2>2. QED
    BY <2>1 DEF WithInside
<1>2. [i \in DOMAIN items |-> <<items[i]>> \o items[i].inside] =
        [i \in DOMAIN items |-> WithInside(S)[items[i]]]
  BY <1>1
<1>3. QED
  BY <1>2 DEF Flatten, Collected, Mapped

(* What is listed is listed with more.                                     *)
LEMMA ListedCat ==
  ASSUME NEW a, NEW b, Listed(a), Listed(b)
  PROVE  /\ Listed(Cat(a, b)) /\ Range(Cat(a, b)) = Range(a) \cup Range(b)
         /\ Flatten(Cat(a, b)) = Cat(Flatten(a), Flatten(b))
         /\ \E T : Over(Flatten(a), T) /\ Over(Flatten(b), T)
<1>1. PICK S : S = Range(a) \cup Range(b)
  OBVIOUS
<1>2. /\ Over(a, Range(a)) /\ Over(b, Range(b))
      /\ \A o \in S : ListedObject(o)
  BY <1>1, ListedIs
<1>3. Over(a, S) /\ Over(b, S)
  BY <1>1, <1>2, OverMore
<1>4. Over(Cat(a, b), S) /\ Range(Cat(a, b)) = S
  BY <1>1, <1>3, RangeCat, Joined
<1>5. Listed(Cat(a, b))
  BY <1>2, <1>4, ListedIs
<1>6. Gives(WithInside(S), S, Seq(Around(S)))
  BY <1>2, WithInsideGives
<1>7. /\ Flatten(Cat(a, b)) = Collected(Cat(a, b), WithInside(S))
      /\ Flatten(a) = Collected(a, WithInside(S)) /\ Flatten(b) = Collected(b, WithInside(S))
  BY <1>3, <1>4, FlattenCollected
<1>8. /\ Over(Collected(a, WithInside(S)), Around(S)) /\ Over(Collected(b, WithInside(S)), Around(S))
      /\ Collected(Cat(a, b), WithInside(S)) =
           Cat(Collected(a, WithInside(S)), Collected(b, WithInside(S)))
  BY <1>3, <1>6, CollectedCat
<1>9. QED
  BY <1>1, <1>4, <1>5, <1>7, <1>8

(* One object is listed with what is inside of it.                         *)
LEMMA ListedOne ==
  ASSUME NEW o, ListedObject(o)
  PROVE  /\ Listed(<<o>>) /\ Range(<<o>>) = {o} /\ Flatten(<<o>>) = Cat(<<o>>, o.inside)
         /\ Range(Flatten(<<o>>)) = {o} \cup Range(o.inside)
         /\ Len(o.inside) \in Nat /\ Len(Flatten(<<o>>)) = 1 + Len(o.inside)
<1>1. PICK S : S = {o}
  OBVIOUS
<1>2. \A x \in S : ListedObject(x)
  BY <1>1
<1>3. Over(<<o>>, S) /\ Range(<<o>>) = S /\ Len(<<o>>) = 1
  BY <1>1, One
<1>4. Listed(<<o>>)
  BY <1>2, <1>3, ListedIs
<1>5. /\ Gives(WithInside(S), S, Seq(Around(S))) /\ WithInside(S)[o] = Cat(<<o>>, o.inside)
      /\ Over(<<o>>, Around(S)) /\ Over(o.inside, Around(S))
  BY <1>1, <1>2, WithInsideGives
<1>6. Flatten(<<o>>) = Cat(<<o>>, o.inside)
  <2>1. Flatten(<<o>>) = Collected(<<o>>, WithInside(S))
    BY <1>3, FlattenCollected
  <2>2. Collected(<<o>>, WithInside(S)) = WithInside(S)[o]
    BY <1>1, <1>5, CollectedOne
  <2>3. QED
    BY <1>5, <2>1, <2>2
<1>7. Range(Cat(<<o>>, o.inside)) = {o} \cup Range(o.inside)
  BY <1>1, <1>3, <1>5, RangeCat
<1>8. Len(o.inside) \in Nat /\ Len(Cat(<<o>>, o.inside)) = 1 + Len(o.inside)
  <2>1. Len(o.inside) \in Nat /\ Len(Cat(<<o>>, o.inside)) = Len(<<o>>) + Len(o.inside)
    BY <1>5, Joined
  <2>2. QED
    BY <1>3, <2>1
<1>9. QED
  BY <1>1, <1>3, <1>4, <1>6, <1>7, <1>8

(* Nothing is listed of nothing.                                           *)
LEMMA ListedEmpty ==
  Listed(<<>>) /\ Flatten(<<>>) = <<>> /\ Range(Flatten(<<>>)) = {} /\ Len(Flatten(<<>>)) = 0
<1>1. Over(<<>>, {})
  BY JoinedEmpty
<1>2. Listed(<<>>)
  BY <1>1, RangeEmpty, ListedIs
<1>3. Flatten(<<>>) = <<>>
  BY <1>1, FlattenCollected, CollectedEmpty
<1>4. QED
  BY <1>2, <1>3, RangeEmpty, EmptySeq

(* All there is in a listed sequence is counted.                           *)
LEMMA FlattenCounted ==
  ASSUME NEW a, Listed(a)
  PROVE  /\ Len(Flatten(a)) \in Nat /\ Over(Flatten(a), Range(Flatten(a)))
         /\ Range(a) \subseteq Range(Flatten(a))
<1>1. PICK S : S = Range(a)
  OBVIOUS
<1>2. Over(a, S) /\ \A o \in S : ListedObject(o)
  BY <1>1, ListedIs
<1>3. Gives(WithInside(S), S, Seq(Around(S)))
  BY <1>2, WithInsideGives
<1>4. Flatten(a) = Collected(a, WithInside(S)) /\ Over(Flatten(a), Around(S))
  BY <1>2, <1>3, FlattenCollected, CollectedTyped
<1>5. Len(Flatten(a)) \in Nat /\ Over(Flatten(a), Range(Flatten(a)))
  BY <1>4, Measured, RangeOf
<1>6. ASSUME NEW o \in Range(a) PROVE o \in Range(Flatten(a))
  <2>1. PICK i \in 1..Len(a) : a[i] = o
    BY <1>2, RangeOf
  <2>2. Len(a) \in Nat /\ i \in Nat /\ i - 1 \in Nat /\ i - 1 <= Len(a) /\ i <= Len(a)
    BY <1>2, Measured
  <2>3. PICK p, q : p = Upto(a, i - 1) /\ q = After(a, i - 1)
    OBVIOUS
  <2>4. Over(p, S) /\ Over(q, S) /\ Len(q) = Len(a) - (i - 1) /\ a = Cat(p, q)
    BY <1>2, <2>2, <2>3, CutJoined
  <2>5. q[1] = o
    <3>1. a \in Seq(S) /\ i - 1 \in 0..Len(a) /\ 1 \in 1..(Len(a) - (i - 1)) /\ i - 1 + 1 = i
      BY <1>2, <2>2 DEF Over
    <3>2. q[1] = a[i - 1 + 1]
      BY <2>3, <3>1, SplitAt
    <3>3. QED
      BY <2>1, <3>1, <3>2
  <2>6. q # <<>>
    <3>1. Len(q) # 0
      BY <2>2, <2>4
    <3>2. QED
      BY <2>4, <3>1, Measured
  <2>7. PICK x \in S : \E t : Over(t, S) /\ q = Cat(<<x>>, t) /\ x = q[1]
    BY <2>4, <2>6, Uncons
  <2>8. PICK t : Over(t, S) /\ q = Cat(<<o>>, t) /\ o \in S
    BY <2>5, <2>7
  <2>9. /\ Flatten(a) = Cat(Collected(p, WithInside(S)), Collected(q, WithInside(S)))
        /\ Over(Collected(p, WithInside(S)), Around(S))
        /\ Over(Collected(q, WithInside(S)), Around(S))
    BY <1>3, <1>4, <2>4, CollectedCat
  <2>10. /\ Collected(q, WithInside(S)) = Cat(WithInside(S)[o], Collected(t, WithInside(S)))
         /\ Over(Collected(t, WithInside(S)), Around(S))
    BY <1>3, <2>8, CollectedCons, CollectedTyped
  <2>11. /\ WithInside(S)[o] = Cat(<<o>>, o.inside)
         /\ Over(<<o>>, Around(S)) /\ Over(o.inside, Around(S))
    BY <1>2, <2>8, WithInsideGives
  <2>12. o \in Range(WithInside(S)[o]) /\ Over(WithInside(S)[o], Around(S))
    <3>1. Range(Cat(<<o>>, o.inside)) = Range(<<o>>) \cup Range(o.inside)
      BY <2>11, RangeCat
    <3>2. o \in Range(<<o>>)
      BY <2>8, One
    <3>3. QED
      BY <2>11, <3>1, <3>2, Joined
  <2>13. o \in Range(Collected(q, WithInside(S)))
    BY <2>10, <2>12, RangeCat
  <2>14. QED
    BY <2>9, <2>13, RangeCat
<1>7. QED
  BY <1>5, <1>6

(* A listed sequence is its first object and those that follow.            *)
LEMMA ListedUncons ==
  ASSUME NEW a, Listed(a), a # <<>>
  PROVE  \E o, t : a = Cat(<<o>>, t) /\ ListedObject(o) /\ Listed(t) /\ Len(a) = Len(t) + 1
<1>1. PICK S : S = Range(a)
  OBVIOUS
<1>2. Over(a, S) /\ \A o \in S : ListedObject(o)
  BY <1>1, ListedIs
<1>3. PICK o \in S : \E t : Over(t, S) /\ a = Cat(<<o>>, t) /\ o = a[1]
  BY <1>2, Uncons
<1>4. PICK t : Over(t, S) /\ a = Cat(<<o>>, t)
  BY <1>3
<1>5. Range(t) \subseteq S /\ Over(t, Range(t))
  BY <1>4, RangeOf
<1>6. Listed(t)
  BY <1>2, <1>5, ListedIs
<1>7. Len(a) = Len(t) + 1
  <2>1. Over(<<o>>, S) /\ Len(<<o>>) = 1
    BY One
  <2>2. Len(a) = Len(<<o>>) + Len(t) /\ Len(t) \in Nat
    BY <1>4, <2>1, Joined
  <2>3. QED
    BY <2>1, <2>2
<1>8. QED
  BY <1>2, <1>4, <1>6, <1>7

(* Numbers of a finite sequence have a bound.                              *)
LEMMA Bounded ==
  ASSUME NEW n \in Nat, NEW s, \A i \in 1..n : s[i] \in Nat
  PROVE  \E d \in Nat : \A i \in 1..n : s[i] <= d
<1> DEFINE Bound(m, d) == \A i \in 1..m : s[i] <= d
           without == {m \in Nat : m <= n /\ ~ \E d \in Nat : Bound(m, d)}
<1>1. SUFFICES ASSUME without # {} PROVE FALSE
  <2>1. n \in Nat /\ n <= n
    OBVIOUS
  <2>2. n \notin without => \E d \in Nat : Bound(n, d)
    BY <2>1
  <2> HIDE DEF without
  <2>3. QED
    BY <2>2
<1>2. PICK m \in Nat : m \in without /\ \A j \in without : m <= j
  <2>1. without \subseteq Nat
    OBVIOUS
  <2> HIDE DEF without
  <2>2. QED
    BY <1>1, <2>1, LeastNumber
<1>3. m # 0
  <2>1. Bound(0, 0)
    OBVIOUS
  <2>2. QED
    BY <1>2, <2>1
<1>4. m - 1 \in Nat /\ m - 1 \notin without /\ m <= n
  <2>1. m <= n /\ m \in Nat
    BY <1>2
  <2>2. m - 1 \in Nat /\ ~ (m <= m - 1)
    BY <1>3
  <2> HIDE DEF without
  <2>3. QED
    BY <1>2, <2>1, <2>2
<1>5. PICK d \in Nat : Bound(m - 1, d)
  <2>1. m - 1 <= n
    BY <1>4
  <2>2. QED
    BY <1>4, <2>1
<1>6. m \in 1..n /\ s[m] \in Nat
  BY <1>3, <1>4
<1>7. PICK e \in Nat : s[m] <= e /\ d <= e
  <2>1. CASE d <= s[m]
    BY <1>6, <2>1
  <2>2. CASE ~ (d <= s[m])
    BY <1>6, <2>2
  <2>3. QED
    BY <2>1, <2>2
<1>8. Bound(m, e)
  <2>1. ASSUME NEW i \in 1..m PROVE s[i] <= e
    <3>1. CASE i = m
      BY <1>7, <3>1
    <3>2. CASE i # m
      <4>1. i \in 1..(m - 1) /\ i \in 1..n
        BY <1>4, <3>2
      <4>2. s[i] <= d /\ s[i] \in Nat
        BY <1>5, <4>1
      <4>3. QED
        BY <1>7, <4>2
    <3>3. QED
      BY <3>1, <3>2
  <2>2. QED
    BY <2>1
<1>9. QED
  BY <1>2, <1>8

(* Of numbers with a bound, none among them, one is the largest.           *)
LEMMA LargestIn ==
  ASSUME NEW S, S \subseteq Nat, 0 \in S, NEW b \in Nat, \A x \in S : x <= b
  PROVE  Max(S) \in S /\ \A x \in S : x <= Max(S)
<1> DEFINE bounds == {d \in Nat : \A x \in S : x <= d}
<1>1. PICK d \in Nat : d \in bounds /\ \A e \in bounds : d <= e
  <2>1. bounds \subseteq Nat /\ bounds # {}
    OBVIOUS
  <2> HIDE DEF bounds
  <2>2. QED
    BY <2>1, LeastNumber
<1>2. \A x \in S : x <= d
  BY <1>1
<1>3. d \in S
  <2>1. CASE d = 0
    BY <2>1
  <2>2. CASE d # 0
    <3>1. d - 1 \in Nat /\ ~ (d <= d - 1)
      BY <2>2
    <3>2. d - 1 \notin bounds
      <4> HIDE DEF bounds
      <4>1. QED
        BY <1>1, <3>1
    <3>3. PICK x \in S : ~ (x <= d - 1)
      BY <3>1, <3>2
    <3>4. x = d
      BY <1>2, <3>1, <3>3
    <3>5. QED
      BY <3>4
  <2>3. QED
    BY <2>1, <2>2
<1>4. \E x \in S : \A y \in S : x >= y
  BY <1>2, <1>3
<1>5. Max(S) \in S /\ \A y \in S : Max(S) >= y
  BY <1>4 DEF Max
<1>6. QED
  BY <1>5

(* The depth of a sequence is that of its deepest object.                  *)
LEMMA DepthBound ==
  ASSUME NEW a, Listed(a)
  PROVE  /\ Depth(a) \in Nat
         /\ \A d \in Nat : Depth(a) <= d <=> \A o \in Range(a) : o.depth <= d
<1>1. PICK S : S = {0} \cup {a[i].depth : i \in DOMAIN a}
  OBVIOUS
<1>2. PICK n : n = Len(a)
  OBVIOUS
<1>3. /\ DOMAIN a = 1..n /\ n \in Nat
      /\ \A x : x \in Range(a) <=> \E i \in 1..n : a[i] = x
      /\ \A o \in Range(a) : o.depth \in Nat
  BY <1>2, ListedIs, RangeOf, Measured DEF ListedObject
<1>4. \A i \in 1..n : a[i].depth \in Nat
  BY <1>3
<1>5. PICK b \in Nat : \A i \in 1..n : a[i].depth <= b
  <2>1. PICK s : s = [i \in 1..n |-> a[i].depth]
    OBVIOUS
  <2>2. \A i \in 1..n : s[i] = a[i].depth /\ s[i] \in Nat
    BY <1>4, <2>1
  <2>3. \E d \in Nat : \A i \in 1..n : s[i] <= d
    BY <1>3, <2>2, Bounded
  <2>4. QED
    BY <2>2, <2>3
<1>6. S \subseteq Nat /\ 0 \in S /\ \A x \in S : x <= b
  BY <1>1, <1>3, <1>4, <1>5
<1>7. Max(S) \in S /\ \A x \in S : x <= Max(S)
  BY <1>6, LargestIn
<1>8. Depth(a) = Max(S)
  BY <1>1 DEF Depth
<1>9. ASSUME NEW d \in Nat
      PROVE  Max(S) <= d <=> \A o \in Range(a) : o.depth <= d
  <2>1. ASSUME Max(S) <= d, NEW o \in Range(a) PROVE o.depth <= d
    <3>1. o.depth \in S
      BY <1>1, <1>3
    <3>2. o.depth <= Max(S) /\ o.depth \in Nat /\ Max(S) \in Nat
      BY <1>6, <1>7, <3>1
    <3>3. QED
      BY <2>1, <3>2
  <2>2. ASSUME \A o \in Range(a) : o.depth <= d PROVE Max(S) <= d
    <3>1. \A x \in S : x <= d
      BY <1>1, <1>3, <2>2
    <3>2. QED
      BY <1>7, <3>1
  <2>3. QED
    BY <2>1, <2>2
<1>10. QED
  BY <1>6, <1>7, <1>8, <1>9

-----------------------------------------------------------------------------
(* The encoding of objects.                                                *)
WrittenObject(o) == o.tag \in Seq(Nat) /\ o.value \in Seq(Nat)
Tlvs(S) == [o \in S |-> Tlv(o)]

(* A sequence of bytes is one of numbers.                                  *)
LEMMA ByteNumbers ==
  ASSUME NEW s, Over(s, Byte)
  PROVE  Over(s, Nat)
<1>1. Byte \subseteq Nat
  BY ByteNat
<1>2. QED
  BY <1>1, OverMore

(* The form of any length, over the longest or not.                        *)
LEMMA FieldNumbers ==
  ASSUME NEW n \in Nat
  PROVE  Over(LengthField(n), Nat) /\ Len(LengthField(n)) \in 1..3
<1>1. CASE n < 128
  <2>1. LengthField(n) = <<n>>
    BY <1>1 DEF LengthField
  <2>2. QED
    BY <2>1, Short1 DEF Over
<1>2. CASE n >= 128 /\ n <= 255
  <2>1. LengthField(n) = <<129, n>>
    BY <1>2 DEF LengthField
  <2>2. QED
    BY <2>1, Short2 DEF Over
<1>3. CASE n > 255
  <2>1. LengthField(n) = <<130, n \div 256, n % 256>>
    BY <1>3 DEF LengthField
  <2>2. n \div 256 \in Nat /\ n % 256 \in Nat /\ 130 \in Nat
    OBVIOUS
  <2>3. QED
    BY <2>1, <2>2, Short3 DEF Over
<1>4. QED
  BY <1>1, <1>2, <1>3

(* The encoding of one object is longer than its value.                    *)
LEMMA TlvNumbers ==
  ASSUME NEW o, WrittenObject(o)
  PROVE  /\ Tlv(o) = TlvOf(o.tag, o.value) /\ Over(TlvOf(o.tag, o.value), Nat)
         /\ Len(o.value) \in Nat /\ Len(TlvOf(o.tag, o.value)) \in Nat
         /\ Len(o.value) < Len(TlvOf(o.tag, o.value))
<1>1. PICK t, v, f : t = o.tag /\ v = o.value /\ f = LengthField(Len(v))
  OBVIOUS
<1>2. Over(t, Nat) /\ Over(v, Nat) /\ Len(v) \in Nat /\ Len(t) \in Nat
  BY <1>1, Measured DEF WrittenObject, Over
<1>3. Over(f, Nat) /\ Len(f) \in 1..3
  BY <1>1, <1>2, FieldNumbers
<1>4. /\ Over(Cat(Cat(t, f), v), Nat) /\ Len(Cat(Cat(t, f), v)) \in Nat
      /\ Len(Cat(Cat(t, f), v)) = Len(t) + Len(f) + Len(v)
  BY <1>2, <1>3, ThreeParts
<1>5. Len(v) < Len(Cat(Cat(t, f), v))
  BY <1>2, <1>3, <1>4
<1>6. TlvOf(t, v) = Cat(Cat(t, f), v)
  BY <1>1 DEF TlvOf
<1>7. Tlv(o) = Cat(Cat(t, f), v)
  BY <1>1 DEF Tlv, Cat
<1>8. QED
  BY <1>1, <1>2, <1>4, <1>5, <1>6, <1>7

(* So does what gives the encoding of each object of a set.                *)
LEMMA TlvsGive ==
  ASSUME NEW S, \A o \in S : WrittenObject(o)
  PROVE  Gives(Tlvs(S), S, Seq(Nat)) /\ \A o \in S : Tlvs(S)[o] = TlvOf(o.tag, o.value)
<1>1. \A o \in S : Tlv(o) \in Seq(Nat) /\ Tlv(o) = TlvOf(o.tag, o.value)
  BY TlvNumbers DEF Over
<1>2. [o \in S |-> Tlv(o)] \in [S -> Seq(Nat)]
  BY <1>1
<1>3. QED
  BY <1>1, <1>2 DEF Tlvs, Gives

(* Encoding collects them.                                                 *)
LEMMA EncodedCollected ==
  ASSUME NEW S, NEW items, Over(items, S)
  PROVE  Encoded(items) = Collected(items, Tlvs(S))
<1>1. ASSUME NEW i \in DOMAIN items
      PROVE  Tlv(items[i]) = Tlvs(S)[items[i]]
  <2>1. items[i] \in S
    BY RangeOf DEF Range
  <2>2. QED
    BY <2>1 DEF Tlvs
<1>2. [i \in DOMAIN items |-> Tlv(items[i])] = [i \in DOMAIN items |-> Tlvs(S)[items[i]]]
  BY <1>1
<1>3. QED
  BY <1>2 DEF Encoded, Collected, Mapped

(* Objects that can be written.                                            *)
Written(items) == Over(items, Range(items)) /\ \A o \in Range(items) : WrittenObject(o)

(* Encoding goes through concatenation.                                    *)
LEMMA EncodedCat ==
  ASSUME NEW a, NEW b, Written(a), Written(b)
  PROVE  /\ Over(Encoded(a), Nat) /\ Over(Encoded(b), Nat)
         /\ Encoded(Cat(a, b)) = Cat(Encoded(a), Encoded(b))
<1>1. PICK S : S = Range(a) \cup Range(b)
  OBVIOUS
<1>2. /\ Over(a, Range(a)) /\ Over(b, Range(b)) /\ \A o \in S : WrittenObject(o)
  BY <1>1 DEF Written
<1>3. Over(a, S) /\ Over(b, S)
  BY <1>1, <1>2, OverMore
<1>4. Over(Cat(a, b), S)
  BY <1>3, Joined
<1>5. Gives(Tlvs(S), S, Seq(Nat))
  BY <1>2, TlvsGive
<1>6. /\ Encoded(a) = Collected(a, Tlvs(S)) /\ Encoded(b) = Collected(b, Tlvs(S))
      /\ Encoded(Cat(a, b)) = Collected(Cat(a, b), Tlvs(S))
  BY <1>3, <1>4, EncodedCollected
<1>7. /\ Over(Collected(a, Tlvs(S)), Nat) /\ Over(Collected(b, Tlvs(S)), Nat)
      /\ Collected(Cat(a, b), Tlvs(S)) = Cat(Collected(a, Tlvs(S)), Collected(b, Tlvs(S)))
  BY <1>3, <1>5, CollectedCat
<1>8. QED
  BY <1>6, <1>7

(* Of one object.                                                          *)
LEMMA EncodedOne ==
  ASSUME NEW o, WrittenObject(o)
  PROVE  Written(<<o>>) /\ Encoded(<<o>>) = TlvOf(o.tag, o.value)
<1>1. PICK S : S = {o}
  OBVIOUS
<1>2. o \in S /\ \A x \in S : WrittenObject(x)
  BY <1>1
<1>3. Over(<<o>>, S) /\ Range(<<o>>) = S
  BY <1>1, <1>2, One
<1>4. Gives(Tlvs(S), S, Seq(Nat)) /\ Tlvs(S)[o] = TlvOf(o.tag, o.value)
  BY <1>2, TlvsGive
<1>5. Encoded(<<o>>) = Collected(<<o>>, Tlvs(S))
  BY <1>3, EncodedCollected
<1>6. Collected(<<o>>, Tlvs(S)) = Tlvs(S)[o]
  BY <1>2, <1>4, CollectedOne
<1>7. QED
  BY <1>2, <1>3, <1>4, <1>5, <1>6 DEF Written

(* Of none.                                                                *)
LEMMA EncodedEmpty == Encoded(<<>>) = <<>>
<1>1. Over(<<>>, {})
  BY JoinedEmpty
<1>2. QED
  BY <1>1, EncodedCollected, CollectedEmpty

-----------------------------------------------------------------------------
(* Objects whose values are the encodings of their children.               *)

(* One object in front of others.                                          *)
LEMMA ListedCons ==
  ASSUME NEW o, NEW t, ListedObject(o), Listed(t)
  PROVE  /\ Listed(Cat(<<o>>, t)) /\ Range(Cat(<<o>>, t)) = {o} \cup Range(t)
         /\ Range(Flatten(Cat(<<o>>, t))) = {o} \cup Range(o.inside) \cup Range(Flatten(t))
         /\ Len(Flatten(Cat(<<o>>, t))) = 1 + Len(o.inside) + Len(Flatten(t))
         /\ Len(o.inside) \in Nat /\ Len(Flatten(t)) \in Nat
         /\ Cat(<<o>>, t) # <<>>
<1>1. PICK a : a = <<o>>
  OBVIOUS
<1>2. /\ Listed(a) /\ Range(a) = {o} /\ Range(Flatten(a)) = {o} \cup Range(o.inside)
      /\ Len(o.inside) \in Nat /\ Len(Flatten(a)) = 1 + Len(o.inside)
  BY <1>1, ListedOne
<1>3. /\ Listed(Cat(a, t)) /\ Range(Cat(a, t)) = Range(a) \cup Range(t)
      /\ Flatten(Cat(a, t)) = Cat(Flatten(a), Flatten(t))
      /\ \E T : Over(Flatten(a), T) /\ Over(Flatten(t), T)
  BY <1>2, ListedCat
<1>4. PICK T : Over(Flatten(a), T) /\ Over(Flatten(t), T)
  BY <1>3
<1>5. Range(Cat(Flatten(a), Flatten(t))) = Range(Flatten(a)) \cup Range(Flatten(t))
  BY <1>4, RangeCat
<1>6. /\ Len(Cat(Flatten(a), Flatten(t))) = Len(Flatten(a)) + Len(Flatten(t))
      /\ Len(Flatten(t)) \in Nat
  BY <1>4, Joined
<1>7. Cat(a, t) # <<>>
  <2>1. o \in Range(Cat(a, t))
    BY <1>2, <1>3
  <2>2. QED
    BY <2>1, RangeEmpty
<1>8. QED
  BY <1>1, <1>2, <1>3, <1>5, <1>6, <1>7

(* What a proper object is made of.                                        *)
LEMMA ProperParts ==
  ASSUME NEW o, ProperObject(o)
  PROVE  /\ WrittenObject(o) /\ ListedObject(o) /\ Listed(o.children)
         /\ Over(o.tag, Byte) /\ ValidDataTag(o.tag) /\ Over(o.value, Byte)
         /\ o.inside = Flatten(o.children) /\ o.constructed = Constructed(o.tag[1])
         /\ o.depth = IF Constructed(o.tag[1]) THEN 1 + Depth(o.children) ELSE 0
         /\ o = Object(o.tag, o.value, o.children)
<1>1. /\ o.tag \in Seq(Byte) /\ ValidDataTag(o.tag) /\ o.value \in Seq(Byte)
      /\ o = Object(o.tag, o.value, o.children) /\ Listed(o.children)
  BY DEF ProperObject
<1>2. Over(o.tag, Nat) /\ Over(o.value, Nat)
  BY <1>1, ByteNumbers DEF Over
<1>3. /\ o.inside = Flatten(o.children) /\ o.constructed = Constructed(o.tag[1])
      /\ o.depth = IF Constructed(o.tag[1]) THEN 1 + Depth(o.children) ELSE 0
  <2>1. PICK t, v, c : t = o.tag /\ v = o.value /\ c = o.children
    OBVIOUS
  <2>2. o = Object(t, v, c)
    BY <1>1, <2>1
  <2>3. QED
    BY <2>1, <2>2 DEF Object
<1>4. Over(Flatten(o.children), Range(Flatten(o.children))) /\ Depth(o.children) \in Nat
  BY <1>1, FlattenCounted, DepthBound
<1>5. ListedObject(o)
  BY <1>3, <1>4 DEF ListedObject, Over
<1>6. QED
  BY <1>1, <1>2, <1>3, <1>5 DEF WrittenObject, Over

(* Proper objects can be written.                                          *)
LEMMA ProperWritten ==
  ASSUME NEW a, Proper(a)
  PROVE  /\ Listed(a) /\ Written(a) /\ \A o \in Range(a) : ProperObject(o)
         /\ Over(Encoded(a), Nat) /\ Len(Encoded(a)) \in Nat
<1>1. Listed(a) /\ \A o \in Range(Flatten(a)) : ProperObject(o)
  BY DEF Proper
<1>2. \A o \in Range(a) : ProperObject(o)
  BY <1>1, FlattenCounted
<1>3. Over(a, Range(a)) /\ \A o \in Range(a) : WrittenObject(o)
  BY <1>1, <1>2, ListedIs, ProperParts
<1>4. Written(a)
  BY <1>3 DEF Written
<1>5. Over(Encoded(a), Nat)
  BY <1>4, EncodedCat
<1>6. Len(Encoded(a)) \in Nat
  BY <1>5, Measured
<1>7. QED
  BY <1>1, <1>2, <1>4, <1>5, <1>6

(* There is nothing improper in nothing.                                   *)
LEMMA ProperEmpty == Proper(<<>>)
  BY ListedEmpty DEF Proper

(* An object in front of others is proper if it is, what is in it, and     *)
(* the others.                                                             *)
LEMMA ProperCons ==
  ASSUME NEW o, NEW t, ProperObject(o), Proper(o.children), Proper(t)
  PROVE  /\ Proper(Cat(<<o>>, t)) /\ Cat(<<o>>, t) # <<>>
         /\ Encoded(Cat(<<o>>, t)) = Cat(TlvOf(o.tag, o.value), Encoded(t))
         /\ Range(Cat(<<o>>, t)) = {o} \cup Range(t)
         /\ Range(Flatten(Cat(<<o>>, t))) =
              {o} \cup Range(Flatten(o.children)) \cup Range(Flatten(t))
         /\ Len(Flatten(Cat(<<o>>, t))) = 1 + Len(Flatten(o.children)) + Len(Flatten(t))
         /\ Len(Flatten(o.children)) \in Nat /\ Len(Flatten(t)) \in Nat
<1>1. /\ WrittenObject(o) /\ ListedObject(o) /\ o.inside = Flatten(o.children)
  BY ProperParts
<1>2. Listed(t) /\ Written(t)
  BY ProperWritten
<1>3. PICK a : a = Cat(<<o>>, t)
  OBVIOUS
<1>4. /\ Listed(a) /\ Range(a) = {o} \cup Range(t)
      /\ Range(Flatten(a)) = {o} \cup Range(Flatten(o.children)) \cup Range(Flatten(t))
      /\ Len(Flatten(a)) = 1 + Len(Flatten(o.children)) + Len(Flatten(t))
      /\ Len(Flatten(o.children)) \in Nat /\ Len(Flatten(t)) \in Nat
      /\ a # <<>>
  <2>1. /\ Listed(Cat(<<o>>, t)) /\ Range(Cat(<<o>>, t)) = {o} \cup Range(t)
        /\ Range(Flatten(Cat(<<o>>, t))) = {o} \cup Range(o.inside) \cup Range(Flatten(t))
        /\ Len(Flatten(Cat(<<o>>, t))) = 1 + Len(o.inside) + Len(Flatten(t))
        /\ Len(o.inside) \in Nat /\ Len(Flatten(t)) \in Nat
        /\ Cat(<<o>>, t) # <<>>
    BY <1>1, <1>2, ListedCons
  <2>2. QED
    BY <1>1, <1>3, <2>1
<1>5. Proper(a)
  BY <1>4 DEF Proper
<1>6. Encoded(a) = Cat(TlvOf(o.tag, o.value), Encoded(t))
  <2>1. Written(<<o>>) /\ Encoded(<<o>>) = TlvOf(o.tag, o.value)
    BY <1>1, EncodedOne
  <2>2. Encoded(Cat(<<o>>, t)) = Cat(Encoded(<<o>>), Encoded(t))
    BY <1>2, <2>1, EncodedCat
  <2>3. QED
    BY <1>3, <2>1, <2>2
<1>7. QED
  BY <1>3, <1>4, <1>5, <1>6

(* And only then.                                                          *)
LEMMA ProperUncons ==
  ASSUME NEW a, Proper(a), a # <<>>
  PROVE  \E o, t : /\ a = Cat(<<o>>, t) /\ ProperObject(o)
                   /\ Proper(o.children) /\ Proper(t)
<1>1. Listed(a) /\ \A x \in Range(Flatten(a)) : ProperObject(x)
  BY DEF Proper
<1>2. PICK o, t : a = Cat(<<o>>, t) /\ ListedObject(o) /\ Listed(t)
  BY <1>1, ListedUncons
<1>3. Range(Flatten(a)) = {o} \cup Range(o.inside) \cup Range(Flatten(t))
  BY <1>2, ListedCons
<1>4. ProperObject(o)
  BY <1>1, <1>3
<1>5. o.inside = Flatten(o.children) /\ Listed(o.children)
  BY <1>4, ProperParts
<1>6. Proper(o.children) /\ Proper(t)
  BY <1>1, <1>2, <1>3, <1>5 DEF Proper
<1>7. QED
  BY <1>2, <1>4, <1>6

(* Two proper sequences make one.                                          *)
LEMMA ProperCat ==
  ASSUME NEW a, NEW b, Proper(a), Proper(b)
  PROVE  Proper(Cat(a, b)) /\ Encoded(Cat(a, b)) = Cat(Encoded(a), Encoded(b))
<1>1. Listed(a) /\ Listed(b) /\ Written(a) /\ Written(b)
  BY ProperWritten
<1>2. /\ Listed(Cat(a, b)) /\ Flatten(Cat(a, b)) = Cat(Flatten(a), Flatten(b))
      /\ \E T : Over(Flatten(a), T) /\ Over(Flatten(b), T)
  BY <1>1, ListedCat
<1>3. Range(Cat(Flatten(a), Flatten(b))) = Range(Flatten(a)) \cup Range(Flatten(b))
  BY <1>2, RangeCat
<1>4. Proper(Cat(a, b))
  BY <1>2, <1>3 DEF Proper
<1>5. QED
  BY <1>1, <1>4, EncodedCat

(* The encoding of an object in front of others is that much longer.       *)
LEMMA EncodedMeasured ==
  ASSUME NEW o, NEW t, ProperObject(o), Proper(t)
  PROVE  /\ Over(TlvOf(o.tag, o.value), Nat) /\ Over(Encoded(t), Nat)
         /\ Len(o.value) \in Nat /\ Len(Encoded(t)) \in Nat
         /\ Len(Cat(TlvOf(o.tag, o.value), Encoded(t))) =
              Len(TlvOf(o.tag, o.value)) + Len(Encoded(t))
         /\ Len(o.value) < Len(TlvOf(o.tag, o.value))
         /\ Len(TlvOf(o.tag, o.value)) \in Nat
<1>1. PICK x, y : x = TlvOf(o.tag, o.value) /\ y = Encoded(t)
  OBVIOUS
<1>2. Over(x, Nat) /\ Len(o.value) \in Nat /\ Len(x) \in Nat /\ Len(o.value) < Len(x)
  BY <1>1, ProperParts, TlvNumbers
<1>3. Over(y, Nat) /\ Len(y) \in Nat
  BY <1>1, ProperWritten
<1>4. Len(Cat(x, y)) = Len(x) + Len(y)
  BY <1>2, <1>3, Joined
<1>5. QED
  BY <1>1, <1>2, <1>3, <1>4

(* An encoding that is not too long is one of bytes.                       *)
LEMMA EncodedBytes ==
  ASSUME NEW a, Proper(a), Len(Encoded(a)) <= LongestLength
  PROVE  Over(Encoded(a), Byte)
<1> DEFINE Wrong(c) == Proper(c) /\ Len(Encoded(c)) <= LongestLength /\ ~ Over(Encoded(c), Byte)
           wrong == {n \in Nat : \E c : Len(Encoded(c)) = n /\ Wrong(c)}
<1>1. SUFFICES ASSUME wrong # {} PROVE FALSE
  <2>1. Len(Encoded(a)) \in Nat
    BY ProperWritten
  <2>2. QED
    BY <2>1
<1>2. PICK n \in Nat : n \in wrong /\ \A m \in wrong : n <= m
  <2>1. wrong \subseteq Nat
    OBVIOUS
  <2> HIDE DEF wrong
  <2>2. QED
    BY <1>1, <2>1, LeastNumber
<1>3. PICK c : Len(Encoded(c)) = n /\ Wrong(c)
  BY <1>2
<1>4. c # <<>>
  BY <1>3, EncodedEmpty, JoinedEmpty
<1>5. PICK o, t : /\ c = Cat(<<o>>, t) /\ ProperObject(o)
                  /\ Proper(o.children) /\ Proper(t)
  BY <1>3, <1>4, ProperUncons
<1>6. Encoded(c) = Cat(TlvOf(o.tag, o.value), Encoded(t))
  BY <1>5, ProperCons
<1>7. PICK x, y : x = TlvOf(o.tag, o.value) /\ y = Encoded(t)
  OBVIOUS
<1>8. /\ Len(Encoded(c)) = Len(x) + Len(y) /\ Len(x) \in Nat /\ Len(y) \in Nat
      /\ Len(o.value) < Len(x) /\ Len(o.value) \in Nat
  BY <1>5, <1>6, <1>7, EncodedMeasured
<1>9. Len(y) < n /\ Len(y) <= LongestLength /\ Len(o.value) <= LongestLength
  BY <1>3, <1>8, LongestTyped
<1>10. Over(y, Byte)
  <2>1. Len(y) \notin wrong
    <3>1. ~ (n <= Len(y))
      BY <1>8, <1>9
    <3> HIDE DEF wrong
    <3>2. QED
      BY <1>2, <3>1
  <2>2. ~ Wrong(t)
    <3> HIDE DEF Wrong
    <3>1. QED
      BY <1>7, <1>8, <2>1
  <2>3. QED
    BY <1>5, <1>7, <1>9, <2>2
<1>11. Over(x, Byte)
  BY <1>5, <1>7, <1>9, ProperParts, TlvTyped
<1>12. Over(Cat(x, y), Byte)
  BY <1>10, <1>11, Joined
<1>13. QED
  BY <1>3, <1>6, <1>7, <1>12

-----------------------------------------------------------------------------
(* What the parser reads is what is there.                                 *)

(* What it returns for a place: proper objects with these very bytes for   *)
(* an encoding, each counted, none too deep and none too long.             *)
ShortValues(items) == \A o \in Range(Flatten(items)) : Len(o.value) <= MaxValueLength
Sound(p, r) ==
  r.ok => /\ Proper(r.items) /\ Encoded(r.items) = p.bytes /\ ShortValues(r.items)
          /\ r.nodes = p.nodes + Len(Flatten(r.items))
          /\ p.nodes <= MaxNodes => r.nodes <= MaxNodes
          /\ p.depth <= MaxDepth
          /\ \A o \in Range(r.items) : p.depth + o.depth <= MaxDepth

(* The limits are numbers.                                                 *)
LEMMA LimitsTyped == MaxDepth \in Nat /\ MaxNodes \in Nat /\ MaxDepth > 0
  BY EncodingAssumption

(* The first object is proper, with what is in its value.                  *)
LEMMA InnerSound ==
  ASSUME NEW p \in ObjectPlaces, p.depth <= MaxDepth, ~ (p.nodes >= MaxNodes),
         NEW h \in Heads(p.bytes),
         \A q \in ObjectPlaces : Shorter(q, p) => Sound(q, ParseSequence[q]),
         NEW u, u = Inner(h, p, ParseSequence), u.ok,
         NEW o, o = Object(h.tag, h.value, u.items)
  PROVE  /\ ProperObject(o) /\ Proper(u.items) /\ ShortValues(u.items)
         /\ o.children = u.items /\ o.tag = h.tag /\ o.value = h.value
         /\ u.nodes = p.nodes + 1 + Len(Flatten(u.items)) /\ u.nodes <= MaxNodes
         /\ p.depth + o.depth <= MaxDepth
<1>1. p.bytes \in Seq(Byte) /\ p.depth \in Nat /\ p.nodes \in Nat
  BY DEF ObjectPlaces
<1>2. /\ h.tag \in Seq(Byte) /\ ValidDataTag(h.tag) /\ h.value \in Seq(Byte)
      /\ Len(h.value) < Len(p.bytes)
  BY <1>1, HeadSound
<1>3. /\ o.tag = h.tag /\ o.value = h.value /\ o.children = u.items
      /\ o.constructed = Constructed(h.tag[1])
      /\ o.depth = IF Constructed(h.tag[1]) THEN 1 + Depth(u.items) ELSE 0
  BY DEF Object
<1>4. CASE Constructed(h.tag[1])
  <2>1. PICK q : q = At(h.value, p.depth + 1, p.nodes + 1)
    OBVIOUS
  <2>2. /\ q \in ObjectPlaces /\ Shorter(q, p) /\ u = ParseSequence[q]
        /\ q.bytes = h.value /\ q.depth = p.depth + 1 /\ q.nodes = p.nodes + 1
    BY <1>1, <1>2, <1>4, <2>1 DEF ObjectPlaces, At, Shorter, Inner
  <2>3. /\ Proper(u.items) /\ Encoded(u.items) = h.value /\ ShortValues(u.items)
        /\ u.nodes = p.nodes + 1 + Len(Flatten(u.items))
        /\ p.nodes + 1 <= MaxNodes => u.nodes <= MaxNodes
        /\ p.depth + 1 <= MaxDepth
        /\ \A c \in Range(u.items) : p.depth + 1 + c.depth <= MaxDepth
    BY <2>2 DEF Sound
  <2>4. ProperObject(o)
    <3>1. Listed(u.items)
      BY <2>3, ProperWritten
    <3>2. QED
      BY <1>2, <1>3, <1>4, <2>3, <3>1 DEF ProperObject
  <2>5. u.nodes <= MaxNodes
    BY <1>1, <2>3, LimitsTyped
  <2>6. p.depth + o.depth <= MaxDepth
    <3>1. Listed(u.items) /\ \A c \in Range(u.items) : c.depth \in Nat
      BY <2>3, ProperWritten, ListedIs DEF ListedObject
    <3>2. PICK d : d = MaxDepth - (p.depth + 1)
      OBVIOUS
    <3>3. d \in Nat /\ \A c \in Range(u.items) : c.depth <= d
      BY <1>1, <2>3, <3>1, <3>2, LimitsTyped
    <3>4. Depth(u.items) \in Nat /\ Depth(u.items) <= d
      BY <3>1, <3>3, DepthBound
    <3>5. o.depth = 1 + Depth(u.items)
      BY <1>3, <1>4
    <3>6. QED
      BY <1>1, <3>2, <3>4, <3>5, LimitsTyped
  <2>7. QED
    BY <1>3, <2>3, <2>4, <2>5, <2>6
<1>5. CASE ~ Constructed(h.tag[1])
  <2>1. u.items = <<>> /\ u.nodes = p.nodes + 1
    BY <1>5 DEF Inner, Sequence
  <2>2. Proper(u.items) /\ ShortValues(u.items) /\ Len(Flatten(u.items)) = 0
    BY <2>1, ProperEmpty, ListedEmpty DEF ShortValues
  <2>3. ProperObject(o)
    <3>1. Listed(u.items)
      BY <2>2, ProperWritten
    <3>2. QED
      BY <1>2, <1>3, <1>5, <2>1, <3>1 DEF ProperObject
  <2>4. u.nodes = p.nodes + 1 + Len(Flatten(u.items)) /\ u.nodes <= MaxNodes
    BY <1>1, <2>1, <2>2, LimitsTyped
  <2>5. p.depth + o.depth <= MaxDepth
    BY <1>1, <1>3, <1>5
  <2>6. QED
    BY <1>3, <2>2, <2>3, <2>4, <2>5
<1>6. QED
  BY <1>4, <1>5

(* And the others with it.                                                 *)
LEMMA StepSound ==
  ASSUME NEW p \in ObjectPlaces,
         \A q \in ObjectPlaces : Shorter(q, p) => Sound(q, ParseSequence[q])
  PROVE  Sound(p, ParseSequence[p])
<1>1. p.bytes \in Seq(Byte) /\ p.depth \in Nat /\ p.nodes \in Nat
  BY DEF ObjectPlaces
<1>2. PICK h : h = OnlyElement(Heads(p.bytes))
  OBVIOUS
<1>3. ParseSequence[p] =
        IF p.depth > MaxDepth THEN NoSequence
        ELSE IF p.bytes = <<>> THEN Sequence(<<>>, p.nodes)
        ELSE IF p.nodes >= MaxNodes \/ Heads(p.bytes) = {} THEN NoSequence
        ELSE WithHead(h, p, ParseSequence)
  <2>1. ParseSequence[p] = SequenceStep(p, ParseSequence)
    BY ParseSequenceStep
  <2>2. QED
    BY <1>2, <2>1, SequenceCases
<1>4. CASE p.depth > MaxDepth
  BY <1>3, <1>4 DEF Sound, NoSequence
<1>5. CASE p.depth <= MaxDepth /\ p.bytes = <<>>
  <2>1. ~ (p.depth > MaxDepth)
    BY <1>1, <1>5, LimitsTyped
  <2>2. ParseSequence[p] = Sequence(<<>>, p.nodes)
    BY <1>3, <1>5, <2>1
  <2>3. Range(<<>>) = {} /\ p.nodes + 0 = p.nodes
    BY <1>1, RangeEmpty
  <2>4. QED
    BY <1>5, <2>2, <2>3, ProperEmpty, EncodedEmpty, ListedEmpty
       DEF Sound, Sequence, ShortValues
<1>6. CASE p.depth <= MaxDepth /\ p.bytes # <<>> /\ (p.nodes >= MaxNodes \/ Heads(p.bytes) = {})
  <2>1. ~ (p.depth > MaxDepth)
    BY <1>1, <1>6, LimitsTyped
  <2>2. QED
    BY <1>3, <1>6, <2>1 DEF Sound, NoSequence
<1>7. CASE /\ p.depth <= MaxDepth /\ p.bytes # <<>>
           /\ ~ (p.nodes >= MaxNodes) /\ Heads(p.bytes) # {}
  <2>1. ParseSequence[p] = WithHead(h, p, ParseSequence)
    <3>1. ~ (p.depth > MaxDepth)
      BY <1>1, <1>7, LimitsTyped
    <3>2. QED
      BY <1>3, <1>7, <3>1
  <2>2. PICK u, w : u = Inner(h, p, ParseSequence) /\ w = Further(h, p, ParseSequence)
    OBVIOUS
  <2>3. SUFFICES ASSUME u.ok, w.ok
                 PROVE  Sound(p, ParseSequence[p])
    BY <2>1, <2>2 DEF WithHead, Sound, NoSequence
  <2>4. PICK o, a : o = Object(h.tag, h.value, u.items) /\ a = Cat(<<o>>, w.items)
    OBVIOUS
  <2>5. ParseSequence[p] = Sequence(a, w.nodes)
    BY <2>1, <2>2, <2>3, <2>4 DEF WithHead, Cat
  <2>6. h \in Heads(p.bytes)
    BY <1>2, <1>7, OnlyElementIn
  <2>7. /\ h.rest \in Seq(Byte) /\ p.bytes = Cat(TlvOf(h.tag, h.value), h.rest)
        /\ Len(h.rest) < Len(p.bytes) /\ Len(h.value) <= MaxValueLength
    BY <1>1, <2>6, HeadSound
  <2>8. /\ ProperObject(o) /\ Proper(u.items) /\ ShortValues(u.items)
        /\ o.children = u.items /\ o.tag = h.tag /\ o.value = h.value
        /\ u.nodes = p.nodes + 1 + Len(Flatten(u.items)) /\ u.nodes <= MaxNodes
        /\ p.depth + o.depth <= MaxDepth
    BY <1>7, <2>2, <2>3, <2>4, <2>6, InnerSound
  <2>9. Len(Flatten(u.items)) \in Nat /\ u.nodes \in Nat
    <3>1. Len(Flatten(u.items)) \in Nat
      BY <2>8, ProperWritten, FlattenCounted
    <3>2. QED
      BY <1>1, <2>8, <3>1
  <2>10. PICK q : q = At(h.rest, p.depth, u.nodes)
    OBVIOUS
  <2>11. /\ q \in ObjectPlaces /\ Shorter(q, p) /\ w = ParseSequence[q]
         /\ q.bytes = h.rest /\ q.depth = p.depth /\ q.nodes = u.nodes
    BY <1>1, <2>2, <2>7, <2>9, <2>10 DEF ObjectPlaces, At, Shorter, Further
  <2>12. /\ Proper(w.items) /\ Encoded(w.items) = h.rest /\ ShortValues(w.items)
         /\ w.nodes = u.nodes + Len(Flatten(w.items)) /\ w.nodes <= MaxNodes
         /\ \A x \in Range(w.items) : p.depth + x.depth <= MaxDepth
    BY <2>3, <2>8, <2>11 DEF Sound
  <2>13. /\ Proper(a) /\ Encoded(a) = Cat(TlvOf(h.tag, h.value), h.rest)
         /\ Range(a) = {o} \cup Range(w.items)
         /\ Range(Flatten(a)) = {o} \cup Range(Flatten(u.items)) \cup Range(Flatten(w.items))
         /\ Len(Flatten(a)) = 1 + Len(Flatten(u.items)) + Len(Flatten(w.items))
         /\ Len(Flatten(w.items)) \in Nat
    <3>1. PICK t : t = w.items
      OBVIOUS
    <3>2. Proper(o.children) /\ Proper(t)
      BY <2>8, <2>12, <3>1
    <3>3. /\ Proper(Cat(<<o>>, t))
          /\ Encoded(Cat(<<o>>, t)) = Cat(TlvOf(o.tag, o.value), Encoded(t))
          /\ Range(Cat(<<o>>, t)) = {o} \cup Range(t)
          /\ Range(Flatten(Cat(<<o>>, t))) =
               {o} \cup Range(Flatten(o.children)) \cup Range(Flatten(t))
          /\ Len(Flatten(Cat(<<o>>, t))) = 1 + Len(Flatten(o.children)) + Len(Flatten(t))
          /\ Len(Flatten(t)) \in Nat
      BY <2>8, <3>2, ProperCons
    <3>4. QED
      BY <2>4, <2>8, <2>12, <3>1, <3>3
  <2>14. w.nodes = p.nodes + Len(Flatten(a))
    BY <1>1, <2>8, <2>9, <2>12, <2>13
  <2>15. ShortValues(a)
    BY <2>7, <2>8, <2>12, <2>13 DEF ShortValues
  <2>16. \A x \in Range(a) : p.depth + x.depth <= MaxDepth
    BY <2>8, <2>12, <2>13
  <2>17. Encoded(a) = p.bytes
    BY <2>7, <2>13
  <2>18. QED
    BY <1>7, <2>5, <2>12, <2>13, <2>14, <2>15, <2>16, <2>17 DEF Sound, Sequence
<1>8. QED
  BY <1>1, <1>4, <1>5, <1>6, <1>7, LimitsTyped

(* So everything it reads is sound: there would be a shortest that is not. *)
LEMMA ParseSound ==
  ASSUME NEW p \in ObjectPlaces
  PROVE  Sound(p, ParseSequence[p])
<1> DEFINE Wrong(q) == ~ Sound(q, ParseSequence[q])
           wrong == {n \in Nat : \E q \in ObjectPlaces : Len(q.bytes) = n /\ Wrong(q)}
<1>0. \A q \in ObjectPlaces : Len(q.bytes) \in Nat
  BY LenProperties DEF ObjectPlaces
<1>1. SUFFICES ASSUME wrong # {} PROVE FALSE
  BY <1>0
<1>2. PICK n \in Nat : n \in wrong /\ \A m \in wrong : n <= m
  <2>1. wrong \subseteq Nat
    OBVIOUS
  <2> HIDE DEF wrong
  <2>2. QED
    BY <1>1, <2>1, LeastNumber
<1>3. PICK q \in ObjectPlaces : Len(q.bytes) = n /\ Wrong(q)
  BY <1>2
<1>4. ASSUME NEW r \in ObjectPlaces, Shorter(r, q)
      PROVE  ~ Wrong(r)
  <2>1. Len(r.bytes) \in Nat /\ ~ (n <= Len(r.bytes))
    BY <1>0, <1>3, <1>4 DEF Shorter
  <2>2. Len(r.bytes) \notin wrong
    <3> HIDE DEF wrong
    <3>1. QED
      BY <1>2, <2>1
  <2> HIDE DEF Wrong
  <2>3. QED
    BY <2>1, <2>2
<1>5. QED
  BY <1>3, <1>4, StepSound

-----------------------------------------------------------------------------
(* What was encoded within the limits is read again.                       *)

(* The limits seen from a place.                                           *)
Fits(items, p) ==
  /\ p.depth <= MaxDepth /\ \A o \in Range(items) : p.depth + o.depth <= MaxDepth
  /\ p.nodes + Len(Flatten(items)) <= MaxNodes /\ ShortValues(items)
Complete(items, p) ==
  ParseSequence[p] = IF Fits(items, p) THEN Sequence(items, p.nodes + Len(Flatten(items)))
                     ELSE NoSequence

(* Objects and the place where their encoding is.                          *)
EncodedAt(items, p) ==
  /\ Proper(items) /\ p \in ObjectPlaces /\ p.nodes <= MaxNodes
  /\ Encoded(items) = p.bytes /\ Len(p.bytes) <= LongestLength

(* Seen from the place of an object.                                       *)
InnerFits(o, p) ==
  /\ p.depth + o.depth <= MaxDepth /\ p.nodes + 1 + Len(Flatten(o.children)) <= MaxNodes
  /\ ShortValues(o.children)

(* What is in an object is read again.                                     *)
LEMMA InnerComplete ==
  ASSUME NEW p \in ObjectPlaces, ~ (p.nodes >= MaxNodes), Len(p.bytes) <= LongestLength,
         NEW o, ProperObject(o), Proper(o.children), Len(o.value) < Len(p.bytes),
         \A c, q : EncodedAt(c, q) /\ Shorter(q, p) => Complete(c, q),
         NEW r
  PROVE  LET h == [tag |-> o.tag, value |-> o.value, rest |-> r] IN
         p.depth <= MaxDepth =>
           Inner(h, p, ParseSequence) =
             IF InnerFits(o, p) THEN Sequence(o.children, p.nodes + 1 + Len(Flatten(o.children)))
             ELSE NoSequence
<1>1. SUFFICES ASSUME p.depth <= MaxDepth,
                      NEW h, h = [tag |-> o.tag, value |-> o.value, rest |-> r]
               PROVE  Inner(h, p, ParseSequence) =
                        IF InnerFits(o, p)
                        THEN Sequence(o.children, p.nodes + 1 + Len(Flatten(o.children)))
                        ELSE NoSequence
  OBVIOUS
<1>2. h.tag = o.tag /\ h.value = o.value
  BY <1>1
<1>3. p.bytes \in Seq(Byte) /\ p.depth \in Nat /\ p.nodes \in Nat /\ Len(p.bytes) \in Nat
  BY LenProperties DEF ObjectPlaces
<1>4. /\ o.value \in Seq(Byte) /\ o.constructed = Constructed(o.tag[1])
      /\ o.depth = IF Constructed(o.tag[1]) THEN 1 + Depth(o.children) ELSE 0
      /\ IF o.constructed THEN o.value = Encoded(o.children) ELSE o.children = <<>>
  BY ProperParts DEF ProperObject, Over
<1>5. Len(o.value) \in Nat /\ Len(o.value) <= LongestLength
  <2>1. Len(o.value) \in Nat
    BY <1>4, LenProperties
  <2>2. QED
    BY <1>3, <2>1, LongestTyped
<1>6. CASE Constructed(o.tag[1])
  <2>1. PICK q : q = At(o.value, p.depth + 1, p.nodes + 1)
    OBVIOUS
  <2>2. /\ q \in ObjectPlaces /\ Shorter(q, p)
        /\ q.bytes = o.value /\ q.depth = p.depth + 1 /\ q.nodes = p.nodes + 1
    BY <1>3, <1>4, <2>1 DEF ObjectPlaces, At, Shorter
  <2>3. Inner(h, p, ParseSequence) = ParseSequence[q]
    BY <1>2, <1>6, <2>1 DEF Inner
  <2>4. q.nodes <= MaxNodes
    BY <1>3, <2>2, LimitsTyped
  <2>5. EncodedAt(o.children, q)
    BY <1>4, <1>5, <1>6, <2>2, <2>4 DEF EncodedAt
  <2>6. Complete(o.children, q)
    BY <2>2, <2>5
  <2>7. Fits(o.children, q) <=> InnerFits(o, p)
    <3>1. Listed(o.children) /\ \A c \in Range(o.children) : c.depth \in Nat
      BY ProperWritten, ListedIs DEF ListedObject
    <3>2. /\ Depth(o.children) \in Nat
          /\ \A d \in Nat : Depth(o.children) <= d <=> \A c \in Range(o.children) : c.depth <= d
      BY <3>1, DepthBound
    <3>3. CASE p.depth + 1 <= MaxDepth
      <4>1. PICK d : d = MaxDepth - (p.depth + 1)
        OBVIOUS
      <4>2. d \in Nat
        BY <1>3, <3>3, <4>1, LimitsTyped
      <4>3. \A c \in Range(o.children) : q.depth + c.depth <= MaxDepth <=> c.depth <= d
        BY <1>3, <2>2, <3>1, <4>1, LimitsTyped
      <4>4. p.depth + o.depth <= MaxDepth <=> Depth(o.children) <= d
        BY <1>3, <1>4, <1>6, <3>2, <4>1, LimitsTyped
      <4>5. p.depth + o.depth <= MaxDepth
              <=> \A c \in Range(o.children) : q.depth + c.depth <= MaxDepth
        BY <3>2, <4>2, <4>3, <4>4
      <4>6. QED
        BY <2>2, <3>3, <4>5 DEF Fits, InnerFits
    <3>4. CASE ~ (p.depth + 1 <= MaxDepth)
      <4>1. ~ (p.depth + o.depth <= MaxDepth)
        BY <1>3, <1>4, <1>6, <3>2, <3>4, LimitsTyped
      <4>2. QED
        BY <2>2, <3>4, <4>1 DEF Fits, InnerFits
    <3>5. QED
      BY <3>3, <3>4
  <2>8. QED
    BY <2>2, <2>3, <2>6, <2>7 DEF Complete
<1>7. CASE ~ Constructed(o.tag[1])
  <2>1. o.children = <<>> /\ o.depth = 0 /\ Len(Flatten(o.children)) = 0
        /\ ShortValues(o.children)
    BY <1>4, <1>7, ListedEmpty DEF ShortValues
  <2>2. InnerFits(o, p)
    BY <1>1, <1>3, <2>1, LimitsTyped DEF InnerFits
  <2>3. p.nodes + 1 + Len(Flatten(o.children)) = p.nodes + 1
    BY <1>3, <2>1
  <2>4. Inner(h, p, ParseSequence) = Sequence(<<>>, p.nodes + 1)
    BY <1>2, <1>7 DEF Inner
  <2>5. QED
    BY <2>1, <2>2, <2>3, <2>4
<1>8. QED
  BY <1>6, <1>7

(* What is within the limits is so object by object.                       *)
LEMMA FitsCons ==
  ASSUME NEW p \in ObjectPlaces, NEW o, ProperObject(o), Proper(o.children),
         Len(o.value) <= MaxValueLength, NEW t, Proper(t),
         NEW q, q.depth = p.depth, q.nodes = p.nodes + 1 + Len(Flatten(o.children))
  PROVE  /\ Fits(Cat(<<o>>, t), p) <=> InnerFits(o, p) /\ Fits(t, q)
         /\ p.nodes + Len(Flatten(Cat(<<o>>, t))) = q.nodes + Len(Flatten(t))
<1>1. PICK a : a = Cat(<<o>>, t)
  OBVIOUS
<1>2. /\ Range(a) = {o} \cup Range(t)
      /\ Range(Flatten(a)) = {o} \cup Range(Flatten(o.children)) \cup Range(Flatten(t))
      /\ Len(Flatten(a)) = 1 + Len(Flatten(o.children)) + Len(Flatten(t))
      /\ Len(Flatten(o.children)) \in Nat /\ Len(Flatten(t)) \in Nat
  BY <1>1, ProperCons
<1>3. p.depth \in Nat /\ p.nodes \in Nat /\ MaxNodes \in Nat /\ MaxDepth \in Nat
  BY LimitsTyped DEF ObjectPlaces
<1>4. p.nodes + Len(Flatten(a)) = q.nodes + Len(Flatten(t))
  BY <1>2, <1>3
<1>5. ShortValues(a) <=> ShortValues(o.children) /\ ShortValues(t)
  BY <1>2 DEF ShortValues
<1>6. (\A x \in Range(a) : p.depth + x.depth <= MaxDepth)
      <=> p.depth + o.depth <= MaxDepth /\ \A x \in Range(t) : q.depth + x.depth <= MaxDepth
  BY <1>2
<1>7. q.nodes + Len(Flatten(t)) <= MaxNodes => q.nodes <= MaxNodes
  BY <1>2, <1>3
<1>8. Fits(a, p) <=> InnerFits(o, p) /\ Fits(t, q)
  BY <1>4, <1>5, <1>6, <1>7 DEF Fits, InnerFits
<1>9. QED
  BY <1>1, <1>4, <1>8

(* An object and what follows it are read again.                           *)
LEMMA StepComplete ==
  ASSUME NEW items, NEW p, EncodedAt(items, p),
         \A c, q : EncodedAt(c, q) /\ Shorter(q, p) => Complete(c, q)
  PROVE  Complete(items, p)
<1>1. /\ Proper(items) /\ p \in ObjectPlaces /\ p.nodes <= MaxNodes
      /\ Encoded(items) = p.bytes /\ Len(p.bytes) <= LongestLength
  BY DEF EncodedAt
<1>2. p.bytes \in Seq(Byte) /\ p.depth \in Nat /\ p.nodes \in Nat /\ Len(p.bytes) \in Nat
  BY <1>1, LenProperties DEF ObjectPlaces
<1>3. PICK g : g = OnlyElement(Heads(p.bytes))
  OBVIOUS
<1>4. ParseSequence[p] =
        IF p.depth > MaxDepth THEN NoSequence
        ELSE IF p.bytes = <<>> THEN Sequence(<<>>, p.nodes)
        ELSE IF p.nodes >= MaxNodes \/ Heads(p.bytes) = {} THEN NoSequence
        ELSE WithHead(g, p, ParseSequence)
  <2>1. ParseSequence[p] = SequenceStep(p, ParseSequence)
    BY <1>1, ParseSequenceStep
  <2>2. QED
    BY <1>3, <2>1, SequenceCases
<1>5. CASE p.depth > MaxDepth
  <2>1. ~ Fits(items, p)
    BY <1>2, <1>5, LimitsTyped DEF Fits
  <2>2. QED
    BY <1>4, <1>5, <2>1 DEF Complete
<1>6. CASE p.depth <= MaxDepth /\ items = <<>>
  <2>1. ~ (p.depth > MaxDepth) /\ p.bytes = <<>>
    BY <1>1, <1>2, <1>6, EncodedEmpty, LimitsTyped
  <2>2. Len(Flatten(items)) = 0 /\ Range(items) = {} /\ ShortValues(items)
    BY <1>6, ListedEmpty, RangeEmpty DEF ShortValues
  <2>3. p.nodes + Len(Flatten(items)) = p.nodes
    BY <1>2, <2>2
  <2>4. Fits(items, p)
    BY <1>1, <1>6, <2>2, <2>3 DEF Fits
  <2>5. ParseSequence[p] = Sequence(<<>>, p.nodes)
    BY <1>4, <2>1
  <2>6. QED
    BY <1>6, <2>3, <2>4, <2>5 DEF Complete
<1>7. CASE p.depth <= MaxDepth /\ items # <<>>
  <2>1. PICK o, t : /\ items = Cat(<<o>>, t) /\ ProperObject(o)
                    /\ Proper(o.children) /\ Proper(t)
    BY <1>1, <1>7, ProperUncons
  <2>2. PICK x, r : x = TlvOf(o.tag, o.value) /\ r = Encoded(t)
    OBVIOUS
  <2>3. p.bytes = Cat(x, r)
    BY <1>1, <2>1, <2>2, ProperCons
  <2>4. /\ Over(x, Nat) /\ Over(r, Nat) /\ Len(p.bytes) = Len(x) + Len(r)
        /\ Len(o.value) \in Nat /\ Len(r) \in Nat /\ Len(x) \in Nat /\ Len(o.value) < Len(x)
    <3>1. /\ Over(x, Nat) /\ Over(r, Nat) /\ Len(Cat(x, r)) = Len(x) + Len(r)
          /\ Len(o.value) \in Nat /\ Len(r) \in Nat /\ Len(x) \in Nat /\ Len(o.value) < Len(x)
      BY <2>1, <2>2, EncodedMeasured
    <3>2. QED
      BY <2>3, <3>1
  <2>5. /\ Len(o.value) < Len(p.bytes) /\ Len(r) < Len(p.bytes)
        /\ Len(o.value) <= LongestLength /\ Len(r) <= LongestLength
    BY <1>1, <1>2, <2>4, LongestTyped
  <2>6. p.bytes # <<>> /\ ~ (p.depth > MaxDepth)
    <3>1. Len(p.bytes) # 0
      BY <2>4
    <3>2. QED
      BY <1>2, <1>7, <3>1, EmptySeq, LimitsTyped
  <2>7. /\ o \in Range(Flatten(items))
        /\ Len(Flatten(items)) = 1 + Len(Flatten(o.children)) + Len(Flatten(t))
        /\ Len(Flatten(o.children)) \in Nat /\ Len(Flatten(t)) \in Nat
    <3>1. /\ Range(Flatten(Cat(<<o>>, t))) =
               {o} \cup Range(Flatten(o.children)) \cup Range(Flatten(t))
          /\ Len(Flatten(Cat(<<o>>, t))) = 1 + Len(Flatten(o.children)) + Len(Flatten(t))
          /\ Len(Flatten(o.children)) \in Nat /\ Len(Flatten(t)) \in Nat
      BY <2>1, ProperCons
    <3>2. QED
      BY <2>1, <3>1
  <2>8. CASE p.nodes >= MaxNodes
    <3>1. ~ (p.nodes + Len(Flatten(items)) <= MaxNodes)
      BY <1>2, <2>7, <2>8, LimitsTyped
    <3>2. ~ Fits(items, p)
      BY <3>1 DEF Fits
    <3>3. QED
      BY <1>4, <2>6, <2>8, <3>2 DEF Complete
  <2>9. Heads(p.bytes) = IF Len(o.value) <= MaxValueLength
                         THEN {[tag |-> o.tag, value |-> o.value, rest |-> r]} ELSE {}
    <3>1. Over(o.tag, Byte) /\ ValidDataTag(o.tag) /\ Over(o.value, Byte)
      BY <2>1, ProperParts
    <3>2. Over(r, Byte)
      BY <2>1, <2>2, <2>5, EncodedBytes
    <3>3. Heads(Cat(TlvOf(o.tag, o.value), r)) =
            IF Len(o.value) <= MaxValueLength
            THEN {[tag |-> o.tag, value |-> o.value, rest |-> r]} ELSE {}
      BY <2>5, <3>1, <3>2, HeadComplete
    <3>4. QED
      BY <2>2, <2>3, <3>3
  <2>10. CASE ~ (Len(o.value) <= MaxValueLength)
    <3>1. ~ ShortValues(items)
      BY <2>7, <2>10 DEF ShortValues
    <3>2. Heads(p.bytes) = {}
      BY <2>9, <2>10
    <3>3. QED
      BY <1>4, <2>6, <3>1, <3>2 DEF Complete, Fits
  <2>11. CASE ~ (p.nodes >= MaxNodes) /\ Len(o.value) <= MaxValueLength
    <3>1. PICK h : h = [tag |-> o.tag, value |-> o.value, rest |-> r]
      OBVIOUS
    <3>2. Heads(p.bytes) = {h} /\ g = h
      <4>1. Heads(p.bytes) = {h}
        BY <2>9, <2>11, <3>1
      <4>2. g \in {h}
        BY <1>3, <4>1, OnlyElementIn
      <4>3. QED
        BY <4>1, <4>2
    <3>3. ParseSequence[p] = WithHead(h, p, ParseSequence)
      BY <1>4, <2>6, <2>11, <3>2
    <3>4. PICK u : u = Inner(h, p, ParseSequence)
      OBVIOUS
    <3>5. u = IF InnerFits(o, p)
              THEN Sequence(o.children, p.nodes + 1 + Len(Flatten(o.children)))
              ELSE NoSequence
      BY <1>1, <1>7, <2>1, <2>5, <2>11, <3>1, <3>4, InnerComplete
    <3>6. PICK q : q = At(r, p.depth, p.nodes + 1 + Len(Flatten(o.children)))
      OBVIOUS
    <3>7. q.bytes = r /\ q.depth = p.depth /\ q.nodes = p.nodes + 1 + Len(Flatten(o.children))
      BY <3>6 DEF At
    <3>8. /\ Fits(items, p) <=> InnerFits(o, p) /\ Fits(t, q)
          /\ p.nodes + Len(Flatten(items)) = q.nodes + Len(Flatten(t))
      BY <1>1, <2>1, <2>11, <3>7, FitsCons
    <3>9. CASE ~ InnerFits(o, p)
      <4>1. u = NoSequence /\ ~ u.ok
        BY <3>5, <3>9 DEF NoSequence
      <4>2. WithHead(h, p, ParseSequence) = NoSequence
        BY <3>4, <4>1 DEF WithHead
      <4>3. QED
        BY <3>3, <3>8, <3>9, <4>2 DEF Complete
    <3>10. CASE InnerFits(o, p)
      <4>1. /\ u = Sequence(o.children, p.nodes + 1 + Len(Flatten(o.children)))
            /\ u.ok /\ u.items = o.children /\ u.nodes = q.nodes
        BY <3>5, <3>7, <3>10 DEF Sequence
      <4>2. q \in ObjectPlaces /\ Shorter(q, p) /\ q.nodes <= MaxNodes
        <5>1. r \in Seq(Byte)
          BY <2>1, <2>2, <2>5, EncodedBytes DEF Over
        <5>2. q.nodes \in Nat
          BY <1>2, <2>7, <3>7
        <5>3. q.nodes <= MaxNodes
          BY <3>7, <3>10 DEF InnerFits
        <5>4. QED
          BY <1>2, <2>5, <3>6, <3>7, <5>1, <5>2, <5>3 DEF ObjectPlaces, At, Shorter
      <4>3. EncodedAt(t, q)
        BY <2>1, <2>2, <2>5, <3>7, <4>2 DEF EncodedAt
      <4>4. Complete(t, q)
        BY <4>2, <4>3
      <4>5. PICK w : w = Further(h, p, ParseSequence)
        OBVIOUS
      <4>6. w = ParseSequence[q]
        BY <3>1, <3>4, <3>6, <3>7, <4>1, <4>5 DEF Further
      <4>7. w = IF Fits(t, q) THEN Sequence(t, q.nodes + Len(Flatten(t))) ELSE NoSequence
        BY <4>4, <4>6 DEF Complete
      <4>8. o = Object(h.tag, h.value, u.items)
        BY <2>1, <3>1, <4>1, ProperParts
      <4>9. CASE ~ Fits(t, q)
        <5>1. w = NoSequence /\ ~ w.ok
          BY <4>7, <4>9 DEF NoSequence
        <5>2. WithHead(h, p, ParseSequence) = NoSequence
          BY <3>4, <4>1, <4>5, <5>1 DEF WithHead
        <5>3. QED
          BY <3>3, <3>8, <4>9, <5>2 DEF Complete
      <4>10. CASE Fits(t, q)
        <5>1. w.ok /\ w.items = t /\ w.nodes = q.nodes + Len(Flatten(t))
          BY <4>7, <4>10 DEF Sequence
        <5>2. WithHead(h, p, ParseSequence) =
                Sequence(<<o>> \o t, q.nodes + Len(Flatten(t)))
          BY <3>4, <4>1, <4>5, <4>8, <5>1 DEF WithHead
        <5>3. <<o>> \o t = items
          BY <2>1 DEF Cat
        <5>4. QED
          BY <3>3, <3>8, <3>10, <4>10, <5>2, <5>3 DEF Complete
      <4>11. QED
        BY <4>9, <4>10
    <3>11. QED
      BY <3>9, <3>10
  <2>12. QED
    BY <2>8, <2>10, <2>11
<1>8. QED
  BY <1>2, <1>5, <1>6, <1>7, LimitsTyped

(* So is everything that was encoded.                                      *)
LEMMA ParseComplete ==
  ASSUME NEW items, NEW p, EncodedAt(items, p)
  PROVE  Complete(items, p)
<1> DEFINE Wrong(c, q) == EncodedAt(c, q) /\ ~ Complete(c, q)
           wrong == {n \in Nat : \E c, q : Len(q.bytes) = n /\ Wrong(c, q)}
<1>0. ASSUME NEW c, NEW q, EncodedAt(c, q) PROVE Len(q.bytes) \in Nat
  BY <1>0, LenProperties DEF ObjectPlaces, EncodedAt
<1>1. SUFFICES ASSUME wrong # {} PROVE FALSE
  BY <1>0
<1>2. PICK n \in Nat : n \in wrong /\ \A m \in wrong : n <= m
  <2>1. wrong \subseteq Nat
    OBVIOUS
  <2> HIDE DEF wrong
  <2>2. QED
    BY <1>1, <2>1, LeastNumber
<1>3. PICK c, q : Len(q.bytes) = n /\ Wrong(c, q)
  BY <1>2
<1>4. ASSUME NEW d, NEW r, EncodedAt(d, r), Shorter(r, q)
      PROVE  ~ Wrong(d, r)
  <2>1. Len(r.bytes) \in Nat /\ ~ (n <= Len(r.bytes))
    BY <1>0, <1>3, <1>4 DEF Shorter
  <2>2. Len(r.bytes) \notin wrong
    <3> HIDE DEF wrong
    <3>1. QED
      BY <1>2, <2>1
  <2> HIDE DEF Wrong
  <2>3. QED
    BY <2>1, <2>2
<1>5. QED
  BY <1>3, <1>4, StepComplete

-----------------------------------------------------------------------------
(* From the first byte.                                                    *)

(* At the start the limits are those of the code.                          *)
LEMMA FitsFromStart ==
  ASSUME NEW items, Proper(items), NEW b
  PROVE  /\ Fits(items, At(b, 0, 0)) <=> WithinLimits(items)
         /\ Len(Flatten(items)) \in Nat
<1>1. Listed(items) /\ Len(Flatten(items)) \in Nat /\ \A o \in Range(items) : o.depth \in Nat
  BY ProperWritten, FlattenCounted, ListedIs DEF ListedObject
<1>2. MaxDepth \in Nat /\ MaxNodes \in Nat /\ 0 <= MaxDepth
  BY LimitsTyped
<1>3. Depth(items) <= MaxDepth <=> \A o \in Range(items) : o.depth <= MaxDepth
  BY <1>1, <1>2, DepthBound
<1>4. \A o \in Range(items) : 0 + o.depth = o.depth
  BY <1>1
<1>5. 0 + Len(Flatten(items)) = Len(Flatten(items))
  BY <1>1
<1>6. PICK p : p = At(b, 0, 0)
  OBVIOUS
<1>7. p.depth = 0 /\ p.nodes = 0
  BY <1>6 DEF At
<1>8. Fits(items, p) <=> WithinLimits(items)
  BY <1>2, <1>3, <1>4, <1>5, <1>7 DEF Fits, WithinLimits, ShortValues
<1>9. QED
  BY <1>1, <1>6, <1>8

(* KRN-TLV-001: what the parser accepts are proper objects within the      *)
(* limits, and the bytes are the encoding of these very objects.           *)
THEOREM ParserSound ==
  ASSUME NEW b \in Seq(Byte), ParseMany(b).ok
  PROVE  /\ Proper(ParseMany(b).items) /\ Encoded(ParseMany(b).items) = b
         /\ WithinLimits(ParseMany(b).items)
<1>1. PICK p, r : p = At(b, 0, 0) /\ r = ParseMany(b)
  OBVIOUS
<1>2. /\ p \in ObjectPlaces /\ p.bytes = b /\ p.depth = 0 /\ p.nodes = 0
      /\ r = ParseSequence[p]
  BY <1>1, ReadersStart DEF ObjectPlaces, At
<1>3. Sound(p, r)
  BY <1>2, ParseSound
<1>4. /\ Proper(r.items) /\ Encoded(r.items) = b /\ ShortValues(r.items)
      /\ r.nodes = 0 + Len(Flatten(r.items)) /\ r.nodes <= MaxNodes
      /\ 0 <= MaxDepth /\ \A o \in Range(r.items) : 0 + o.depth <= MaxDepth
  BY <1>1, <1>2, <1>3, LimitsTyped DEF Sound
<1>5. Fits(r.items, p)
  BY <1>2, <1>4 DEF Fits
<1>6. WithinLimits(r.items)
  BY <1>1, <1>4, <1>5, FitsFromStart
<1>7. QED
  BY <1>1, <1>4, <1>6

(* KRN-TLV-003: what was encoded, within the limits, is read again; over   *)
(* a limit it is refused.                                                  *)
THEOREM ParserComplete ==
  ASSUME NEW items, Proper(items), Len(Encoded(items)) <= LongestLength
  PROVE  ParseMany(Encoded(items)) = IF WithinLimits(items)
                                     THEN Sequence(items, Len(Flatten(items))) ELSE NoSequence
<1>1. PICK b, p : b = Encoded(items) /\ p = At(b, 0, 0)
  OBVIOUS
<1>2. b \in Seq(Byte)
  BY <1>1, EncodedBytes DEF Over
<1>3. /\ p \in ObjectPlaces /\ p.bytes = b /\ p.nodes = 0 /\ ParseMany(b) = ParseSequence[p]
  BY <1>1, <1>2, ReadersStart DEF ObjectPlaces, At
<1>4. EncodedAt(items, p)
  BY <1>1, <1>3, LimitsTyped DEF EncodedAt
<1>5. Complete(items, p)
  BY <1>4, ParseComplete
<1>6. Fits(items, p) <=> WithinLimits(items)
  BY <1>1, FitsFromStart
<1>7. p.nodes + Len(Flatten(items)) = Len(Flatten(items))
  BY <1>1, <1>3, FitsFromStart
<1>8. QED
  BY <1>1, <1>3, <1>5, <1>6, <1>7 DEF Complete

-----------------------------------------------------------------------------
(* Lists of tags.                                                          *)

(* Tags of which no two are the same.                                      *)
Distinct(tags) ==
  /\ Over(tags, Seq(Byte)) /\ \A tag \in Range(tags) : ValidDataTag(tag)
  /\ IsFiniteSet(Range(tags)) /\ Cardinality(Range(tags)) = Len(tags)

(* One more.                                                               *)
LEMMA DistinctAppend ==
  ASSUME NEW tags, Distinct(tags), NEW tag \in Seq(Byte), ValidDataTag(tag),
         ~ Contains(tags, tag)
  PROVE  /\ Distinct(Append(tags, tag))
         /\ FlattenSeq(Append(tags, tag)) = Cat(FlattenSeq(tags), tag)
<1>1. PICK u, t : u = Append(tags, tag) /\ t = <<tag>>
  OBVIOUS
<1>2. Over(tags, Seq(Byte)) /\ Over(t, Seq(Byte)) /\ Range(t) = {tag} /\ Len(t) = 1
  BY <1>1, One DEF Distinct
<1>3. u = Cat(tags, t) /\ u \in Seq(Seq(Byte))
  BY <1>1, <1>2, AppendIsConcat, AppendProperties DEF Over, Cat
<1>4. /\ Over(u, Seq(Byte)) /\ Len(u) = Len(tags) + 1
  <2>1. Over(Cat(tags, t), Seq(Byte)) /\ Len(Cat(tags, t)) = Len(tags) + Len(t)
    BY <1>2, Joined
  <2>2. QED
    BY <1>2, <1>3, <2>1
<1>5. Range(u) = Range(tags) \cup {tag}
  BY <1>2, <1>3, RangeCat
<1>6. tag \notin Range(tags)
  BY <1>2, RangeOf DEF Contains
<1>7. IsFiniteSet(Range(tags)) /\ Cardinality(Range(tags)) = Len(tags)
  BY DEF Distinct
<1>8. IsFiniteSet(Range(u)) /\ Cardinality(Range(u)) = Len(tags) + 1
  BY <1>5, <1>6, <1>7, FS_AddElement
<1>9. \A x \in Range(u) : ValidDataTag(x)
  BY <1>5 DEF Distinct
<1>10. FlattenSeq(u) = Cat(FlattenSeq(tags), tag)
  BY <1>1, <1>2, FlattenSnoc DEF Over, Cat
<1>11. QED
  BY <1>1, <1>4, <1>8, <1>9, <1>10 DEF Distinct

(* What has been read of a list and what is left are together what was     *)
(* there.                                                                  *)
TagsSound(p, r) ==
  Distinct(p.tags) /\ r.ok =>
    Distinct(r.tags) /\ FlattenSeq(r.tags) = Cat(FlattenSeq(p.tags), p.bytes)

LEMMA TagStepSound ==
  ASSUME NEW p \in TagPlaces, \A q \in TagPlaces : Shorter(q, p) => TagsSound(q, ReadTags[q])
  PROVE  TagsSound(p, ReadTags[p])
<1>1. p.bytes \in Seq(Byte) /\ p.tags \in Seq(Seq(Byte)) /\ ReadTags[p] = TagStep(p, ReadTags)
  BY ReadTagsStep DEF TagPlaces
<1>2. SUFFICES ASSUME Distinct(p.tags), ReadTags[p].ok
               PROVE  /\ Distinct(ReadTags[p].tags)
                      /\ FlattenSeq(ReadTags[p].tags) = Cat(FlattenSeq(p.tags), p.bytes)
  BY DEF TagsSound
<1>3. FlattenSeq(p.tags) \in Seq(Byte)
  BY <1>1, FlattenTyped
<1>4. CASE p.bytes = <<>>
  <2>1. ReadTags[p] = [ok |-> TRUE, tags |-> p.tags]
    BY <1>1, <1>4 DEF TagStep
  <2>2. Cat(FlattenSeq(p.tags), p.bytes) = FlattenSeq(p.tags)
    BY <1>3, <1>4, JoinedEmpty DEF Over
  <2>3. QED
    BY <1>2, <2>1, <2>2
<1>5. CASE p.bytes # <<>>
  <2>1. PICK n, tag : n = OnlyElement(TagLengths(p.bytes)) /\ tag = Upto(p.bytes, n)
    OBVIOUS
  <2>2. PICK q : q = [bytes |-> After(p.bytes, n), tags |-> Append(p.tags, tag)]
    OBVIOUS
  <2>3. /\ TagLengths(p.bytes) # {} /\ ~ Contains(p.tags, tag)
        /\ ReadTags[p] = ReadTags[q]
    <3>1. TagStep(p, ReadTags) =
            IF \/ Len(p.tags) >= MaxTags \/ TagLengths(p.bytes) = {}
               \/ Constructed(p.bytes[1])
            THEN [ok |-> FALSE]
            ELSE IF Contains(p.tags, tag) THEN [ok |-> FALSE] ELSE ReadTags[q]
      BY <1>5, <2>1, <2>2 DEF TagStep, Upto
    <3>2. ~ [ok |-> FALSE].ok
      OBVIOUS
    <3>3. QED
      BY <1>1, <1>2, <3>1, <3>2
  <2>4. n \in 1..Len(p.bytes) /\ ValidDataTag(tag) /\ Len(p.bytes) \in Nat
    <3>1. n \in TagLengths(p.bytes)
      BY <2>1, <2>3, OnlyElementIn
    <3>2. QED
      BY <1>1, <2>1, <3>1, TagRead, LenProperties DEF Upto
  <2>5. PICK a : a = After(p.bytes, n)
    OBVIOUS
  <2>6. /\ Over(tag, Byte) /\ Over(a, Byte) /\ p.bytes = Cat(tag, a)
        /\ Len(a) = Len(p.bytes) - n
    <3>1. Over(p.bytes, Byte) /\ n \in Nat /\ n <= Len(p.bytes)
      BY <1>1, <2>4 DEF Over
    <3>2. /\ Over(Upto(p.bytes, n), Byte) /\ Over(After(p.bytes, n), Byte)
          /\ p.bytes = Cat(Upto(p.bytes, n), After(p.bytes, n))
          /\ Len(After(p.bytes, n)) = Len(p.bytes) - n
      BY <3>1, CutJoined
    <3>3. QED
      BY <2>1, <2>5, <3>2
  <2>7. /\ Distinct(Append(p.tags, tag))
        /\ FlattenSeq(Append(p.tags, tag)) = Cat(FlattenSeq(p.tags), tag)
    BY <1>2, <2>3, <2>4, <2>6, DistinctAppend DEF Over
  <2>8. q \in TagPlaces /\ Shorter(q, p) /\ q.bytes = a /\ q.tags = Append(p.tags, tag)
    <3>1. Len(a) < Len(p.bytes)
      BY <2>4, <2>6
    <3>2. a \in Seq(Byte) /\ Append(p.tags, tag) \in Seq(Seq(Byte))
      BY <2>6, <2>7 DEF Over, Distinct
    <3>3. QED
      BY <2>2, <2>5, <3>1, <3>2 DEF TagPlaces, Shorter
  <2>9. /\ Distinct(ReadTags[q].tags)
        /\ FlattenSeq(ReadTags[q].tags) = Cat(Cat(FlattenSeq(p.tags), tag), a)
    BY <1>2, <2>3, <2>7, <2>8 DEF TagsSound
  <2>10. Cat(Cat(FlattenSeq(p.tags), tag), a) = Cat(FlattenSeq(p.tags), Cat(tag, a))
    <3>1. PICK f : f = FlattenSeq(p.tags)
      OBVIOUS
    <3>2. Over(f, Byte)
      BY <1>3, <3>1 DEF Over
    <3>3. Cat(Cat(f, tag), a) = Cat(f, Cat(tag, a))
      BY <2>6, <3>2, Rejoined
    <3>4. QED
      BY <3>1, <3>3
  <2>11. QED
    BY <2>3, <2>6, <2>9, <2>10
<1>6. QED
  BY <1>4, <1>5

(* So a list that is accepted is all of it, in different tags the store    *)
(* accepts.                                                                *)
THEOREM TagListSound ==
  ASSUME NEW b \in Seq(Byte), TagList(b).ok
  PROVE  Distinct(TagList(b).tags) /\ FlattenSeq(TagList(b).tags) = b
<1> DEFINE Wrong(q) == ~ TagsSound(q, ReadTags[q])
           wrong == {n \in Nat : \E q \in TagPlaces : Len(q.bytes) = n /\ Wrong(q)}
<1>0. \A q \in TagPlaces : Len(q.bytes) \in Nat
  BY LenProperties DEF TagPlaces
<1>1. \A q \in TagPlaces : ~ Wrong(q)
  <2>1. SUFFICES ASSUME wrong # {} PROVE FALSE
    BY <1>0
  <2>2. PICK n \in Nat : n \in wrong /\ \A m \in wrong : n <= m
    <3>1. wrong \subseteq Nat
      OBVIOUS
    <3> HIDE DEF wrong
    <3>2. QED
      BY <2>1, <3>1, LeastNumber
  <2>3. PICK q \in TagPlaces : Len(q.bytes) = n /\ Wrong(q)
    BY <2>2
  <2>4. ASSUME NEW r \in TagPlaces, Shorter(r, q)
        PROVE  ~ Wrong(r)
    <3>1. Len(r.bytes) \in Nat /\ ~ (n <= Len(r.bytes))
      BY <1>0, <2>3, <2>4 DEF Shorter
    <3>2. Len(r.bytes) \notin wrong
      <4> HIDE DEF wrong
      <4>1. QED
        BY <2>2, <3>1
    <3> HIDE DEF Wrong
    <3>3. QED
      BY <3>1, <3>2
  <2>5. QED
    BY <2>3, <2>4, TagStepSound
<1>2. PICK p : p = [bytes |-> b, tags |-> <<>>]
  OBVIOUS
<1>3. p \in TagPlaces /\ p.tags = <<>> /\ p.bytes = b
  BY <1>2, EmptySeq DEF TagPlaces
<1>4. TagList(b) = ReadTags[p]
  <2>1. TagList(b) = IF b = <<>> THEN [ok |-> FALSE]
                     ELSE ReadTags[[bytes |-> b, tags |-> <<>>]]
    BY ReadersStart
  <2>2. ~ [ok |-> FALSE].ok
    OBVIOUS
  <2>3. TagList(b) = ReadTags[[bytes |-> b, tags |-> <<>>]]
    BY <2>1, <2>2
  <2>4. QED
    BY <1>2, <2>3
<1>5. Distinct(<<>>)
  BY JoinedEmpty, RangeEmpty, EmptySeq, FS_EmptySet DEF Distinct
<1>6. Distinct(TagList(b).tags) /\ FlattenSeq(TagList(b).tags) = Cat(FlattenSeq(<<>>), b)
  BY <1>1, <1>3, <1>4, <1>5 DEF TagsSound
<1>7. Cat(FlattenSeq(<<>>), b) = b
  BY FlattenEmpty, JoinedEmpty DEF Over
<1>8. QED
  BY <1>6, <1>7

-----------------------------------------------------------------------------
(* What is sent, and what becomes of it.                                   *)

(* The input is bytes; and while nothing has happened to it, it is the     *)
(* encoding of the objects of the sender.                                  *)
InputTyped == sender \in Senders /\ Over(input, Byte)
InputEncoded ==
  intact => Proper(objects) /\ input = Encoded(objects) /\ Len(input) <= LongestLength
ParsingInv == InputTyped /\ InputEncoded

(* The field of the longest length is the limit of what can be encoded.    *)
LEMMA EncodableIs ==
  ASSUME NEW b
  PROVE  Encodable(b) <=> Len(b) <= LongestLength
  BY DEF Encodable, LongestLength

(* Nothing has been sent.                                                  *)
LEMMA NothingSent ==
  Over(<<>>, Byte) /\ Proper(<<>>) /\ <<>> = Encoded(<<>>) /\ Len(<<>>) <= LongestLength
<1>1. Len(<<>>) = 0 /\ 0 <= LongestLength
  BY EmptySeq, LongestTyped
<1>2. QED
  BY <1>1, ProperEmpty, EncodedEmpty, JoinedEmpty

(* What is enclosed in a template is its one child's value.                *)
LEMMA Enclosed ==
  ASSUME NEW tag \in Seq(Byte), ValidDataTag(tag), Constructed(tag[1]),
         NEW items, Proper(items), NEW b \in Seq(Byte), b = Encoded(items)
  PROVE  LET o == Object(tag, b, items) IN Proper(<<o>>) /\ ProperObject(o)
<1>1. PICK o : o = Object(tag, b, items)
  OBVIOUS
<1>2. o.tag = tag /\ o.value = b /\ o.children = items /\ o.constructed = Constructed(tag[1])
  BY <1>1 DEF Object
<1>3. Listed(items)
  BY ProperWritten
<1>4. ProperObject(o)
  BY <1>1, <1>2, <1>3 DEF ProperObject
<1>5. Proper(Cat(<<o>>, <<>>))
  BY <1>2, <1>4, ProperCons, ProperEmpty
<1>6. Cat(<<o>>, <<>>) = <<o>>
  <2>1. Over(<<o>>, {o})
    BY One
  <2>2. QED
    BY <2>1, JoinedEmpty
<1>7. QED
  BY <1>1, <1>4, <1>5, <1>6

(* An initial state.                                                       *)
LEMMA ParsingStarts == ASSUME Init PROVE ParsingInv
  BY NothingSent DEF Init, ParsingInv, InputTyped, InputEncoded

(* Sending a group.                                                        *)
LEMMA SendKeeps ==
  ASSUME ParsingInv, NEW group \in sender.groups, Send(group)
  PROVE  ParsingInv'
<1>1. /\ Proper(objects) /\ input = Encoded(objects) /\ sender \in Senders
      /\ objects' = Cat(objects, group) /\ input' = Cat(input, Encoded(group))
      /\ Encodable(input') /\ sender' = sender
  BY DEF ParsingInv, InputTyped, InputEncoded, Send, Step, Cat
<1>2. Proper(group)
  BY <1>1, SendersAssumption
<1>3. Proper(Cat(objects, group)) /\ Encoded(Cat(objects, group)) = Cat(Encoded(objects), Encoded(group))
  BY <1>1, <1>2, ProperCat
<1>4. Proper(objects') /\ input' = Encoded(objects') /\ Len(input') <= LongestLength
  BY <1>1, <1>3, EncodableIs
<1>5. Over(input', Byte)
  <2>1. PICK a : a = objects'
    OBVIOUS
  <2>2. Over(Encoded(a), Byte)
    BY <1>4, <2>1, EncodedBytes
  <2>3. QED
    BY <1>4, <2>1, <2>2
<1>6. QED
  BY <1>1, <1>4, <1>5 DEF ParsingInv, InputTyped, InputEncoded

(* Enclosing what has been sent.                                           *)
LEMMA EncloseKeeps ==
  ASSUME ParsingInv, NEW tag \in sender.templates, Enclose(tag)
  PROVE  ParsingInv'
<1>1. /\ Proper(objects) /\ input = Encoded(objects) /\ input \in Seq(Byte)
      /\ sender \in Senders /\ sender' = sender
      /\ objects' = <<Object(tag, input, objects)>> /\ input' = Encoded(objects')
      /\ Encodable(input')
  BY DEF ParsingInv, InputTyped, InputEncoded, Enclose, Step, Over
<1>2. tag \in Seq(Byte) /\ ValidDataTag(tag) /\ Constructed(tag[1])
  BY <1>1, SendersAssumption
<1>3. Proper(<<Object(tag, input, objects)>>)
  BY <1>1, <1>2, Enclosed
<1>4. Proper(objects') /\ input' = Encoded(objects') /\ Len(input') <= LongestLength
  BY <1>1, <1>3, EncodableIs
<1>5. Over(input', Byte)
  <2>1. PICK a : a = objects'
    OBVIOUS
  <2>2. Over(Encoded(a), Byte)
    BY <1>4, <2>1, EncodedBytes
  <2>3. QED
    BY <1>4, <2>1, <2>2
<1>6. QED
  BY <1>1, <1>4, <1>5 DEF ParsingInv, InputTyped, InputEncoded

(* Damage leaves bytes.                                                    *)
LEMMA DamageKeeps ==
  ASSUME ParsingInv, Damage
  PROVE  ParsingInv'
<1>1. sender \in Senders /\ Over(input, Byte) /\ input \in Seq(Byte)
  BY DEF ParsingInv, InputTyped, Over
<1>2. CASE Lose
  <2>1. /\ input # <<>> /\ input' = Upto(input, Len(input) - 1)
        /\ sender' = sender /\ intact' = FALSE
    BY <1>2 DEF Lose, Front, Upto
  <2>2. Len(input) \in Nat /\ Len(input) # 0
    BY <1>1, <2>1, Measured
  <2>3. Len(input) - 1 \in Nat /\ Len(input) - 1 <= Len(input)
    BY <2>2
  <2>4. Over(Upto(input, Len(input) - 1), Byte)
    BY <1>1, <2>3, CutJoined
  <2>5. QED
    BY <1>1, <2>1, <2>4 DEF ParsingInv, InputTyped, InputEncoded
<1>3. ASSUME NEW bytes \in sender.noise, Disturb(bytes)
      PROVE  ParsingInv'
  <2>1. input' = Cat(input, bytes) /\ sender' = sender /\ intact' = FALSE
    BY <1>3 DEF Disturb, Step, Cat
  <2>2. Over(bytes, Byte)
    BY <1>1, SendersAssumption DEF Over
  <2>3. Over(Cat(input, bytes), Byte)
    BY <1>1, <2>2, Joined
  <2>4. QED
    BY <1>1, <2>1, <2>3 DEF ParsingInv, InputTyped, InputEncoded
<1>4. ASSUME NEW i \in DOMAIN input, NEW byte \in StrayBytes, Corrupt(i, byte)
      PROVE  ParsingInv'
  <2>1. input' = [input EXCEPT ![i] = byte] /\ sender' = sender /\ intact' = FALSE
    BY <1>4 DEF Corrupt
  <2>2. byte \in Byte
    BY ParsingAssumption
  <2>3. [input EXCEPT ![i] = byte] \in Seq(Byte)
    <3>1. PICK b : b = input
      OBVIOUS
    <3>2. b \in Seq(Byte) /\ i \in DOMAIN b
      BY <1>1, <3>1
    <3>3. [b EXCEPT ![i] = byte] \in Seq(Byte)
      BY <2>2, <3>2
    <3>4. QED
      BY <3>1, <3>3
  <2>4. QED
    BY <1>1, <2>1, <2>3 DEF ParsingInv, InputTyped, InputEncoded, Over
<1>5. QED
  BY <1>2, <1>3, <1>4 DEF Damage

(* Every step keeps it.                                                    *)
LEMMA ParsingKeeps ==
  ASSUME ParsingInv, [Next]_vars
  PROVE  ParsingInv'
<1>1. CASE Compose
  BY <1>1, NothingSent DEF Compose, ParsingInv, InputTyped, InputEncoded
<1>2. CASE UNCHANGED vars
  BY <1>2 DEF vars, ParsingInv, InputTyped, InputEncoded
<1>3. QED
  BY <1>1, <1>2, SendKeeps, EncloseKeeps, DamageKeeps DEF Next

(* So the input is always bytes, and as it was encoded while intact.       *)
THEOREM InputIsBytes == Spec => []ParsingInv
<1>1. Init => ParsingInv
  BY ParsingStarts
<1>2. ParsingInv /\ [Next]_vars => ParsingInv'
  BY ParsingKeeps
<1> HIDE DEF Init, Next, vars, ParsingInv
<1>3. QED
  BY <1>1, <1>2, PTL DEF Spec

(* That is enough to read it faithfully.                                   *)
LEMMA TlvFaithfulHolds ==
  ASSUME ParsingInv
  PROVE  TlvFaithful
<1>1. input \in Seq(Byte) /\ InputEncoded
  BY DEF ParsingInv, InputTyped, Over
<1>2. PICK r : r = ParseMany(input)
  OBVIOUS
<1>3. ASSUME intact
      PROVE  (r.ok <=> WithinLimits(objects)) /\ (r.ok => r.items = objects)
  <2>1. Proper(objects) /\ input = Encoded(objects) /\ Len(input) <= LongestLength
    BY <1>1, <1>3 DEF InputEncoded
  <2>2. ParseMany(Encoded(objects)) =
          IF WithinLimits(objects) THEN Sequence(objects, Len(Flatten(objects))) ELSE NoSequence
    BY <2>1, ParserComplete
  <2>3. r = IF WithinLimits(objects) THEN Sequence(objects, Len(Flatten(objects))) ELSE NoSequence
    BY <1>2, <2>1, <2>2
  <2>4. QED
    BY <2>3 DEF Sequence, NoSequence
<1>4. ASSUME r.ok
      PROVE  /\ Encoded(r.items) = input /\ WithinLimits(r.items)
             /\ \A o \in Range(Flatten(r.items)) :
                  ValidDataTag(o.tag) /\ (o.value = Encoded(o.children) \/ ~o.constructed)
  <2>1. Proper(r.items) /\ Encoded(r.items) = input /\ WithinLimits(r.items)
    BY <1>1, <1>2, <1>4, ParserSound
  <2>2. \A o \in Range(Flatten(r.items)) : ProperObject(o)
    BY <2>1 DEF Proper
  <2>3. QED
    BY <2>1, <2>2 DEF ProperObject
<1>5. ObjectsRead(r)
  BY <1>3, <1>4 DEF ObjectsRead
<1>6. TagsRead(TagList(input))
  BY <1>1, TagListSound DEF TagsRead, Distinct
<1>7. QED
  BY <1>2, <1>5, <1>6 DEF TlvFaithful

(* KRN-TLV-001 and 003 of whatever is sent (parse_many, read_tag,          *)
(* read_length, parse_unique_primitive_tag_list): what is encoded within   *)
(* the limits is read as it was, what is over one is refused, and what is  *)
(* accepted is the one encoding of what is returned.                       *)
THEOREM TlvIsFaithful == Spec => []TlvFaithful
<1>1. ParsingInv => TlvFaithful
  BY TlvFaithfulHolds
<1>2. Spec => []ParsingInv
  BY InputIsBytes
<1> HIDE DEF ParsingInv, TlvFaithful, Spec
<1>3. QED
  BY <1>1, <1>2, PTL

-----------------------------------------------------------------------------
(* Data object lists.                                                      *)

(* The bytes of an entry, and entries with tags the store accepts.         *)
EntryBytes == [e \in Entries |-> Append(e.tag, e.length)]
Listing(entries) ==
  Over(entries, Entries) /\ \A e \in Range(entries) : ValidDataTag(e.tag)

LEMMA EntryBytesGive == Gives(EntryBytes, Entries, Seq(Byte))
<1>1. ASSUME NEW e \in Entries PROVE Append(e.tag, e.length) \in Seq(Byte)
  BY AppendProperties DEF Entries
<1>2. QED
  BY <1>1 DEF EntryBytes, Gives

(* The beginning of bytes with one more.                                   *)
LEMMA UptoNext ==
  ASSUME NEW T, NEW b, Over(b, T), NEW n \in Nat, n + 1 <= Len(b)
  PROVE  Upto(b, n + 1) = Append(Upto(b, n), b[n + 1])
<1>1. b \in Seq(T) /\ Len(b) \in Nat /\ n \in 0..Len(b) /\ n + 1 \in 0..Len(b)
  BY LenProperties DEF Over
<1>2. PICK u, m : u = Upto(b, n) /\ m = n + 1
  OBVIOUS
<1>3. PICK v : v = Upto(b, m)
  OBVIOUS
<1>4. u \in Seq(T) /\ Len(u) = n /\ \A i \in 1..n : u[i] = b[i]
  BY <1>1, <1>2, SplitAt DEF Upto
<1>5. v \in Seq(T) /\ Len(v) = m /\ \A i \in 1..m : v[i] = b[i]
  BY <1>1, <1>2, <1>3, SplitAt DEF Upto
<1>6. PICK x : x = b[m]
  OBVIOUS
<1>7. x \in T
  <2>1. m \in 1..Len(b)
    BY <1>1, <1>2
  <2>2. QED
    BY <1>1, <1>6, <2>1, ElementOfSeq
<1>8. /\ Append(u, x) \in Seq(T) /\ Len(Append(u, x)) = Len(u) + 1
      /\ \A i \in 1..Len(u) : Append(u, x)[i] = u[i]
      /\ Append(u, x)[Len(u) + 1] = x
  BY <1>4, <1>7, AppendProperties
<1>9. ASSUME NEW i \in 1..m PROVE v[i] = Append(u, x)[i]
  <2>1. CASE i = m
    BY <1>2, <1>4, <1>5, <1>6, <1>8, <2>1
  <2>2. CASE i # m
    <3>1. i \in 1..n
      BY <1>1, <1>2, <2>2
    <3>2. QED
      BY <1>4, <1>5, <1>8, <3>1
  <2>3. QED
    BY <2>1, <2>2
<1>10. v = Append(u, x)
  BY <1>2, <1>4, <1>5, <1>8, <1>9, SeqEqual
<1>11. QED
  BY <1>2, <1>3, <1>6, <1>10

(* What has been read of a list and what is left are together what was     *)
(* there.                                                                  *)
DolSound(p, r) ==
  Listing(p.entries) /\ r.ok =>
    /\ Listing(r.entries)
    /\ Collected(r.entries, EntryBytes) = Cat(Collected(p.entries, EntryBytes), p.bytes)

LEMMA DolStepSound ==
  ASSUME NEW p \in DolPlaces, \A q \in DolPlaces : Shorter(q, p) => DolSound(q, ReadDol[q])
  PROVE  DolSound(p, ReadDol[p])
<1>1. p.bytes \in Seq(Byte) /\ p.entries \in Seq(Entries) /\ ReadDol[p] = DolStep(p, ReadDol)
  BY ReadDolStep DEF DolPlaces
<1>2. SUFFICES ASSUME Listing(p.entries), ReadDol[p].ok
               PROVE  /\ Listing(ReadDol[p].entries)
                      /\ Collected(ReadDol[p].entries, EntryBytes) =
                           Cat(Collected(p.entries, EntryBytes), p.bytes)
  BY DEF DolSound
<1>3. PICK f : f = Collected(p.entries, EntryBytes)
  OBVIOUS
<1>4. Over(f, Byte) /\ Over(p.entries, Entries)
  BY <1>2, <1>3, EntryBytesGive, CollectedTyped DEF Listing
<1>5. CASE p.bytes = <<>>
  <2>1. ReadDol[p] = [ok |-> TRUE, entries |-> p.entries]
    BY <1>1, <1>5 DEF DolStep
  <2>2. Cat(f, p.bytes) = f
    BY <1>4, <1>5, JoinedEmpty
  <2>3. QED
    BY <1>2, <1>3, <2>1, <2>2
<1>6. CASE p.bytes # <<>>
  <2>1. PICK n : n = OnlyElement(DolTagLengths(p.bytes))
    OBVIOUS
  <2>2. PICK e : e = [tag |-> Upto(p.bytes, n), length |-> p.bytes[n + 1]]
    OBVIOUS
  <2>3. PICK q : q = [bytes |-> After(p.bytes, n + 1), entries |-> Append(p.entries, e)]
    OBVIOUS
  <2>4. /\ \E m \in DolTagLengths(p.bytes) : m # Len(p.bytes)
        /\ ReadDol[p] = ReadDol[q]
    <3>1. DolStep(p, ReadDol) =
            IF Len(p.entries) >= MaxDolEntries THEN [ok |-> FALSE]
            ELSE IF \A m \in DolTagLengths(p.bytes) : m = Len(p.bytes) THEN [ok |-> FALSE]
            ELSE ReadDol[q]
      BY <1>6, <2>1, <2>2, <2>3 DEF DolStep, Upto
    <3>2. ~ [ok |-> FALSE].ok
      OBVIOUS
    <3>3. QED
      BY <1>1, <1>2, <3>1, <3>2
  <2>5. /\ n \in Nat /\ n >= 1 /\ n + 1 <= Len(p.bytes) /\ Len(p.bytes) \in Nat
        /\ ValidDataTag(Upto(p.bytes, n))
    <3>1. PICK m \in DolTagLengths(p.bytes) : m # Len(p.bytes)
      BY <2>4
    <3>2. n \in TagLengths(p.bytes) /\ m \in TagLengths(p.bytes)
      BY <2>1, <3>1, OnlyElementIn DEF DolTagLengths
    <3>3. /\ n = m /\ n \in 1..Len(p.bytes) /\ Len(p.bytes) \in Nat
          /\ ValidDataTag(SubSeq(p.bytes, 1, n))
      BY <1>1, <3>2, TagUnique, TagRead, LenProperties
    <3>4. QED
      BY <3>1, <3>3 DEF Upto
  <2>6. PICK t, x, a : t = Upto(p.bytes, n) /\ x = p.bytes[n + 1] /\ a = After(p.bytes, n + 1)
    OBVIOUS
  <2>7. Over(p.bytes, Byte) /\ n <= Len(p.bytes) /\ n + 1 \in Nat
    BY <1>1, <2>5 DEF Over
  <2>8. /\ Over(t, Byte) /\ x \in Byte /\ Over(a, Byte) /\ Len(a) < Len(p.bytes)
        /\ p.bytes = Cat(Append(t, x), a)
    <3>1. Over(t, Byte)
      BY <2>5, <2>6, <2>7, CutJoined
    <3>2. x \in Byte
      <4>1. n + 1 \in 1..Len(p.bytes)
        BY <2>5
      <4>2. QED
        BY <1>1, <2>6, <4>1, ElementOfSeq
    <3>3. /\ Over(After(p.bytes, n + 1), Byte)
          /\ Len(After(p.bytes, n + 1)) = Len(p.bytes) - (n + 1)
          /\ p.bytes = Cat(Upto(p.bytes, n + 1), After(p.bytes, n + 1))
      BY <2>5, <2>7, CutJoined
    <3>4. Upto(p.bytes, n + 1) = Append(t, x)
      BY <2>5, <2>6, <2>7, UptoNext
    <3>5. Len(p.bytes) - (n + 1) < Len(p.bytes)
      BY <2>5
    <3>6. QED
      BY <2>6, <3>1, <3>2, <3>3, <3>4, <3>5
  <2>9. e \in Entries /\ EntryBytes[e] = Append(t, x) /\ e.tag = t
    BY <2>2, <2>6, <2>8 DEF Entries, EntryBytes, Over
  <2>10. Over(Append(t, x), Byte)
    BY <2>8, AppendProperties DEF Over
  <2>11. PICK u, w : u = Append(p.entries, e) /\ w = <<e>>
    OBVIOUS
  <2>12. Over(w, Entries) /\ Range(w) = {e}
    BY <2>9, <2>11, One
  <2>13. u = Cat(p.entries, w)
    BY <1>1, <2>9, <2>11, AppendIsConcat DEF Cat
  <2>14. Over(u, Entries) /\ Range(u) = Range(p.entries) \cup {e}
    <3>1. Over(Cat(p.entries, w), Entries)
      BY <1>4, <2>12, Joined
    <3>2. Range(Cat(p.entries, w)) = Range(p.entries) \cup Range(w)
      BY <1>4, <2>12, RangeCat
    <3>3. QED
      BY <2>12, <2>13, <3>1, <3>2
  <2>15. Listing(u)
    <3>1. ValidDataTag(e.tag)
      BY <2>5, <2>6, <2>9
    <3>2. QED
      BY <1>2, <2>14, <3>1 DEF Listing
  <2>16. Collected(u, EntryBytes) = Cat(f, Append(t, x))
    <3>1. /\ Collected(Cat(p.entries, w), EntryBytes) =
               Cat(Collected(p.entries, EntryBytes), Collected(w, EntryBytes))
      BY <1>4, <2>12, EntryBytesGive, CollectedCat
    <3>2. Collected(w, EntryBytes) = EntryBytes[e]
      BY <2>9, <2>11, EntryBytesGive, CollectedOne
    <3>3. QED
      BY <1>3, <2>9, <2>13, <3>1, <3>2
  <2>17. q \in DolPlaces /\ Shorter(q, p) /\ q.bytes = a /\ q.entries = u
    BY <2>3, <2>6, <2>8, <2>11, <2>14 DEF DolPlaces, Shorter, Over
  <2>18. /\ Listing(ReadDol[q].entries)
         /\ Collected(ReadDol[q].entries, EntryBytes) = Cat(Cat(f, Append(t, x)), a)
    BY <1>2, <2>4, <2>15, <2>16, <2>17 DEF DolSound
  <2>19. Cat(Cat(f, Append(t, x)), a) = Cat(f, Cat(Append(t, x), a))
    BY <1>4, <2>8, <2>10, Rejoined
  <2>20. QED
    BY <1>3, <2>4, <2>8, <2>18, <2>19
<1>7. QED
  BY <1>5, <1>6

(* So a list that is accepted is all of it.                                *)
THEOREM DolSoundly ==
  ASSUME NEW b \in Seq(Byte), ParseDol(b).ok
  PROVE  /\ Listing(ParseDol(b).entries)
         /\ Collected(ParseDol(b).entries, EntryBytes) = b
<1> DEFINE Wrong(q) == ~ DolSound(q, ReadDol[q])
           wrong == {n \in Nat : \E q \in DolPlaces : Len(q.bytes) = n /\ Wrong(q)}
<1>0. \A q \in DolPlaces : Len(q.bytes) \in Nat
  BY LenProperties DEF DolPlaces
<1>1. \A q \in DolPlaces : ~ Wrong(q)
  <2>1. SUFFICES ASSUME wrong # {} PROVE FALSE
    BY <1>0
  <2>2. PICK n \in Nat : n \in wrong /\ \A m \in wrong : n <= m
    <3>1. wrong \subseteq Nat
      OBVIOUS
    <3> HIDE DEF wrong
    <3>2. QED
      BY <2>1, <3>1, LeastNumber
  <2>3. PICK q \in DolPlaces : Len(q.bytes) = n /\ Wrong(q)
    BY <2>2
  <2>4. ASSUME NEW r \in DolPlaces, Shorter(r, q)
        PROVE  ~ Wrong(r)
    <3>1. Len(r.bytes) \in Nat /\ ~ (n <= Len(r.bytes))
      BY <1>0, <2>3, <2>4 DEF Shorter
    <3>2. Len(r.bytes) \notin wrong
      <4> HIDE DEF wrong
      <4>1. QED
        BY <2>2, <3>1
    <3> HIDE DEF Wrong
    <3>3. QED
      BY <3>1, <3>2
  <2>5. QED
    BY <2>3, <2>4, DolStepSound
<1>2. PICK p : p = [bytes |-> b, entries |-> <<>>]
  OBVIOUS
<1>3. p \in DolPlaces /\ p.entries = <<>> /\ p.bytes = b
  BY <1>2, EmptySeq DEF DolPlaces
<1>4. ParseDol(b) = ReadDol[p]
  BY <1>2, ReadersStart
<1>5. Listing(<<>>)
  BY JoinedEmpty, RangeEmpty DEF Listing
<1>6. /\ Listing(ParseDol(b).entries)
      /\ Collected(ParseDol(b).entries, EntryBytes) = Cat(Collected(<<>>, EntryBytes), b)
  BY <1>1, <1>3, <1>4, <1>5 DEF DolSound
<1>7. Cat(Collected(<<>>, EntryBytes), b) = b
  BY CollectedEmpty, JoinedEmpty DEF Over
<1>8. QED
  BY <1>6, <1>7

(* Each entry of its bytes: nothing of a list is passed over.              *)
LEMMA DolIsRead ==
  ASSUME NEW b \in Seq(Byte), ParseDol(b).ok
  PROVE  LET entries == ParseDol(b).entries IN
         /\ b = FlattenSeq([i \in DOMAIN entries |-> Append(entries[i].tag, entries[i].length)])
         /\ \A i \in DOMAIN entries : ValidDataTag(entries[i].tag)
<1>1. PICK entries : entries = ParseDol(b).entries
  OBVIOUS
<1>2. Over(entries, Entries) /\ (\A e \in Range(entries) : ValidDataTag(e.tag))
      /\ Collected(entries, EntryBytes) = b
  BY <1>1, DolSoundly DEF Listing
<1>3. ASSUME NEW i \in DOMAIN entries
      PROVE  /\ EntryBytes[entries[i]] = Append(entries[i].tag, entries[i].length)
             /\ entries[i] \in Range(entries)
  <2>1. entries[i] \in Range(entries) /\ entries[i] \in Entries
    BY <1>2, RangeOf DEF Range
  <2>2. QED
    BY <2>1 DEF EntryBytes
<1>4. [i \in DOMAIN entries |-> EntryBytes[entries[i]]] =
        [i \in DOMAIN entries |-> Append(entries[i].tag, entries[i].length)]
  BY <1>3
<1>5. Collected(entries, EntryBytes) =
        FlattenSeq([i \in DOMAIN entries |-> Append(entries[i].tag, entries[i].length)])
  BY <1>4 DEF Collected, Mapped
<1>6. QED
  BY <1>1, <1>2, <1>3, <1>5

-----------------------------------------------------------------------------
(* What is built from a list.                                              *)

(* What each entry is answered with.                                       *)
Slots == [e \in Entries |-> Slot(e, Store)]

LEMMA SlotsGive ==
  /\ Gives(Slots, Entries, Seq(Byte))
  /\ \A e \in Entries : /\ Len(Slots[e]) = e.length /\ e.length \in Nat
                        /\ Over(Slots[e], Byte)
                        /\ \A k \in 1..e.length :
                             Slots[e][k] = IF k <= Len(ValueIn(Store, e.tag))
                                           THEN ValueIn(Store, e.tag)[k] ELSE 0
<1>1. ASSUME NEW e \in Entries
      PROVE  /\ Slots[e] \in Seq(Byte) /\ Len(Slots[e]) = e.length /\ e.length \in Nat
             /\ \A k \in 1..e.length :
                  Slots[e][k] = IF k <= Len(ValueIn(Store, e.tag))
                                THEN ValueIn(Store, e.tag)[k] ELSE 0
  <2>1. PICK n, v : n = e.length /\ v = ValueIn(Store, e.tag)
    OBVIOUS
  <2>2. n \in Nat
    BY <2>1, ByteNat DEF Entries
  <2>3. v \in Seq(Byte)
    BY <2>1, ParsingAssumption, EmptySeq DEF ValueIn
  <2>4. PICK s : s = [k \in 1..n |-> IF k <= Len(v) THEN v[k] ELSE 0]
    OBVIOUS
  <2>5. Slots[e] = s
    BY <2>1, <2>4 DEF Slots, Slot
  <2>6. 0 \in Byte
    BY ByteNat
  <2>7. ASSUME NEW k \in 1..n
        PROVE  (IF k <= Len(v) THEN v[k] ELSE 0) \in Byte
    <3>1. CASE k <= Len(v)
      <4>1. k \in 1..Len(v)
        BY <2>3, <3>1, LenProperties
      <4>2. v[k] \in Byte
        BY <2>3, <4>1, ElementOfSeq
      <4>3. QED
        BY <3>1, <4>2
    <3>2. CASE ~ (k <= Len(v))
      BY <2>6, <3>2
    <3>3. QED
      BY <3>1, <3>2
  <2>8. [k \in 1..n |-> IF k <= Len(v) THEN v[k] ELSE 0] \in Seq(Byte)
    BY <2>2, <2>7
  <2>9. Len(s) = n /\ \A k \in 1..n : s[k] = IF k <= Len(v) THEN v[k] ELSE 0
    BY <2>2, <2>4
  <2>10. QED
    BY <2>1, <2>2, <2>4, <2>5, <2>8, <2>9
<1>2. Slots = [e \in Entries |-> Slots[e]]
  BY DEF Slots
<1>3. Slots \in [Entries -> Seq(Byte)]
  BY <1>1, <1>2
<1>4. QED
  BY <1>1, <1>3 DEF Gives, Over

(* As long as what the entries ask for: the sum the code keeps.            *)
Sums(entries, f) ==
  f = [n \in 0..Len(entries) |-> IF n = 0 THEN 0 ELSE f[n - 1] + entries[n].length]

LEMMA SlotsSum ==
  ASSUME NEW entries, Over(entries, Entries)
  PROVE  \E f : /\ Sums(entries, f)
                /\ \A n \in 0..Len(entries) : f[n] = Len(Collected(Upto(entries, n), Slots))
<1>1. PICK m : m = Len(entries)
  OBVIOUS
<1>2. m \in Nat
  BY <1>1, Measured
<1>3. PICK f : f = [n \in 0..m |-> Len(Collected(Upto(entries, n), Slots))]
  OBVIOUS
<1>4. ASSUME NEW n \in 0..m
      PROVE  f[n] = IF n = 0 THEN 0 ELSE f[n - 1] + entries[n].length
  <2>1. CASE n = 0
    <3>1. Len(Upto(entries, 0)) = 0 /\ Over(Upto(entries, 0), Entries)
      BY <1>1, <1>2, CutJoined
    <3>2. Upto(entries, 0) = <<>>
      BY <3>1, Measured
    <3>3. Len(Collected(<<>>, Slots)) = 0
      BY CollectedEmpty, EmptySeq
    <3>4. QED
      BY <1>3, <2>1, <3>2, <3>3
  <2>2. CASE n # 0
    <3>1. PICK k : k = n - 1
      OBVIOUS
    <3>2. k \in Nat /\ k + 1 = n /\ k + 1 <= m /\ k <= m /\ k \in 0..m
      BY <1>2, <2>2, <3>1
    <3>3. PICK u, e : u = Upto(entries, k) /\ e = entries[n]
      OBVIOUS
    <3>4. Over(u, Entries)
      BY <1>1, <3>2, <3>3, CutJoined
    <3>5. e \in Entries
      <4>1. n \in 1..Len(entries)
        BY <1>1, <1>2, <2>2
      <4>2. QED
        BY <3>3, <4>1, ElementOfSeq DEF Over
    <3>6. Upto(entries, n) = Append(u, e)
      BY <1>1, <3>2, <3>3, UptoNext
    <3>7. PICK w : w = <<e>>
      OBVIOUS
    <3>8. Append(u, e) = Cat(u, w) /\ Over(w, Entries)
      BY <3>4, <3>5, <3>7, AppendIsConcat, One DEF Over, Cat
    <3>9. /\ Over(Collected(u, Slots), Byte) /\ Over(Collected(w, Slots), Byte)
          /\ Collected(Cat(u, w), Slots) = Cat(Collected(u, Slots), Collected(w, Slots))
      BY <3>4, <3>8, SlotsGive, CollectedCat
    <3>10. Collected(w, Slots) = Slots[e]
      BY <3>5, <3>7, SlotsGive, CollectedOne
    <3>11. Len(Cat(Collected(u, Slots), Collected(w, Slots))) =
             Len(Collected(u, Slots)) + Len(Collected(w, Slots))
      <4>1. Over(Collected(u, Slots), Byte) /\ Over(Collected(w, Slots), Byte)
        BY <3>9
      <4>2. QED
        BY <4>1, Joined
    <3>12. Len(Collected(w, Slots)) = e.length
      BY <3>5, <3>10, SlotsGive
    <3>13. f[n] = Len(Collected(Upto(entries, n), Slots)) /\ f[k] = Len(Collected(u, Slots))
      BY <1>3, <3>2, <3>3
    <3>14. f[n] = f[k] + e.length
      BY <3>6, <3>8, <3>9, <3>11, <3>12, <3>13
    <3>15. QED
      BY <2>2, <3>1, <3>3, <3>14
  <2>3. QED
    BY <2>1, <2>2
<1>5. f = [n \in 0..m |-> f[n]]
  BY <1>3
<1>6. f = [n \in 0..m |-> IF n = 0 THEN 0 ELSE f[n - 1] + entries[n].length]
  BY <1>4, <1>5
<1>7. Sums(entries, f)
  BY <1>1, <1>6 DEF Sums
<1>8. QED
  BY <1>1, <1>3, <1>7

(* There is only one such sum.                                             *)
LEMMA SumsAgree ==
  ASSUME NEW entries, Over(entries, Entries), NEW f, NEW g, Sums(entries, f), Sums(entries, g),
         NEW n \in 0..Len(entries)
  PROVE  f[n] = g[n]
<1> DEFINE wrong == {i \in 0..Len(entries) : f[i] # g[i]}
<1>0. Len(entries) \in Nat
  BY Measured
<1>1. SUFFICES ASSUME wrong # {} PROVE FALSE
  OBVIOUS
<1>2. PICK i \in wrong : \A j \in wrong : i <= j
  <2>1. wrong \subseteq Nat
    BY <1>0
  <2> HIDE DEF wrong
  <2>2. QED
    BY <1>1, <2>1, LeastNumber
<1>3. i \in 0..Len(entries) /\ f[i] # g[i]
  BY <1>2
<1>4. /\ f[i] = IF i = 0 THEN 0 ELSE f[i - 1] + entries[i].length
      /\ g[i] = IF i = 0 THEN 0 ELSE g[i - 1] + entries[i].length
  BY <1>3 DEF Sums
<1>5. i # 0 => f[i - 1] = g[i - 1]
  <2>1. SUFFICES ASSUME i # 0 PROVE i - 1 \notin wrong /\ i - 1 \in 0..Len(entries)
    OBVIOUS
  <2>2. i - 1 \in 0..Len(entries) /\ ~ (i <= i - 1)
    BY <1>0, <1>3, <2>1
  <2> HIDE DEF wrong
  <2>3. QED
    BY <1>2, <2>2
<1>6. QED
  BY <1>3, <1>4, <1>5

(* What is asked for is as long as what is answered.                       *)
LEMMA TotalIs ==
  ASSUME NEW entries, Over(entries, Entries)
  PROVE  TotalLength(entries) = Len(Collected(entries, Slots))
<1> DEFINE total == CHOOSE f :
             f = [n \in 0..Len(entries) |-> IF n = 0 THEN 0 ELSE f[n - 1] + entries[n].length]
<1>1. TotalLength(entries) = total[Len(entries)]
  BY DEF TotalLength
<1>2. PICK f : /\ Sums(entries, f)
               /\ \A n \in 0..Len(entries) : f[n] = Len(Collected(Upto(entries, n), Slots))
  BY SlotsSum
<1>3. Sums(entries, total)
  BY <1>2 DEF Sums
<1> HIDE DEF total
<1>4. Len(entries) \in Nat /\ Len(entries) \in 0..Len(entries) /\ Len(entries) <= Len(entries)
  BY Measured
<1>5. total[Len(entries)] = f[Len(entries)]
  BY <1>2, <1>3, <1>4, SumsAgree
<1>6. Upto(entries, Len(entries)) = entries
  <2>1. Over(<<>>, Entries) /\ Cat(entries, <<>>) = entries
    BY JoinedEmpty
  <2>2. Upto(Cat(entries, <<>>), Len(entries)) = entries
    BY <2>1, JoinedCut
  <2>3. QED
    BY <2>1, <2>2
<1>7. QED
  BY <1>1, <1>2, <1>4, <1>5, <1>6

(* Each entry is answered at its place.                                    *)
LEMMA AnsweredInPlace ==
  ASSUME NEW entries, Over(entries, Entries)
  PROVE  Answered(entries, Collected(entries, Slots))
<1>1. PICK values : values = Collected(entries, Slots)
  OBVIOUS
<1>2. Len(values) = TotalLength(entries)
  BY <1>1, TotalIs
<1>3. DOMAIN entries = 1..Len(entries) /\ Len(entries) \in Nat
  BY RangeOf, Measured
<1>4. ASSUME NEW i \in DOMAIN entries, NEW k \in 1..entries[i].length
      PROVE  values[PlaceOf(entries, i) + k] = Slots[entries[i]][k] /\ entries[i] \in Entries
  <2>1. PICK m : m = i - 1
    OBVIOUS
  <2>2. m \in Nat /\ m <= Len(entries) /\ m + 1 = i /\ i \in 1..Len(entries)
        /\ Len(entries) - m >= 1
    BY <1>3, <2>1
  <2>3. PICK u, a, e : u = Upto(entries, m) /\ a = After(entries, m) /\ e = entries[i]
    OBVIOUS
  <2>4. Over(u, Entries) /\ Over(a, Entries) /\ Len(a) = Len(entries) - m /\ entries = Cat(u, a)
    BY <2>2, <2>3, CutJoined
  <2>5. a[1] = e /\ a # <<>> /\ e \in Entries
    <3>1. entries \in Seq(Entries) /\ m \in 0..Len(entries) /\ 1 \in 1..(Len(entries) - m)
      BY <1>3, <2>2 DEF Over
    <3>2. a[1] = entries[m + 1]
      BY <2>3, <3>1, SplitAt
    <3>3. Len(a) # 0
      BY <2>2, <2>4
    <3>4. QED
      BY <2>2, <2>3, <2>4, <3>1, <3>2, <3>3, Measured, ElementOfSeq
  <2>6. PICK t : Over(t, Entries) /\ a = Cat(<<e>>, t)
    <3>1. Over(a, Entries) /\ a # <<>>
      BY <2>4, <2>5
    <3>2. PICK x \in Entries : \E t : Over(t, Entries) /\ a = Cat(<<x>>, t) /\ x = a[1]
      BY <3>1, Uncons
    <3>3. x = e
      BY <2>5, <3>2
    <3>4. QED
      BY <3>2, <3>3
  <2>7. PICK p, q, r : p = Collected(u, Slots) /\ q = Slots[e] /\ r = Collected(t, Slots)
    OBVIOUS
  <2>8. Over(p, Byte) /\ Over(r, Byte) /\ Over(q, Byte) /\ Len(q) = e.length
    BY <2>4, <2>5, <2>6, <2>7, SlotsGive, CollectedTyped
  <2>9. values = Cat(p, Cat(q, r))
    <3>1. Collected(Cat(u, a), Slots) = Cat(Collected(u, Slots), Collected(a, Slots))
      BY <2>4, SlotsGive, CollectedCat
    <3>2. Collected(Cat(<<e>>, t), Slots) = Cat(Slots[e], Collected(t, Slots))
      BY <2>5, <2>6, SlotsGive, CollectedCons
    <3>3. QED
      BY <1>1, <2>4, <2>6, <2>7, <3>1, <3>2
  <2>10. PlaceOf(entries, i) = Len(p)
    BY <2>1, <2>3, <2>4, <2>7, TotalIs DEF PlaceOf, Upto
  <2>11. Cat(p, Cat(q, r))[Len(p) + k] = q[k]
    <3>1. p \in Seq(Byte) /\ q \in Seq(Byte) /\ r \in Seq(Byte)
      BY <2>8 DEF Over
    <3>2. Len(p) \in Nat /\ Len(q) \in Nat /\ Len(r) \in Nat
      BY <3>1, LenProperties
    <3>3. k \in 1..Len(q)
      BY <2>3, <2>8
    <3>4. PICK z : z = q \o r
      OBVIOUS
    <3>5. /\ z \in Seq(Byte) /\ Len(z) = Len(q) + Len(r)
          /\ \A j \in 1..(Len(q) + Len(r)) : z[j] = IF j <= Len(q) THEN q[j] ELSE r[j - Len(q)]
      BY <3>1, <3>4, ConcatProperties
    <3>6. k \in 1..(Len(q) + Len(r)) /\ k <= Len(q)
      BY <3>2, <3>3
    <3>7. z[k] = q[k]
      BY <3>5, <3>6
    <3>8. \A j \in 1..(Len(p) + Len(z)) : (p \o z)[j] = IF j <= Len(p) THEN p[j] ELSE z[j - Len(p)]
      BY <3>1, <3>5, ConcatProperties
    <3>9. /\ Len(p) + k \in 1..(Len(p) + Len(z)) /\ ~ (Len(p) + k <= Len(p))
          /\ Len(p) + k - Len(p) = k
      BY <3>2, <3>3, <3>5
    <3>10. (p \o z)[Len(p) + k] = z[k]
      BY <3>8, <3>9
    <3>11. QED
      BY <3>4, <3>7, <3>10 DEF Cat
  <2>12. QED
    BY <2>3, <2>5, <2>7, <2>9, <2>10, <2>11
<1>5. QED
  BY <1>1, <1>2, <1>4, SlotsGive DEF Answered

(* The command of up to 252 bytes of data is one object that is read back. *)
LEMMA SentIsRead ==
  ASSUME NEW values, Over(values, Byte), Len(values) <= MaxDolOutput
  PROVE  SentInTemplate(values, GpoData(values))
<1>1. PICK n, tag : n = Len(values) /\ tag = <<131>>
  OBVIOUS
<1>2. n \in Nat /\ n <= 252 /\ n <= MaxValueLength /\ n <= LongestLength
  BY <1>1, Measured, EncodingAssumption, LimitTyped, LongestTyped
<1>3. 131 \in Byte
  BY ByteNat
<1>4. Over(tag, Byte) /\ Len(tag) = 1 /\ tag[1] = 131
  BY <1>1, <1>3, Short1 DEF Over
<1>5. ~ Constructed(tag[1]) /\ ~ Continued(tag[1]) /\ ValidDataTag(tag)
  BY <1>4 DEF Constructed, Continued, ValidDataTag, Reserved
<1>6. PICK o : o = Object(tag, values, <<>>)
  OBVIOUS
<1>7. o.tag = tag /\ o.value = values /\ o.children = <<>> /\ ~o.constructed /\ o.depth = 0
  BY <1>5, <1>6 DEF Object
<1>8. ProperObject(o) /\ Proper(<<>>) /\ Listed(<<>>)
  BY <1>4, <1>5, <1>6, <1>7, ProperEmpty, ListedEmpty DEF ProperObject, Over
<1>9. <<o>> = Cat(<<o>>, <<>>)
  <2>1. Over(<<o>>, {o})
    BY One
  <2>2. QED
    BY <2>1, JoinedEmpty
<1>10. PICK a : a = <<o>>
  OBVIOUS
<1>11. /\ Proper(a) /\ Encoded(a) = TlvOf(tag, values)
       /\ Range(Flatten(a)) = {o} /\ Range(a) = {o} /\ Len(Flatten(a)) = 1
  <2>1. /\ Proper(Cat(<<o>>, <<>>))
        /\ Range(Cat(<<o>>, <<>>)) = {o} \cup Range(<<>>)
        /\ Range(Flatten(Cat(<<o>>, <<>>))) =
             {o} \cup Range(Flatten(o.children)) \cup Range(Flatten(<<>>))
        /\ Len(Flatten(Cat(<<o>>, <<>>))) = 1 + Len(Flatten(o.children)) + Len(Flatten(<<>>))
    BY <1>7, <1>8, ProperCons
  <2>2. Encoded(<<o>>) = TlvOf(o.tag, o.value)
    BY <1>8, ProperParts, EncodedOne
  <2>3. Range(Flatten(<<>>)) = {} /\ Len(Flatten(<<>>)) = 0 /\ Range(<<>>) = {}
    BY ListedEmpty, RangeEmpty
  <2>4. Cat(<<o>>, <<>>) = a /\ o.children = <<>> /\ o.tag = tag /\ o.value = values
    BY <1>7, <1>9, <1>10
  <2>5. Proper(a) /\ Range(a) = {o}
    BY <2>1, <2>3, <2>4
  <2>6. Range(Flatten(a)) = {o} /\ Len(Flatten(a)) = 1
    <3>1. PICK c : c = o.children
      OBVIOUS
    <3>2. Range(Flatten(c)) = {} /\ Len(Flatten(c)) = 0
      BY <2>3, <2>4, <3>1
    <3>3. Range(Flatten(Cat(<<o>>, <<>>))) = {o}
      BY <2>1, <2>3, <3>1, <3>2
    <3>4. Len(Flatten(Cat(<<o>>, <<>>))) = 1
      <4>1. PICK m, x, y : /\ m = Len(Flatten(Cat(<<o>>, <<>>)))
                           /\ x = Len(Flatten(c)) /\ y = Len(Flatten(<<>>))
        OBVIOUS
      <4>2. x = 0 /\ y = 0
        BY <2>3, <3>2, <4>1
      <4>3. m = 1 + x + y
        BY <2>1, <3>1, <4>1
      <4>4. m = 1
        BY <4>2, <4>3
      <4>5. QED
        BY <4>1, <4>4
    <3>5. QED
      BY <2>4, <3>3, <3>4
  <2>7. Encoded(a) = TlvOf(tag, values)
    BY <1>10, <2>2, <2>4
  <2>8. QED
    BY <2>5, <2>6, <2>7
<1>12. Depth(a) <= MaxDepth
  <2>1. Listed(a) /\ \A x \in Range(a) : x.depth <= MaxDepth
    BY <1>7, <1>11, ProperWritten, LimitsTyped
  <2>2. QED
    BY <2>1, DepthBound, LimitsTyped
<1>13. WithinLimits(a)
  <2>1. 1 <= MaxNodes
    BY EncodingAssumption
  <2>2. QED
    BY <1>1, <1>2, <1>7, <1>11, <1>12, <2>1 DEF WithinLimits
<1>14. GpoData(values) = TlvOf(tag, values)
  <2>1. BerLength(n) = LengthField(n)
    BY <1>2 DEF BerLength, LengthField
  <2>2. QED
    BY <1>1, <2>1 DEF GpoData, TlvOf, Cat
<1>15. Len(TlvOf(tag, values)) <= 255
  <2>1. PICK f : f = LengthField(n)
    OBVIOUS
  <2>2. Len(TlvOf(tag, values)) = Len(tag) + Len(f) + n /\ Len(f) <= 2
    <3>1. /\ Len(LengthField(Len(values))) \in 1..3
          /\ Len(TlvOf(tag, values)) = Len(tag) + Len(LengthField(Len(values))) + Len(values)
      BY <1>1, <1>2, <1>4, <1>5, TlvTyped
    <3>2. n < 128 \/ (n >= 128 /\ n <= 255)
      BY <1>2
    <3>3. Len(f) <= 2
      <4>1. CASE n < 128
        <5>1. Len(LengthField(n)) = 1
          BY <1>2, <4>1, FieldTyped
        <5>2. QED
          BY <2>1, <5>1
      <4>2. CASE n >= 128 /\ n <= 255
        <5>1. Len(LengthField(n)) = 2
          BY <1>2, <4>2, FieldTyped
        <5>2. QED
          BY <2>1, <5>1
      <4>3. QED
        BY <3>2, <4>1, <4>2
    <3>4. QED
      BY <1>1, <2>1, <3>1, <3>3
  <2>3. Len(f) \in Nat
    BY <1>2, <2>1, FieldTyped
  <2>4. QED
    BY <1>2, <1>4, <2>2, <2>3
<1>16. ParseMany(Encoded(a)) = Sequence(a, 1)
  <2>1. Len(Encoded(a)) <= LongestLength
    BY <1>1, <1>2, <1>11, <1>15, <1>4, <1>5, TlvTyped, LongestTyped
  <2>2. QED
    BY <1>11, <1>13, <2>1, ParserComplete
<1>17. PICK r : r = ParseMany(GpoData(values))
  OBVIOUS
<1>18. r.ok /\ r.items = a
  BY <1>11, <1>14, <1>16, <1>17 DEF Sequence
<1>19. Len(a) = 1 /\ a[1] = o
  BY <1>10, One
<1>20. Only(r, {<<131>>}) /\ r.items[1].value = values
  BY <1>1, <1>7, <1>18, <1>19 DEF Only
<1>21. QED
  BY <1>14, <1>15, <1>17, <1>20 DEF SentInTemplate

(* So is whatever is built from a list of entries, in either way.          *)
LEMMA BuiltFromList ==
  ASSUME NEW entries, Over(entries, Entries)
  PROVE  BuiltAs(entries, BuildDol(entries, Store, "ZeroPadMissingAndShort"),
                 BuildDol(entries, Store, "RequireExactValues"))
<1>1. PICK values, padded, exact :
        /\ values = Collected(entries, Slots)
        /\ padded = BuildDol(entries, Store, "ZeroPadMissingAndShort")
        /\ exact = BuildDol(entries, Store, "RequireExactValues")
  OBVIOUS
<1>2. FlattenSeq([i \in DOMAIN entries |-> Slot(entries[i], Store)]) = values
  <2>1. ASSUME NEW i \in DOMAIN entries PROVE Slots[entries[i]] = Slot(entries[i], Store)
    <3>1. entries[i] \in Entries
      BY RangeOf DEF Range
    <3>2. QED
      BY <3>1 DEF Slots
  <2>2. [i \in DOMAIN entries |-> Slots[entries[i]]] =
          [i \in DOMAIN entries |-> Slot(entries[i], Store)]
    BY <2>1
  <2>3. QED
    BY <1>1, <2>2 DEF Collected, Mapped
<1>3. PICK total : total = TotalLength(entries)
  OBVIOUS
<1>4. padded = IF total > MaxDolOutput THEN [ok |-> FALSE] ELSE [ok |-> TRUE, values |-> values]
  BY <1>1, <1>2, <1>3 DEF BuildDol
<1>5. exact = IF \/ total > MaxDolOutput
                 \/ \E i \in DOMAIN entries : Short(entries[i], Store)
              THEN [ok |-> FALSE] ELSE [ok |-> TRUE, values |-> values]
  BY <1>1, <1>2, <1>3 DEF BuildDol
<1>6. total = Len(values) /\ Over(values, Byte)
  BY <1>1, <1>3, TotalIs, SlotsGive, CollectedTyped
<1>7. total > MaxDolOutput <=> ~ (total <= MaxDolOutput)
  BY <1>6, Measured, EncodingAssumption
<1>8. padded.ok <=> total <= MaxDolOutput
  BY <1>4, <1>7
<1>9. padded.ok => /\ Answered(entries, padded.values)
                   /\ SentInTemplate(padded.values, GpoData(padded.values))
  <2>1. SUFFICES ASSUME padded.ok
                 PROVE  Answered(entries, values) /\ SentInTemplate(values, GpoData(values))
    BY <1>4
  <2>2. Len(values) <= MaxDolOutput
    BY <1>6, <1>8, <2>1
  <2>3. QED
    BY <1>1, <1>6, <2>2, AnsweredInPlace, SentIsRead
<1>10. exact.ok => padded.ok /\ exact.values = padded.values
  BY <1>4, <1>5
<1>11. exact.ok <=> padded.ok /\ \A i \in DOMAIN entries : ~Short(entries[i], Store)
  BY <1>4, <1>5
<1>12. QED
  BY <1>1, <1>3, <1>8, <1>9, <1>10, <1>11 DEF BuiltAs

-----------------------------------------------------------------------------
(* What is in a list of proper objects.                                    *)

(* An element and what is before and after it.                             *)
LEMMA AroundElement ==
  ASSUME NEW T, NEW s, Over(s, T), NEW x \in Range(s)
  PROVE  \E u, t : Over(u, T) /\ Over(t, T) /\ s = Cat(u, Cat(<<x>>, t)) /\ x \in T
<1>1. PICK i \in 1..Len(s) : s[i] = x
  BY RangeOf
<1>2. PICK m : m = i - 1
  OBVIOUS
<1>3. Len(s) \in Nat
  BY Measured
<1>4. m \in Nat /\ m <= Len(s) /\ m + 1 = i /\ Len(s) - m >= 1
  BY <1>1, <1>2, <1>3
<1>5. PICK u, a : u = Upto(s, m) /\ a = After(s, m)
  OBVIOUS
<1>6. Over(u, T) /\ Over(a, T) /\ Len(a) = Len(s) - m /\ s = Cat(u, a)
  BY <1>4, <1>5, CutJoined
<1>7. a[1] = x /\ a # <<>>
  <2>1. s \in Seq(T) /\ m \in 0..Len(s) /\ 1 \in 1..(Len(s) - m)
    BY <1>3, <1>4 DEF Over
  <2>2. a[1] = s[m + 1]
    BY <1>5, <2>1, SplitAt
  <2>3. Len(a) # 0
    BY <1>4, <1>6
  <2>4. QED
    BY <1>1, <1>4, <1>6, <2>2, <2>3, Measured
<1>8. PICK y \in T : \E t : Over(t, T) /\ a = Cat(<<y>>, t) /\ y = a[1]
  BY <1>6, <1>7, Uncons
<1>9. QED
  BY <1>6, <1>7, <1>8

(* What one element gives is in what is collected.                         *)
LEMMA GivenIsCollected ==
  ASSUME NEW S, NEW T, NEW F, Gives(F, S, Seq(T)), NEW s, Over(s, S), NEW x \in Range(s)
  PROVE  Range(F[x]) \subseteq Range(Collected(s, F))
<1>1. PICK u, t : Over(u, S) /\ Over(t, S) /\ s = Cat(u, Cat(<<x>>, t)) /\ x \in S
  BY AroundElement
<1>2. PICK v : v = Cat(<<x>>, t)
  OBVIOUS
<1>3. Over(v, S)
  <2>1. Over(<<x>>, S)
    BY <1>1, One
  <2>2. Over(Cat(<<x>>, t), S)
    BY <1>1, <2>1, Joined
  <2>3. QED
    BY <1>2, <2>2
<1>4. PICK p, q, r : p = Collected(u, F) /\ q = F[x] /\ r = Collected(t, F)
  OBVIOUS
<1>5. Over(p, T) /\ Over(q, T) /\ Over(r, T)
  <2>1. Over(Collected(u, F), T) /\ Over(Collected(t, F), T)
    BY <1>1, CollectedTyped
  <2>2. F[x] \in Seq(T)
    BY <1>1 DEF Gives
  <2>3. QED
    BY <1>4, <2>1, <2>2 DEF Over
<1>6. Collected(s, F) = Cat(p, Cat(q, r))
  <2>1. Collected(Cat(u, v), F) = Cat(Collected(u, F), Collected(v, F))
    BY <1>1, <1>3, CollectedCat
  <2>2. Collected(Cat(<<x>>, t), F) = Cat(F[x], Collected(t, F))
    BY <1>1, CollectedCons
  <2>3. QED
    BY <1>1, <1>2, <1>4, <2>1, <2>2
<1>7. PICK w : w = Cat(q, r)
  OBVIOUS
<1>8. Over(w, T) /\ Range(w) = Range(q) \cup Range(r)
  <2>1. Over(Cat(q, r), T) /\ Range(Cat(q, r)) = Range(q) \cup Range(r)
    BY <1>5, Joined, RangeCat
  <2>2. QED
    BY <1>7, <2>1
<1>9. Range(Cat(p, w)) = Range(p) \cup Range(w)
  BY <1>5, <1>8, RangeCat
<1>10. QED
  BY <1>4, <1>6, <1>7, <1>8, <1>9

(* The objects in a proper object are proper ones.                         *)
LEMMA ChildrenProper ==
  ASSUME NEW a, Proper(a), NEW o \in Range(a)
  PROVE  ProperObject(o) /\ Proper(o.children)
<1>1. Listed(a) /\ ProperObject(o) /\ \A x \in Range(a) : ProperObject(x)
  BY ProperWritten
<1>2. Listed(o.children) /\ o.inside = Flatten(o.children) /\ ListedObject(o)
  BY <1>1, ProperParts
<1>3. Over(a, Range(a)) /\ \A x \in Range(a) : ListedObject(x)
  BY <1>1, ListedIs
<1>4. PICK S : S = Range(a)
  OBVIOUS
<1>5. /\ Gives(WithInside(S), S, Seq(Around(S)))
      /\ WithInside(S)[o] = Cat(<<o>>, o.inside)
      /\ Over(<<o>>, Around(S)) /\ Over(o.inside, Around(S))
  BY <1>3, <1>4, WithInsideGives
<1>6. Flatten(a) = Collected(a, WithInside(S))
  BY <1>3, <1>4, FlattenCollected
<1>7. Range(WithInside(S)[o]) \subseteq Range(Collected(a, WithInside(S)))
  BY <1>3, <1>4, <1>5, GivenIsCollected
<1>8. Range(Cat(<<o>>, o.inside)) = Range(<<o>>) \cup Range(o.inside)
  BY <1>5, RangeCat
<1>9. Range(Flatten(o.children)) \subseteq Range(Flatten(a))
  BY <1>2, <1>5, <1>6, <1>7, <1>8
<1>10. \A x \in Range(Flatten(a)) : ProperObject(x)
  BY DEF Proper
<1>11. QED
  BY <1>1, <1>2, <1>9, <1>10 DEF Proper

-----------------------------------------------------------------------------
(* The objects with a tag.                                                 *)
Tagged(S, tag)  == {o \in S : o.tag = tag}
WithTag(S, tag) == [o \in S |-> IF o.tag = tag THEN <<o>> ELSE <<>>]

LEMMA WithTagGives ==
  ASSUME NEW S, NEW tag
  PROVE  Gives(WithTag(S, tag), S, Seq(Tagged(S, tag)))
<1>1. ASSUME NEW o \in S
      PROVE  (IF o.tag = tag THEN <<o>> ELSE <<>>) \in Seq(Tagged(S, tag))
  <2>1. CASE o.tag = tag
    BY <2>1, Short1 DEF Tagged
  <2>2. CASE o.tag # tag
    BY <2>2, EmptySeq
  <2>3. QED
    BY <2>1, <2>2
<1>2. QED
  BY <1>1 DEF WithTag, Gives

LEMMA DirectCollected ==
  ASSUME NEW S, NEW items, Over(items, S), NEW tag
  PROVE  /\ Direct(items, tag) = Collected(items, WithTag(S, tag))
         /\ Over(Direct(items, tag), Tagged(S, tag))
<1>1. ASSUME NEW i \in DOMAIN items
      PROVE  WithTag(S, tag)[items[i]] = IF items[i].tag = tag THEN <<items[i]>> ELSE <<>>
  <2>1. items[i] \in S
    BY RangeOf DEF Range
  <2>2. QED
    BY <2>1 DEF WithTag
<1>2. [i \in DOMAIN items |-> WithTag(S, tag)[items[i]]] =
        [i \in DOMAIN items |-> IF items[i].tag = tag THEN <<items[i]>> ELSE <<>>]
  BY <1>1
<1>3. Direct(items, tag) = Collected(items, WithTag(S, tag))
  BY <1>2 DEF Direct, Collected, Mapped
<1>4. QED
  BY <1>3, WithTagGives, CollectedTyped

(* Of proper objects they are proper ones.                                 *)
LEMMA DirectProper ==
  ASSUME NEW a, Proper(a), NEW tag
  PROVE  /\ Over(Direct(a, tag), Tagged(Range(a), tag))
         /\ \A o \in Tagged(Range(a), tag) :
              ProperObject(o) /\ Proper(o.children) /\ o.tag = tag /\ Over(o.value, Byte)
<1>1. Over(a, Range(a))
  BY ProperWritten, ListedIs
<1>2. ASSUME NEW o \in Tagged(Range(a), tag)
      PROVE  ProperObject(o) /\ Proper(o.children) /\ o.tag = tag /\ Over(o.value, Byte)
  <2>1. o \in Range(a) /\ o.tag = tag
    BY DEF Tagged
  <2>2. ProperObject(o) /\ Proper(o.children)
    BY <2>1, ChildrenProper
  <2>3. QED
    BY <2>1, <2>2, ProperParts
<1>3. QED
  BY <1>1, <1>2, DirectCollected

(* The first element of a sequence that has one.                           *)
LEMMA FirstOf ==
  ASSUME NEW T, NEW s, Over(s, T), s # <<>>
  PROVE  s[1] \in T /\ s[1] \in Range(s)
<1>1. PICK x \in T : x = s[1]
  BY Uncons
<1>2. Over(s, Range(s))
  BY RangeOf
<1>3. PICK y \in Range(s) : y = s[1]
  BY <1>2, Uncons
<1>4. QED
  BY <1>1, <1>3

LEMMA NotEmpty ==
  ASSUME NEW s, Len(s) = 1
  PROVE  s # <<>>
<1>1. Len(<<>>) = 0
  BY EmptySeq
<1>2. QED
  BY <1>1

(* A template that has been read is a proper object.                       *)
LEMMA TemplateRead ==
  ASSUME NEW b, Over(b, Byte), NEW tags, Only(ParseMany(b), tags)
  PROVE  LET o == ParseMany(b).items[1] IN
         /\ ProperObject(o) /\ Proper(o.children) /\ o.tag \in tags
         /\ b = TlvOf(o.tag, o.value) /\ ParseMany(b).items = <<o>>
<1>1. PICK p, s, o : p = ParseMany(b) /\ s = p.items /\ o = s[1]
  OBVIOUS
<1>2. p.ok /\ Len(s) = 1 /\ o.tag \in tags
  BY <1>1 DEF Only
<1>3. Proper(s) /\ Encoded(s) = b
  BY <1>1, <1>2, ParserSound DEF Over
<1>4. Over(s, Range(s)) /\ s # <<>>
  BY <1>2, <1>3, ProperWritten, ListedIs, NotEmpty
<1>5. o \in Range(s)
  BY <1>1, <1>4, FirstOf
<1>6. ProperObject(o) /\ Proper(o.children)
  BY <1>3, <1>5, ChildrenProper
<1>7. s = <<o>>
  <2>0. PICK R : R = Range(s)
    OBVIOUS
  <2>1. PICK x \in R : \E t : Over(t, R) /\ s = Cat(<<x>>, t) /\ x = s[1]
    <3>1. Over(s, R) /\ s # <<>>
      BY <1>4, <2>0
    <3>2. QED
      BY <3>1, Uncons
  <2>2. PICK t : Over(t, R) /\ s = Cat(<<x>>, t) /\ x = s[1]
    BY <2>1
  <2>3. Len(t) = 0
    <3>1. Over(<<x>>, R) /\ Len(<<x>>) = 1
      BY <2>1, One
    <3>2. Len(Cat(<<x>>, t)) = Len(<<x>>) + Len(t) /\ Len(t) \in Nat
      BY <2>2, <3>1, Joined
    <3>3. QED
      BY <1>2, <2>2, <3>1, <3>2
  <2>4. t = <<>>
    BY <2>2, <2>3, Measured
  <2>5. Over(<<x>>, R)
    BY <2>1, One
  <2>6. Cat(<<x>>, <<>>) = <<x>>
    BY <2>5, JoinedEmpty
  <2>7. QED
    BY <1>1, <2>2, <2>4, <2>6
<1>8. b = TlvOf(o.tag, o.value)
  BY <1>3, <1>6, <1>7, ProperParts, EncodedOne
<1>9. QED
  BY <1>1, <1>2, <1>6, <1>7, <1>8

-----------------------------------------------------------------------------
(* The PDOL of a SELECT answer.                                            *)
Pdol == <<159, 56>>
ListsOf(S) == [o \in S |-> Direct(o.children, Pdol)]
Inside(S) == UNION {Range(o.children) : o \in S}

LEMMA ListsGive ==
  ASSUME NEW S, \A o \in S : Proper(o.children)
  PROVE  /\ Gives(ListsOf(S), S, Seq(Inside(S)))
         /\ \A x \in Inside(S) : Over(x.value, Byte)
<1>1. ASSUME NEW o \in S PROVE Direct(o.children, Pdol) \in Seq(Inside(S))
  <2>1. Over(Direct(o.children, Pdol), Tagged(Range(o.children), Pdol))
    BY DirectProper
  <2>2. Tagged(Range(o.children), Pdol) \subseteq Inside(S)
    BY DEF Tagged, Inside
  <2>3. Over(Direct(o.children, Pdol), Inside(S))
    BY <2>1, <2>2, OverMore
  <2>4. QED
    BY <2>3 DEF Over
<1>2. ASSUME NEW x \in Inside(S) PROVE Over(x.value, Byte)
  <2>1. PICK o \in S : x \in Range(o.children)
    BY DEF Inside
  <2>2. ProperObject(x)
    BY <2>1, ChildrenProper
  <2>3. QED
    BY <2>2, ProperParts
<1>3. QED
  BY <1>1, <1>2 DEF ListsOf, Gives

LEMMA ListsInTyped ==
  ASSUME NEW S, \A o \in S : Proper(o.children), NEW d, Over(d, S)
  PROVE  Over(ListsIn(d), Inside(S))
<1>1. ASSUME NEW i \in DOMAIN d PROVE ListsOf(S)[d[i]] = Direct(d[i].children, Pdol)
  <2>1. d[i] \in S
    BY RangeOf DEF Range
  <2>2. QED
    BY <2>1 DEF ListsOf
<1>2. [i \in DOMAIN d |-> ListsOf(S)[d[i]]] = [i \in DOMAIN d |-> Direct(d[i].children, Pdol)]
  BY <1>1
<1>3. ListsIn(d) = Collected(d, ListsOf(S))
  BY <1>2 DEF ListsIn, Collected, Mapped, Pdol
<1>4. QED
  BY <1>3, ListsGive, CollectedTyped

(* A list that is read is built from as the list says.                     *)
LEMMA ReadIsBuilt ==
  ASSUME NEW b, Over(b, Byte)
  PROVE  DolBuilt(ParseDol(b))
<1>1. SUFFICES ASSUME ParseDol(b).ok
               PROVE  LET e == ParseDol(b).entries IN
                      BuiltAs(e, BuildDol(e, Store, "ZeroPadMissingAndShort"),
                              BuildDol(e, Store, "RequireExactValues"))
  BY DEF DolBuilt
<1>2. Over(ParseDol(b).entries, Entries)
  BY <1>1, DolSoundly DEF Over, Listing
<1>3. QED
  BY <1>2, BuiltFromList

LEMMA ParsePdolIsBuilt ==
  ASSUME NEW b, Over(b, Byte)
  PROVE  DolBuilt(ParsePdol(b))
<1>1. PICK p : p = ParseMany(b)
  OBVIOUS
<1>2. DolBuilt(No)
  BY DEF DolBuilt, No
<1>3. CASE Only(p, {<<111>>})
  <2>1. PICK c : c = p.items[1].children
    OBVIOUS
  <2>2. Proper(c)
    BY <1>1, <1>3, <2>1, TemplateRead
  <2>3. PICK S, d, lists : S = Tagged(Range(c), <<165>>) /\ d = Direct(c, <<165>>) /\ lists = ListsIn(d)
    OBVIOUS
  <2>4. Over(d, S) /\ \A o \in S : Proper(o.children)
    BY <2>2, <2>3, DirectProper
  <2>5. Over(lists, Inside(S)) /\ \A x \in Inside(S) : Over(x.value, Byte)
    BY <2>3, <2>4, ListsInTyped, ListsGive
  <2>6. ParsePdol(b) = PdolOf(lists)
    BY <1>1, <1>3, <2>1, <2>3 DEF ParsePdol, PdolIn
  <2>7. CASE Len(lists) > 1
    BY <1>2, <2>6, <2>7 DEF PdolOf
  <2>8. CASE ~ (Len(lists) > 1) /\ lists = <<>>
    <3>1. PICK none : none = [ok |-> TRUE, entries |-> <<>>]
      OBVIOUS
    <3>2. PdolOf(lists) = none
      BY <2>8, <3>1 DEF PdolOf
    <3>3. none.entries = <<>> /\ Over(<<>>, Entries)
      BY <3>1, JoinedEmpty
    <3>4. DolBuilt(none)
      BY <3>3, BuiltFromList DEF DolBuilt
    <3>5. QED
      BY <2>6, <3>2, <3>4
  <2>9. CASE ~ (Len(lists) > 1) /\ lists # <<>>
    <3>1. lists[1] \in Inside(S)
      BY <2>5, <2>9, FirstOf
    <3>2. Over(lists[1].value, Byte)
      BY <2>5, <3>1
    <3>3. PdolOf(lists) = ParseDol(lists[1].value)
      BY <2>9 DEF PdolOf
    <3>4. QED
      BY <2>6, <3>2, <3>3, ReadIsBuilt
  <2>10. QED
    BY <2>7, <2>8, <2>9
<1>4. CASE ~ Only(p, {<<111>>})
  BY <1>1, <1>2, <1>4 DEF ParsePdol, PdolIn
<1>5. QED
  BY <1>3, <1>4

LEMMA DolFaithfulHolds ==
  ASSUME ParsingInv
  PROVE  DolFaithful
<1>1. Over(input, Byte) /\ input \in Seq(Byte)
  BY DEF ParsingInv, InputTyped, Over
<1>2. DolRead(ParseDol(input))
  BY <1>1, DolIsRead DEF DolRead
<1>3. QED
  BY <1>1, <1>2, ReadIsBuilt, ParsePdolIsBuilt DEF DolFaithful

(* Whatever bytes the card sends, a data object list is taken only for the *)
(* list whose bytes they are; what parse_dol or parse_pdol_from_fci reads  *)
(* is answered by build_dol_with_policy entry by entry, each at its place, *)
(* and what goes into the template 83 is one object that reads back.       *)
THEOREM DolIsFaithful == Spec => []DolFaithful
<1> HIDE DEF ParsingInv, DolFaithful, Spec
<1>1. ParsingInv => DolFaithful
  BY DolFaithfulHolds
<1>2. QED
  BY <1>1, InputIsBytes, PTL

-----------------------------------------------------------------------------
(* More of what is collected.                                              *)

(* A set has every sequence that has the empty one and, with a sequence,   *)
(* the sequence with one more in front.                                    *)
LEMMA EverySequence ==
  ASSUME NEW S, NEW P, <<>> \in P,
         \A x \in S : \A t \in P : Over(t, S) => Cat(<<x>>, t) \in P
  PROVE  \A s : Over(s, S) => s \in P
<1> DEFINE without == {n \in Nat : \E s : Over(s, S) /\ Len(s) = n /\ s \notin P}
<1>1. SUFFICES ASSUME NEW s, Over(s, S), s \notin P PROVE FALSE
  OBVIOUS
<1>2. Len(s) \in without /\ without \subseteq Nat
  BY <1>1, Measured
<1>3. PICK n \in without : \A m \in without : n <= m
  <2> HIDE DEF without
  <2>1. QED
    BY <1>2, LeastNumber
<1>4. PICK r : Over(r, S) /\ Len(r) = n /\ r \notin P
  BY <1>3
<1>5. r # <<>>
  BY <1>4
<1>6. PICK x \in S : \E t : Over(t, S) /\ r = Cat(<<x>>, t) /\ x = r[1]
  <2>1. Over(r, S) /\ r # <<>>
    BY <1>4, <1>5
  <2>2. QED
    BY <2>1, Uncons
<1>7. PICK t : Over(t, S) /\ r = Cat(<<x>>, t) /\ Len(t) \in Nat /\ Len(r) = Len(t) + 1
  <2>1. PICK t : Over(t, S) /\ r = Cat(<<x>>, t)
    BY <1>6
  <2>2. Over(<<x>>, S) /\ Len(<<x>>) = 1
    BY One
  <2>3. PICK w : w = <<x>>
    OBVIOUS
  <2>4. Over(w, S) /\ Over(t, S)
    BY <2>1, <2>2, <2>3
  <2>5. /\ Over(Cat(w, t), S) /\ Len(Cat(w, t)) = Len(w) + Len(t)
        /\ Len(w) \in Nat /\ Len(t) \in Nat
    BY <2>4, Joined
  <2>6. QED
    BY <2>1, <2>2, <2>3, <2>5
<1>8. t \notin P
  BY <1>4, <1>7
<1>9. Len(t) \in without
  BY <1>7, <1>8
<1>10. n <= Len(t)
  <2> HIDE DEF without
  <2>1. QED
    BY <1>3, <1>9
<1>11. QED
  BY <1>4, <1>7, <1>10

(* One by one they are the sequence.                                       *)
Singles(S) == [x \in S |-> <<x>>]

LEMMA SinglesGive ==
  ASSUME NEW S
  PROVE  Gives(Singles(S), S, Seq(S))
BY Short1 DEF Singles, Gives

LEMMA SinglesAre ==
  ASSUME NEW S, NEW s, Over(s, S)
  PROVE  Collected(s, Singles(S)) = s
<1> DEFINE P == {t \in Seq(S) : Collected(t, Singles(S)) = t}
<1>1. <<>> \in P
  BY CollectedEmpty, EmptySeq
<1>2. ASSUME NEW x \in S, NEW t \in P, Over(t, S) PROVE Cat(<<x>>, t) \in P
  <2>1. Collected(t, Singles(S)) = t
    OBVIOUS
  <2>2. Collected(Cat(<<x>>, t), Singles(S)) = Cat(Singles(S)[x], Collected(t, Singles(S)))
    BY <1>2, SinglesGive, CollectedCons
  <2>3. Singles(S)[x] = <<x>>
    BY DEF Singles
  <2>4. Over(<<x>>, S)
    BY One
  <2>5. Over(Cat(<<x>>, t), S)
    BY <1>2, <2>4, Joined
  <2>6. QED
    BY <2>1, <2>2, <2>3, <2>5 DEF Over
<1>3. s \in P
  <2> HIDE DEF P
  <2>1. QED
    BY <1>1, <1>2, EverySequence
<1>4. QED
  BY <1>3

(* What is collected of what is collected.                                 *)
Then(S, F, G) == [x \in S |-> Collected(F[x], G)]

LEMMA ThenGives ==
  ASSUME NEW S, NEW T, NEW U, NEW F, NEW G, Gives(F, S, Seq(T)), Gives(G, T, Seq(U))
  PROVE  Gives(Then(S, F, G), S, Seq(U))
<1>1. ASSUME NEW x \in S PROVE Collected(F[x], G) \in Seq(U)
  <2>1. Over(F[x], T)
    BY DEF Gives, Over
  <2>2. Over(Collected(F[x], G), U)
    BY <2>1, CollectedTyped
  <2>3. QED
    BY <2>2 DEF Over
<1>2. QED
  BY <1>1 DEF Then, Gives

LEMMA CollectedTwice ==
  ASSUME NEW S, NEW T, NEW U, NEW F, NEW G, Gives(F, S, Seq(T)), Gives(G, T, Seq(U)),
         NEW s, Over(s, S)
  PROVE  Collected(Collected(s, F), G) = Collected(s, Then(S, F, G))
<1> DEFINE P == {t \in Seq(S) : Collected(Collected(t, F), G) = Collected(t, Then(S, F, G))}
<1>1. <<>> \in P
  BY CollectedEmpty, EmptySeq
<1>2. ASSUME NEW x \in S, NEW t \in P, Over(t, S) PROVE Cat(<<x>>, t) \in P
  <2>1. PICK p, q, H : p = F[x] /\ q = Collected(t, F) /\ H = Then(S, F, G)
    OBVIOUS
  <2>2. Collected(q, G) = Collected(t, H)
    BY <2>1
  <2>3. Over(p, T) /\ Over(q, T)
    <3>1. F[x] \in Seq(T)
      BY DEF Gives
    <3>2. Over(Collected(t, F), T)
      BY <1>2, CollectedTyped
    <3>3. QED
      BY <2>1, <3>1, <3>2 DEF Over
  <2>4. Collected(Cat(<<x>>, t), F) = Cat(p, q)
    BY <1>2, <2>1, CollectedCons
  <2>5. Collected(Cat(p, q), G) = Cat(Collected(p, G), Collected(q, G))
    BY <2>3, CollectedCat
  <2>6. Gives(H, S, Seq(U)) /\ H[x] = Collected(p, G)
    BY <2>1, ThenGives DEF Then
  <2>7. Collected(Cat(<<x>>, t), H) = Cat(H[x], Collected(t, H))
    BY <1>2, <2>6, CollectedCons
  <2>8. Over(<<x>>, S)
    BY One
  <2>9. Over(Cat(<<x>>, t), S)
    BY <1>2, <2>8, Joined
  <2>10. Collected(Collected(Cat(<<x>>, t), F), G) = Collected(Cat(<<x>>, t), H)
    BY <2>2, <2>4, <2>5, <2>6, <2>7
  <2>11. QED
    BY <2>1, <2>9, <2>10 DEF Over
<1>3. s \in P
  <2> HIDE DEF P
  <2>1. QED
    BY <1>1, <1>2, EverySequence
<1>4. QED
  BY <1>3

(* Functions that agree collect the same.                                  *)
LEMMA CollectedSame ==
  ASSUME NEW S, NEW F, NEW G, \A x \in S : F[x] = G[x], NEW s, Over(s, S)
  PROVE  Collected(s, F) = Collected(s, G)
<1>1. ASSUME NEW i \in DOMAIN s PROVE F[s[i]] = G[s[i]]
  <2>1. s[i] \in S
    BY RangeOf DEF Range
  <2>2. QED
    BY <2>1
<1>2. Mapped(s, F) = Mapped(s, G)
  BY <1>1 DEF Mapped
<1>3. QED
  BY <1>2 DEF Collected

(* Lengths that add up for each add up for all.                            *)
Adding(S, F, A, B) == \A x \in S : Len(F[x]) = Len(A[x]) + Len(B[x])
AddUp(s, F, A, B)  ==
  /\ Len(Collected(s, F)) = Len(Collected(s, A)) + Len(Collected(s, B))
  /\ Len(Collected(s, A)) \in Nat /\ Len(Collected(s, B)) \in Nat

LEMMA LengthsAddUp ==
  ASSUME NEW S, NEW T, NEW F, NEW A, NEW B, Gives(F, S, Seq(T)), Gives(A, S, Seq(T)),
         Gives(B, S, Seq(T)), Adding(S, F, A, B), NEW s, Over(s, S)
  PROVE  AddUp(s, F, A, B)
<1> DEFINE P == {t \in Seq(S) :
                   Len(Collected(t, F)) = Len(Collected(t, A)) + Len(Collected(t, B))}
<1>1. <<>> \in P
  BY CollectedEmpty, EmptySeq
<1>2. ASSUME NEW x \in S, NEW t \in P, Over(t, S) PROVE Cat(<<x>>, t) \in P
  <2>1. ASSUME NEW G, Gives(G, S, Seq(T))
        PROVE  /\ Len(Collected(Cat(<<x>>, t), G)) = Len(G[x]) + Len(Collected(t, G))
               /\ Len(G[x]) \in Nat /\ Len(Collected(t, G)) \in Nat
    <3>1. PICK p, q : p = G[x] /\ q = Collected(t, G)
      OBVIOUS
    <3>2. Over(p, T) /\ Over(q, T)
      <4>1. G[x] \in Seq(T)
        BY <2>1 DEF Gives
      <4>2. Over(Collected(t, G), T)
        BY <1>2, <2>1, CollectedTyped
      <4>3. QED
        BY <3>1, <4>1, <4>2 DEF Over
    <3>3. Collected(Cat(<<x>>, t), G) = Cat(p, q)
      BY <1>2, <2>1, <3>1, CollectedCons
    <3>4. /\ Over(Cat(p, q), T) /\ Len(Cat(p, q)) = Len(p) + Len(q)
          /\ Len(p) \in Nat /\ Len(q) \in Nat
      BY <3>2, Joined
    <3>5. QED
      BY <3>1, <3>3, <3>4
  <2>2. PICK r : r = Cat(<<x>>, t)
    OBVIOUS
  <2>3. PICK f, a, b : f = Collected(r, F) /\ a = Collected(r, A) /\ b = Collected(r, B)
    OBVIOUS
  <2>4. PICK f1, a1, b1 : f1 = Len(F[x]) /\ a1 = Len(A[x]) /\ b1 = Len(B[x])
    OBVIOUS
  <2>5. PICK f2, a2, b2 : /\ f2 = Len(Collected(t, F)) /\ a2 = Len(Collected(t, A))
                          /\ b2 = Len(Collected(t, B))
    OBVIOUS
  <2>6. /\ Len(f) = f1 + f2 /\ f1 \in Nat /\ f2 \in Nat
        /\ Len(a) = a1 + a2 /\ a1 \in Nat /\ a2 \in Nat
        /\ Len(b) = b1 + b2 /\ b1 \in Nat /\ b2 \in Nat
    BY <2>1, <2>2, <2>3, <2>4, <2>5
  <2>7. f1 = a1 + b1 /\ f2 = a2 + b2
    BY <2>4, <2>5 DEF Adding
  <2>8. Len(f) = Len(a) + Len(b)
    BY <2>6, <2>7
  <2>9. Over(<<x>>, S)
    BY One
  <2>10. Over(r, S)
    BY <1>2, <2>2, <2>9, Joined
  <2>11. QED
    BY <2>2, <2>3, <2>8, <2>10 DEF Over
<1>3. s \in P
  <2> HIDE DEF P
  <2>1. QED
    BY <1>1, <1>2, EverySequence
<1>4. Over(Collected(s, A), T) /\ Over(Collected(s, B), T)
  BY CollectedTyped
<1>5. Len(Collected(s, A)) \in Nat /\ Len(Collected(s, B)) \in Nat
  BY <1>4, Measured
<1>6. QED
  BY <1>3, <1>5 DEF AddUp

(* At most one of each is at most as many.                                 *)
LEMMA CollectedAtMost ==
  ASSUME NEW S, NEW T, NEW F, Gives(F, S, Seq(T)), \A x \in S : Len(F[x]) <= 1,
         NEW s, Over(s, S)
  PROVE  Len(Collected(s, F)) <= Len(s) /\ Len(Collected(s, F)) \in Nat
<1> DEFINE P == {t \in Seq(S) : Len(Collected(t, F)) <= Len(t)}
<1>1. <<>> \in P
  BY CollectedEmpty, EmptySeq
<1>2. ASSUME NEW x \in S, NEW t \in P, Over(t, S) PROVE Cat(<<x>>, t) \in P
  <2>1. PICK p, q, r, w : p = F[x] /\ q = Collected(t, F) /\ r = Cat(<<x>>, t) /\ w = <<x>>
    OBVIOUS
  <2>2. Over(p, T) /\ Over(q, T) /\ Over(w, S) /\ Len(w) = 1
    <3>1. F[x] \in Seq(T)
      BY DEF Gives
    <3>2. Over(Collected(t, F), T)
      BY <1>2, CollectedTyped
    <3>3. Over(<<x>>, S) /\ Len(<<x>>) = 1
      BY One
    <3>4. QED
      BY <2>1, <3>1, <3>2, <3>3 DEF Over
  <2>3. Collected(r, F) = Cat(p, q)
    BY <1>2, <2>1, CollectedCons
  <2>4. Len(Cat(p, q)) = Len(p) + Len(q) /\ Len(p) \in Nat /\ Len(q) \in Nat
    BY <2>2, Joined
  <2>5. Over(Cat(w, t), S) /\ Len(Cat(w, t)) = Len(w) + Len(t) /\ Len(t) \in Nat
    BY <1>2, <2>2, Joined
  <2>6. Len(p) <= 1 /\ Len(q) <= Len(t)
    BY <2>1
  <2>7. PICK k, m, n : k = Len(p) /\ m = Len(q) /\ n = Len(t)
    OBVIOUS
  <2>8. k + m <= 1 + n
    BY <2>4, <2>5, <2>6, <2>7
  <2>9. Len(Collected(r, F)) <= Len(r) /\ Over(r, S)
    BY <2>1, <2>2, <2>3, <2>4, <2>5, <2>7, <2>8
  <2>10. QED
    BY <2>1, <2>9 DEF Over
<1>3. s \in P
  <2> HIDE DEF P
  <2>1. QED
    BY <1>1, <1>2, EverySequence
<1>4. Over(Collected(s, F), T)
  BY CollectedTyped
<1>5. QED
  BY <1>3, <1>4, Measured

-----------------------------------------------------------------------------
(* Primitive objects made of tags and values.                              *)
PrimitiveValue(v) ==
  /\ v = ValueOf(v.tag, v.value)
  /\ Over(v.tag, Byte) /\ ValidDataTag(v.tag) /\ ~ Constructed(v.tag[1])
  /\ Over(v.value, Byte)
ObjectOf(v) == Object(v.tag, v.value, <<>>)
ObjectsOf(values) == [i \in DOMAIN values |-> ObjectOf(values[i])]

LEMMA PrimitiveIs ==
  ASSUME NEW v, PrimitiveValue(v)
  PROVE  /\ ProperObject(ObjectOf(v)) /\ ObjectOf(v).children = <<>>
         /\ ObjectOf(v).tag = v.tag /\ ObjectOf(v).value = v.value
         /\ ~ ObjectOf(v).constructed /\ ObjectOf(v).depth = 0
         /\ ObjectOf(v).inside = <<>>
<1>1. PICK o : o = ObjectOf(v)
  OBVIOUS
<1>2. /\ o.tag = v.tag /\ o.value = v.value /\ o.children = <<>> /\ ~o.constructed
      /\ o.depth = 0 /\ o.inside = Flatten(<<>>)
  BY <1>1 DEF ObjectOf, Object, PrimitiveValue
<1>3. Flatten(<<>>) = <<>> /\ Listed(<<>>)
  BY ListedEmpty
<1>4. ProperObject(o)
  <2>1. o = Object(o.tag, o.value, o.children)
    BY <1>1, <1>2 DEF ObjectOf
  <2>2. QED
    BY <1>2, <1>3, <2>1 DEF ProperObject, PrimitiveValue, Over
<1>5. QED
  BY <1>1, <1>2, <1>3, <1>4

(* They are proper, there is nothing in them, and they are written as what *)
(* they are made of.                                                       *)
LEMMA ObjectsOfProper ==
  ASSUME NEW S, \A v \in S : PrimitiveValue(v), NEW values, Over(values, S)
  PROVE  LET made == ObjectsOf(values) IN
         /\ Proper(made) /\ Encoded(made) = Encoded(values)
         /\ Flatten(made) = made /\ DOMAIN made = DOMAIN values /\ Len(made) = Len(values)
         /\ Over(made, Range(made))
         /\ \A i \in DOMAIN values : made[i] = ObjectOf(values[i])
         /\ \A o \in Range(made) : \E v \in Range(values) : o = ObjectOf(v)
<1>1. PICK made : made = ObjectsOf(values)
  OBVIOUS
<1> DEFINE F == [v \in S |-> ObjectOf(v)]
          T == {ObjectOf(v) : v \in S}
<1>2. Gives(F, S, T) /\ \A v \in S : F[v] = ObjectOf(v)
  BY DEF Gives
<1>3. DOMAIN values = 1..Len(values) /\ Len(values) \in Nat
      /\ Over(values, Range(values)) /\ Range(values) \subseteq S
  BY RangeOf, Measured
<1>4. \A i \in DOMAIN values : values[i] \in S /\ values[i] \in Range(values)
  BY <1>3 DEF Range
<1>5. made = Mapped(values, F)
  <2>1. [i \in DOMAIN values |-> F[values[i]]] = [i \in DOMAIN values |-> ObjectOf(values[i])]
    BY <1>2, <1>4
  <2>2. QED
    BY <1>1, <2>1 DEF Mapped, ObjectsOf
<1>6. Over(made, T) /\ Len(made) = Len(values)
  <2>1. Over(Mapped(values, F), T) /\ Len(Mapped(values, F)) = Len(values)
    <3> HIDE DEF F, T
    <3>1. QED
      BY <1>2, MappedTyped
  <2>2. QED
    BY <1>5, <2>1
<1>7. Over(made, Range(made)) /\ Range(made) \subseteq T
  BY <1>6, RangeOf
<1>8. DOMAIN made = DOMAIN values /\ \A i \in DOMAIN values : made[i] = ObjectOf(values[i])
  BY <1>1 DEF ObjectsOf
<1>9. ASSUME NEW o \in Range(made) PROVE \E v \in Range(values) : o = ObjectOf(v)
  BY <1>4, <1>8 DEF Range
<1>10. ASSUME NEW o \in Range(made)
       PROVE  ProperObject(o) /\ ListedObject(o) /\ o.inside = <<>> /\ o.children = <<>>
  <2>1. PICK v \in S : o = ObjectOf(v)
    BY <1>7
  <2>2. ProperObject(o) /\ o.inside = <<>> /\ o.children = <<>>
    BY <2>1, PrimitiveIs
  <2>3. QED
    BY <2>2, ProperParts
<1>11. Listed(made)
  BY <1>7, <1>10, ListedIs
<1>12. Flatten(made) = made
  <2>1. PICK R : R = Range(made)
    OBVIOUS
  <2>2. Flatten(made) = Collected(made, WithInside(R))
    BY <1>7, <2>1, FlattenCollected
  <2>3. \A o \in R : WithInside(R)[o] = Singles(R)[o]
    <3>1. ASSUME NEW o \in R PROVE WithInside(R)[o] = <<o>>
      <4>1. WithInside(R)[o] = Cat(<<o>>, o.inside) /\ o.inside = <<>>
        BY <1>10, <2>1, WithInsideGives
      <4>2. Over(<<o>>, R)
        BY One
      <4>3. Cat(<<o>>, <<>>) = <<o>>
        BY <4>2, JoinedEmpty
      <4>4. QED
        BY <4>1, <4>3
    <3>2. QED
      BY <3>1 DEF Singles
  <2>4. Over(made, R)
    BY <1>7, <2>1
  <2>5. Collected(made, WithInside(R)) = Collected(made, Singles(R))
    BY <2>3, <2>4, CollectedSame
  <2>6. QED
    BY <2>2, <2>4, <2>5, SinglesAre
<1>13. Proper(made)
  BY <1>10, <1>11, <1>12 DEF Proper
<1>14. Encoded(made) = Encoded(values)
  <2>1. ASSUME NEW i \in DOMAIN values PROVE Tlv(made[i]) = Tlv(values[i])
    <3>1. PICK v : v = values[i]
      OBVIOUS
    <3>2. made[i].tag = v.tag /\ made[i].value = v.value
      BY <1>4, <1>8, <3>1, PrimitiveIs
    <3>3. QED
      BY <3>1, <3>2 DEF Tlv
  <2>2. [i \in DOMAIN made |-> Tlv(made[i])] = [i \in DOMAIN values |-> Tlv(values[i])]
    BY <1>8, <2>1
  <2>3. QED
    BY <2>2 DEF Encoded
<1>15. QED
  BY <1>1, <1>6, <1>7, <1>8, <1>9, <1>12, <1>13, <1>14

(* A value is shorter than the encoding it is in.                          *)
LEMMA ValueShorter ==
  ASSUME NEW a, Proper(a), NEW o \in Range(a)
  PROVE  Len(o.value) <= Len(Encoded(a)) /\ Len(o.value) \in Nat /\ Len(Encoded(a)) \in Nat
<1>1. Written(a) /\ Over(a, Range(a)) /\ ProperObject(o) /\ Len(Encoded(a)) \in Nat
  BY ProperWritten, ListedIs
<1>2. WrittenObject(o)
  BY <1>1, ProperParts
<1>3. PICK S : S = Range(a)
  OBVIOUS
<1>4. \A x \in S : WrittenObject(x)
  BY <1>1, <1>3 DEF Written
<1>5. /\ Gives(Tlvs(S), S, Seq(Nat)) /\ Tlvs(S)[o] = TlvOf(o.tag, o.value)
      /\ Encoded(a) = Collected(a, Tlvs(S))
  BY <1>1, <1>3, <1>4, TlvsGive, EncodedCollected
<1>6. PICK u, t : Over(u, S) /\ Over(t, S) /\ a = Cat(u, Cat(<<o>>, t)) /\ o \in S
  BY <1>1, <1>3, AroundElement
<1>7. PICK v, w : w = <<o>> /\ v = Cat(w, t)
  OBVIOUS
<1>8. Over(w, S) /\ Over(v, S)
  <2>1. Over(<<o>>, S)
    BY <1>6, One
  <2>2. Over(Cat(<<o>>, t), S)
    BY <1>6, <2>1, Joined
  <2>3. QED
    BY <1>7, <2>1, <2>2
<1>9. PICK x, y, z : /\ x = Collected(u, Tlvs(S)) /\ y = TlvOf(o.tag, o.value)
                     /\ z = Collected(t, Tlvs(S))
  OBVIOUS
<1>10. Over(x, Nat) /\ Over(y, Nat) /\ Over(z, Nat) /\ Len(o.value) < Len(y) /\ Len(o.value) \in Nat
  BY <1>2, <1>5, <1>6, <1>9, CollectedTyped, TlvNumbers
<1>11. Collected(v, Tlvs(S)) = Cat(y, z)
  BY <1>5, <1>6, <1>7, <1>9, CollectedCons
<1>12. Collected(Cat(u, v), Tlvs(S)) = Cat(Collected(u, Tlvs(S)), Collected(v, Tlvs(S)))
  BY <1>5, <1>6, <1>8, CollectedCat
<1>13. PICK q : q = Cat(y, z)
  OBVIOUS
<1>14. Over(q, Nat) /\ Len(q) = Len(y) + Len(z) /\ Len(y) \in Nat /\ Len(z) \in Nat
  <2>1. /\ Over(Cat(y, z), Nat) /\ Len(Cat(y, z)) = Len(y) + Len(z)
        /\ Len(y) \in Nat /\ Len(z) \in Nat
    BY <1>10, Joined
  <2>2. QED
    BY <1>13, <2>1
<1>15. /\ Over(Cat(x, q), Nat) /\ Len(Cat(x, q)) = Len(x) + Len(q)
       /\ Len(x) \in Nat /\ Len(q) \in Nat
  BY <1>10, <1>14, Joined
<1>16. Encoded(a) = Cat(x, q)
  BY <1>5, <1>6, <1>7, <1>9, <1>11, <1>12, <1>13
<1>17. Len(o.value) <= Len(Cat(x, q))
  BY <1>10, <1>14, <1>15
<1>18. QED
  BY <1>1, <1>10, <1>16, <1>17

(* Up to eighteen of them in up to MaxValueLength bytes are read back.     *)
LEMMA PrimitivesRead ==
  ASSUME NEW S, \A v \in S : PrimitiveValue(v), NEW values, Over(values, S),
         Len(values) <= 18, Len(Encoded(values)) <= MaxValueLength
  PROVE  /\ WithinLimits(ObjectsOf(values)) /\ Depth(ObjectsOf(values)) = 0
         /\ ParseMany(Encoded(values)).ok
         /\ ParseMany(Encoded(values)).items = ObjectsOf(values)
<1>1. PICK made : made = ObjectsOf(values)
  OBVIOUS
<1>2. /\ Proper(made) /\ Encoded(made) = Encoded(values) /\ Flatten(made) = made
      /\ Len(made) = Len(values)
      /\ \A o \in Range(made) : \E v \in Range(values) : o = ObjectOf(v)
  BY <1>1, ObjectsOfProper
<1>3. \A o \in Range(made) : o.depth = 0
  <2>1. Range(values) \subseteq S
    BY RangeOf
  <2>2. QED
    BY <1>2, <2>1, PrimitiveIs
<1>4. Depth(made) \in Nat /\ Depth(made) <= 0
  <2>1. Listed(made) /\ \A o \in Range(made) : o.depth <= 0
    BY <1>2, <1>3, ProperWritten
  <2>2. QED
    BY <2>1, DepthBound
<1>5. ASSUME NEW o \in Range(made) PROVE Len(o.value) <= MaxValueLength
  <2>1. /\ Len(o.value) <= Len(Encoded(made)) /\ Len(o.value) \in Nat
        /\ Len(Encoded(made)) \in Nat
    BY <1>2, ValueShorter
  <2>2. Len(Encoded(made)) <= MaxValueLength
    BY <1>2
  <2>3. QED
    BY <2>1, <2>2, LimitTyped
<1>6. Depth(made) <= MaxDepth /\ Depth(made) = 0
  BY <1>4, LimitsTyped
<1>7. Len(made) <= MaxNodes
  BY <1>2, EncodingAssumption, Measured
<1>8. WithinLimits(made)
  BY <1>2, <1>5, <1>6, <1>7 DEF WithinLimits
<1>9. Len(Encoded(made)) <= LongestLength
  <2>1. Len(Encoded(made)) <= MaxValueLength /\ Len(Encoded(made)) \in Nat
    BY <1>2, ProperWritten
  <2>2. QED
    BY <2>1, LimitTyped, LongestTyped
<1>10. ParseMany(Encoded(made)) = Sequence(made, Len(Flatten(made)))
  BY <1>2, <1>8, <1>9, ParserComplete
<1>11. QED
  BY <1>1, <1>2, <1>6, <1>8, <1>10 DEF Sequence

-----------------------------------------------------------------------------
(* What is read of an answer.                                              *)

(* What is in the middle is the beginning of what is after it.             *)
LEMMA MiddleIs ==
  ASSUME NEW T, NEW b, Over(b, T), NEW m \in Nat, NEW n \in Nat, m + n <= Len(b)
  PROVE  SubSeq(b, m + 1, m + n) = Upto(After(b, m), n)
<1>1. b \in Seq(T) /\ Len(b) \in Nat /\ m \in 0..Len(b) /\ m <= Len(b)
  BY LenProperties DEF Over
<1>2. PICK a : a = After(b, m)
  OBVIOUS
<1>3. a \in Seq(T) /\ Len(a) = Len(b) - m /\ \A i \in 1..(Len(b) - m) : a[i] = b[m + i]
  BY <1>1, <1>2, SplitAt
<1>4. n \in 0..Len(a)
  BY <1>1, <1>3
<1>5. PICK u : u = Upto(a, n)
  OBVIOUS
<1>6. u \in Seq(T) /\ Len(u) = n /\ \A i \in 1..n : u[i] = a[i]
  BY <1>3, <1>4, <1>5, SplitAt DEF Upto
<1>7. PICK s : s = SubSeq(b, m + 1, m + n)
  OBVIOUS
<1>8. s \in Seq(T) /\ Len(s) = n /\ \A i \in 1..n : s[i] = b[m + i]
  <2>1. s = [i \in 1..n |-> b[m + i]]
    <3>1. s = [i \in 1..(m + n - (m + 1) + 1) |-> b[i + (m + 1) - 1]]
      BY <1>1, <1>7
    <3>2. m + n - (m + 1) + 1 = n
      OBVIOUS
    <3>3. \A i \in 1..n : i + (m + 1) - 1 = m + i
      OBVIOUS
    <3>4. QED
      BY <3>1, <3>2, <3>3
  <2>2. \A i \in 1..n : b[m + i] \in T
    BY <1>1, ElementOfSeq
  <2>3. s \in Seq(T)
    BY <2>1, <2>2, SeqDef
  <2>4. QED
    BY <2>1, <2>3, LenProperties
<1>9. ASSUME NEW i \in 1..n PROVE s[i] = u[i]
  <2>1. i \in 1..(Len(b) - m)
    BY <1>1
  <2>2. QED
    BY <1>3, <1>6, <1>8, <2>1
<1>10. s = u
  BY <1>6, <1>8, <1>9, SeqEqual
<1>11. QED
  BY <1>2, <1>5, <1>7, <1>10

LEMMA MiddleTyped ==
  ASSUME NEW T, NEW b, Over(b, T), NEW m \in Nat, NEW n \in Nat, m + n <= Len(b)
  PROVE  Over(SubSeq(b, m + 1, m + n), T) /\ Len(SubSeq(b, m + 1, m + n)) = n
<1>1. Len(b) \in Nat
  BY Measured
<1>2. m <= Len(b)
  BY <1>1
<1>3. PICK a : a = After(b, m)
  OBVIOUS
<1>4. Over(a, T) /\ Len(a) = Len(b) - m
  BY <1>2, <1>3, CutJoined
<1>5. n <= Len(a)
  BY <1>1, <1>4
<1>6. Over(Upto(a, n), T) /\ Len(Upto(a, n)) = n
  BY <1>4, <1>5, CutJoined
<1>7. QED
  BY <1>3, <1>6, MiddleIs

(* What is found under a tag.                                              *)
LEMMA ValueFound ==
  ASSUME NEW a, Proper(a), NEW tag
  PROVE  /\ Over(DirectValue(a, tag), Byte) /\ Len(DirectValue(a, tag)) \in Nat
         /\ ~ Present(a, tag) => DirectValue(a, tag) = <<>>
<1>1. CASE Present(a, tag)
  <2>1. PICK d : d = Direct(a, tag)
    OBVIOUS
  <2>2. Over(d, Tagged(Range(a), tag)) /\ d # <<>>
    BY <1>1, <2>1, DirectProper DEF Present
  <2>3. d[1] \in Tagged(Range(a), tag)
    BY <2>2, FirstOf
  <2>4. Over(d[1].value, Byte)
    BY <2>3, DirectProper
  <2>5. DirectValue(a, tag) = d[1].value
    BY <1>1, <2>1 DEF DirectValue
  <2>6. QED
    BY <1>1, <2>4, <2>5, Measured
<1>2. CASE ~ Present(a, tag)
  <2>1. DirectValue(a, tag) = <<>>
    BY <1>2 DEF DirectValue
  <2>2. Over(<<>>, Byte)
    BY JoinedEmpty
  <2>3. QED
    BY <2>1, <2>2, Measured
<1>3. QED
  BY <1>1, <1>2

(* The lengths of the values of an answer to GENERATE AC.                  *)
AcTyped(r) ==
  /\ r = AcResponse(r.cid, r.ac, r.atc, r.iad, r.dynamic)
  /\ Over(r.cid, Byte) /\ Over(r.ac, Byte) /\ Over(r.atc, Byte) /\ Over(r.iad, Byte)
  /\ Len(r.cid) = 1 /\ Len(r.ac) = 8 /\ Len(r.atc) = 2
  /\ Len(r.iad) \in Nat /\ Len(r.iad) <= MaxIad

LEMMA IadTyped == MaxIad \in Nat /\ MaxIad < 128
BY ParsingAssumption

LEMMA Format1Typed ==
  ASSUME NEW value, Over(value, Byte), AcFormat1(value).ok
  PROVE  AcTyped(AcFormat1(value)) /\ AcFormat1(value).dynamic = Dynamic(<<>>)
<1>1. PICK n : n = Len(value)
  OBVIOUS
<1>2. n \in Nat /\ n >= 11 /\ n <= 11 + MaxIad
  <2>1. n \in 11..(11 + MaxIad)
    BY <1>1 DEF AcFormat1, No
  <2>2. QED
    BY <1>1, <2>1, Measured, IadTyped
<1>3. PICK cid, ac, atc, iad : /\ cid = <<value[1]>> /\ ac = SubSeq(value, 4, 11)
                               /\ atc = SubSeq(value, 2, 3) /\ iad = SubSeq(value, 12, n)
  OBVIOUS
<1>4. AcFormat1(value) = AcResponse(cid, ac, atc, iad, Dynamic(<<>>))
  BY <1>1, <1>2, <1>3, IadTyped DEF AcFormat1
<1>5. Over(cid, Byte) /\ Len(cid) = 1
  <2>1. value[1] \in Byte
    BY <1>1, <1>2, ElementOfSeq DEF Over
  <2>2. QED
    BY <1>3, <2>1, Short1 DEF Over
<1>6. Over(ac, Byte) /\ Len(ac) = 8
  <2>1. 3 + 8 <= Len(value)
    BY <1>1, <1>2
  <2>2. Over(SubSeq(value, 3 + 1, 3 + 8), Byte) /\ Len(SubSeq(value, 3 + 1, 3 + 8)) = 8
    BY <2>1, MiddleTyped
  <2>3. 3 + 1 = 4 /\ 3 + 8 = 11
    OBVIOUS
  <2>4. QED
    BY <1>3, <2>2, <2>3
<1>7. Over(atc, Byte) /\ Len(atc) = 2
  <2>1. 1 + 2 <= Len(value)
    BY <1>1, <1>2
  <2>2. Over(SubSeq(value, 1 + 1, 1 + 2), Byte) /\ Len(SubSeq(value, 1 + 1, 1 + 2)) = 2
    BY <2>1, MiddleTyped
  <2>3. 1 + 1 = 2 /\ 1 + 2 = 3
    OBVIOUS
  <2>4. QED
    BY <1>3, <2>2, <2>3
<1>8. Over(iad, Byte) /\ Len(iad) \in Nat /\ Len(iad) <= MaxIad
  <2>1. PICK k : k = n - 11
    OBVIOUS
  <2>2. k \in Nat /\ 11 + k = n /\ k <= MaxIad
    BY <1>2, <2>1, IadTyped
  <2>3. PICK m : m = 11
    OBVIOUS
  <2>4. m \in Nat /\ k \in Nat /\ m + k <= Len(value)
    BY <1>1, <1>2, <2>2, <2>3
  <2>5. Over(SubSeq(value, m + 1, m + k), Byte) /\ Len(SubSeq(value, m + 1, m + k)) = k
    BY <2>4, MiddleTyped
  <2>6. m + 1 = 12 /\ m + k = n
    BY <2>2, <2>3
  <2>7. QED
    BY <1>3, <2>2, <2>5, <2>6
<1>9. QED
  BY <1>4, <1>5, <1>6, <1>7, <1>8 DEF AcTyped, AcResponse

LEMMA Format2Typed ==
  ASSUME NEW items, Proper(items), AcFormat2(items).ok
  PROVE  AcTyped(AcFormat2(items)) /\ AcFormat2(items).dynamic = Dynamic(items)
<1>1. PICK cid, ac, atc, iad :
        /\ cid = DirectValue(items, Cid) /\ ac = DirectValue(items, Ac)
        /\ atc = DirectValue(items, Atc) /\ iad = DirectValue(items, Iad)
  OBVIOUS
<1>2. Over(cid, Byte) /\ Over(ac, Byte) /\ Over(atc, Byte) /\ Over(iad, Byte) /\ Len(iad) \in Nat
  BY <1>1, ValueFound
<1>3. /\ Len(cid) = 1 /\ Len(ac) = 8 /\ Len(atc) = 2 /\ Len(iad) <= MaxIad
      /\ AcFormat2(items) = AcResponse(cid, ac, atc, iad, Dynamic(items))
  BY <1>1 DEF AcFormat2, No
<1>4. QED
  BY <1>2, <1>3 DEF AcTyped, AcResponse

LEMMA AcIsTyped ==
  ASSUME NEW b, Over(b, Byte), ParseGenerateAc(b).ok
  PROVE  AcTyped(ParseGenerateAc(b))
<1>1. PICK p, o : p = ParseMany(b) /\ o = p.items[1]
  OBVIOUS
<1>2. ParseGenerateAc(b) = AcIn(p)
  BY <1>1 DEF ParseGenerateAc
<1>3. Only(p, {<<119>>, <<128>>})
  BY <1>2 DEF AcIn, No
<1>4. ProperObject(o) /\ Proper(o.children)
  BY <1>1, <1>3, TemplateRead
<1>5. CASE o.tag = <<128>>
  <2>1. ParseGenerateAc(b) = AcFormat1(o.value)
    BY <1>1, <1>2, <1>3, <1>5 DEF AcIn
  <2>2. Over(o.value, Byte)
    BY <1>4, ProperParts
  <2>3. QED
    BY <2>1, <2>2, Format1Typed
<1>6. CASE o.tag # <<128>>
  <2>1. ParseGenerateAc(b) = AcFormat2(o.children)
    BY <1>1, <1>2, <1>3, <1>6 DEF AcIn
  <2>2. QED
    BY <1>4, <2>1, Format2Typed
<1>7. QED
  BY <1>5, <1>6

-----------------------------------------------------------------------------
(* The online authorization package.                                       *)
PrimitiveTags   == {tag \in Seq(Byte) : ValidDataTag(tag) /\ ~ Constructed(tag[1])}
PrimitiveValues == {v \in [tag : Seq(Byte), value : Seq(Byte)] : PrimitiveValue(v)}
StoredValue == [tag \in PrimitiveTags |->
                  IF tag \in DOMAIN Store THEN <<ValueOf(tag, Store[tag])>> ELSE <<>>]

LEMMA PrimitiveValuesAre ==
  \A v \in PrimitiveValues : PrimitiveValue(v)
BY DEF PrimitiveValues

LEMMA PrimitiveMade ==
  ASSUME NEW tag \in PrimitiveTags, NEW value, Over(value, Byte)
  PROVE  ValueOf(tag, value) \in PrimitiveValues
<1>1. PICK v : v = ValueOf(tag, value)
  OBVIOUS
<1>2. v.tag = tag /\ v.value = value /\ v \in [tag : Seq(Byte), value : Seq(Byte)]
  BY <1>1 DEF ValueOf, PrimitiveTags, Over
<1>3. PrimitiveValue(v)
  BY <1>1, <1>2 DEF PrimitiveValue, PrimitiveTags, Over
<1>4. QED
  BY <1>1, <1>2, <1>3 DEF PrimitiveValues

LEMMA ShortTag ==
  ASSUME NEW x \in Byte, x \notin {0, 255}, x % 32 # 31, (x \div 32) % 2 # 1
  PROVE  <<x>> \in PrimitiveTags
<1>1. <<x>> \in Seq(Byte) /\ Len(<<x>>) = 1 /\ <<x>>[1] = x
  BY Short1
<1>2. QED
  BY <1>1 DEF PrimitiveTags, ValidDataTag, Reserved, Continued, Constructed

LEMMA LongTag ==
  ASSUME NEW x \in Byte, x \notin {0, 255}, x % 32 = 31, (x \div 32) % 2 # 1,
         NEW y \in Byte, y < 128, y # 0
  PROVE  <<x, y>> \in PrimitiveTags
<1>1. <<x, y>> \in Seq(Byte) /\ Len(<<x, y>>) = 2 /\ <<x, y>>[1] = x /\ <<x, y>>[2] = y
  BY Short2
<1>2. y % 128 # 0 /\ ~ (y >= 128)
  BY DEF Byte
<1>3. ASSUME NEW i \in 2..2 PROVE <<x, y>>[i] >= 128 <=> i < 2
  BY <1>1, <1>2
<1>4. QED
  BY <1>1, <1>2, <1>3 DEF PrimitiveTags, ValidDataTag, Reserved, Continued, Constructed

LEMMA AcTagsPrimitive == {Cid, Ac, Atc, Iad, Sdad, DynamicNumber} \subseteq PrimitiveTags
<1>1. 159 \in Byte /\ {39, 38, 54, 16, 75, 76} \subseteq Byte
  BY ByteNat
<1>2. 159 % 32 = 31 /\ (159 \div 32) % 2 # 1
  OBVIOUS
<1>3. \A y \in {39, 38, 54, 16, 75, 76} : <<159, y>> \in PrimitiveTags
  BY <1>1, <1>2, LongTag
<1>4. QED
  BY <1>3 DEF Cid, Ac, Atc, Iad, Sdad, DynamicNumber

LEMMA PackageTagsPrimitive == Over(PackageTags, PrimitiveTags) /\ Len(PackageTags) = 14
<1>1. 159 \in Byte /\ 95 \in Byte /\ {55, 2, 42, 26, 51, 64, 52, 102} \subseteq Byte
  BY ByteNat
<1>2. 159 % 32 = 31 /\ (159 \div 32) % 2 # 1 /\ 95 % 32 = 31 /\ (95 \div 32) % 2 # 1
  OBVIOUS
<1>3. \A y \in {55, 2, 42, 26, 51, 64, 52, 102} :
        <<159, y>> \in PrimitiveTags /\ <<95, y>> \in PrimitiveTags
  BY <1>1, <1>2, LongTag
<1>4. \A x \in {149, 154, 156, 130, 90, 87} : <<x>> \in PrimitiveTags
  <2>1. ASSUME NEW x \in {149, 154, 156, 130, 90, 87} PROVE <<x>> \in PrimitiveTags
    <3>1. x \in Byte /\ x \notin {0, 255} /\ x % 32 # 31 /\ (x \div 32) % 2 # 1
      BY ByteNat
    <3>2. QED
      BY <3>1, ShortTag
  <2>2. QED
    BY <2>1
<1>5. PICK T : T = PrimitiveTags
  OBVIOUS
<1>6. /\ <<159, 55>> \in T /\ <<149>> \in T /\ <<154>> \in T /\ <<156>> \in T
      /\ <<159, 2>> \in T /\ <<95, 42>> \in T /\ <<130>> \in T /\ <<159, 26>> \in T
      /\ <<159, 51>> \in T /\ <<159, 64>> \in T /\ <<159, 52>> \in T /\ <<159, 102>> \in T
      /\ <<90>> \in T /\ <<87>> \in T
  BY <1>3, <1>4, <1>5
<1>7. ASSUME NEW a1 \in T, NEW a2 \in T, NEW a3 \in T, NEW a4 \in T, NEW a5 \in T,
             NEW a6 \in T, NEW a7 \in T, NEW a8 \in T, NEW a9 \in T, NEW a10 \in T,
             NEW a11 \in T, NEW a12 \in T, NEW a13 \in T, NEW a14 \in T
      PROVE  /\ <<a1, a2, a3, a4, a5, a6, a7, a8, a9, a10, a11, a12, a13, a14>> \in Seq(T)
             /\ Len(<<a1, a2, a3, a4, a5, a6, a7, a8, a9, a10, a11, a12, a13, a14>>) = 14
  OBVIOUS
<1>8. PackageTags \in Seq(T) /\ Len(PackageTags) = 14
  BY <1>6, <1>7 DEF PackageTags
<1>9. QED
  BY <1>5, <1>8 DEF Over

LEMMA StoredGive ==
  /\ Gives(StoredValue, PrimitiveTags, Seq(PrimitiveValues))
  /\ \A tag \in PrimitiveTags : Len(StoredValue[tag]) <= 1
<1>1. ASSUME NEW tag \in PrimitiveTags
      PROVE  /\ StoredValue[tag] \in Seq(PrimitiveValues) /\ Len(StoredValue[tag]) <= 1
  <2>1. StoredValue[tag] = IF tag \in DOMAIN Store THEN <<ValueOf(tag, Store[tag])>> ELSE <<>>
    BY DEF StoredValue
  <2>2. CASE tag \in DOMAIN Store
    <3>1. Over(Store[tag], Byte)
      BY <2>2, ParsingAssumption DEF Over
    <3>2. PICK v : v = ValueOf(tag, Store[tag])
      OBVIOUS
    <3>3. v \in PrimitiveValues
      BY <3>1, <3>2, PrimitiveMade
    <3>4. QED
      BY <2>1, <2>2, <3>2, <3>3, Short1
  <2>3. CASE tag \notin DOMAIN Store
    <3>1. Len(<<>>) = 0
      BY EmptySeq
    <3>2. QED
      BY <2>1, <2>3, <3>1, EmptySeq
  <2>4. QED
    BY <2>2, <2>3
<1>2. QED
  BY <1>1 DEF StoredValue, Gives

(* There are eighteen values in it at most, all of them primitive.         *)
LEMMA PackageTyped ==
  ASSUME NEW r, AcTyped(r)
  PROVE  Over(Package(r), PrimitiveValues) /\ Len(Package(r)) <= 18
<1>1. PICK a, b, c : /\ a = <<ValueOf(Ac, r.ac), ValueOf(Cid, r.cid), ValueOf(Atc, r.atc)>>
                     /\ b = (IF r.iad = <<>> THEN <<>> ELSE <<ValueOf(Iad, r.iad)>>)
                     /\ c = Collected(PackageTags, StoredValue)
  OBVIOUS
<1>2. PICK V : V = PrimitiveValues
  OBVIOUS
<1>3. Cid \in PrimitiveTags /\ Ac \in PrimitiveTags /\ Atc \in PrimitiveTags /\ Iad \in PrimitiveTags
  BY AcTagsPrimitive
<1>4. /\ ValueOf(Ac, r.ac) \in V /\ ValueOf(Cid, r.cid) \in V /\ ValueOf(Atc, r.atc) \in V
      /\ ValueOf(Iad, r.iad) \in V
  BY <1>2, <1>3, PrimitiveMade DEF AcTyped
<1>5. Over(a, V) /\ Len(a) = 3
  BY <1>1, <1>4, Short3 DEF Over
<1>6. Over(b, V) /\ Len(b) \in Nat /\ Len(b) <= 1
  <2>1. CASE r.iad = <<>>
    <3>1. Over(<<>>, V) /\ Len(<<>>) = 0
      BY JoinedEmpty, EmptySeq
    <3>2. QED
      BY <1>1, <2>1, <3>1
  <2>2. CASE r.iad # <<>>
    <3>1. Over(<<ValueOf(Iad, r.iad)>>, V) /\ Len(<<ValueOf(Iad, r.iad)>>) = 1
      BY <1>4, One
    <3>2. QED
      BY <1>1, <2>2, <3>1
  <2>3. QED
    BY <2>1, <2>2
<1>7. Over(c, V) /\ Len(c) \in Nat /\ Len(c) <= 14
  <2>1. Over(PackageTags, PrimitiveTags) /\ Len(PackageTags) = 14
    BY PackageTagsPrimitive
  <2>2. Over(Collected(PackageTags, StoredValue), PrimitiveValues)
    BY <2>1, StoredGive, CollectedTyped
  <2>3. Len(Collected(PackageTags, StoredValue)) <= Len(PackageTags)
    BY <2>1, StoredGive, CollectedAtMost
  <2>4. QED
    BY <1>1, <1>2, <2>1, <2>2, <2>3, Measured
<1>8. FlattenSeq([i \in DOMAIN PackageTags |->
                    IF PackageTags[i] \in DOMAIN Store
                    THEN <<ValueOf(PackageTags[i], Store[PackageTags[i]])>> ELSE <<>>]) = c
  <2>1. ASSUME NEW i \in DOMAIN PackageTags
        PROVE  StoredValue[PackageTags[i]] =
                 IF PackageTags[i] \in DOMAIN Store
                 THEN <<ValueOf(PackageTags[i], Store[PackageTags[i]])>> ELSE <<>>
    <3>1. PackageTags[i] \in PrimitiveTags
      BY PackageTagsPrimitive, RangeOf DEF Range
    <3>2. QED
      BY <3>1 DEF StoredValue
  <2>2. [i \in DOMAIN PackageTags |-> StoredValue[PackageTags[i]]] =
          [i \in DOMAIN PackageTags |->
             IF PackageTags[i] \in DOMAIN Store
             THEN <<ValueOf(PackageTags[i], Store[PackageTags[i]])>> ELSE <<>>]
    BY <2>1
  <2>3. QED
    BY <1>1, <2>2 DEF Collected, Mapped
<1>9. Package(r) = Cat(Cat(a, b), c)
  BY <1>1, <1>8 DEF Package, ValueOf, Cat
<1>10. PICK d : d = Cat(a, b)
  OBVIOUS
<1>11. Over(d, V) /\ Len(d) = Len(a) + Len(b)
  <2>1. /\ Over(Cat(a, b), V) /\ Len(Cat(a, b)) = Len(a) + Len(b)
        /\ Len(a) \in Nat /\ Len(b) \in Nat
    BY <1>5, <1>6, Joined
  <2>2. QED
    BY <1>10, <2>1
<1>12. /\ Over(Cat(d, c), V) /\ Len(Cat(d, c)) = Len(d) + Len(c)
       /\ Len(d) \in Nat /\ Len(c) \in Nat
  BY <1>7, <1>11, Joined
<1>13. Len(Cat(d, c)) <= 18
  BY <1>5, <1>6, <1>7, <1>11, <1>12
<1>14. QED
  BY <1>2, <1>9, <1>10, <1>12, <1>13

(* A package within its limit reads back as what it was made of.           *)
LEMMA PackageIsRead ==
  ASSUME NEW values, Over(values, PrimitiveValues), Len(values) <= 18
  PROVE  PackageSent(values)
<1>1. SUFFICES ASSUME EncodedPackage(values).ok
               PROVE  ReadsBack(ParseMany(EncodedPackage(values).bytes), values)
  BY DEF PackageSent
<1>2. PICK e : e = Encoded(values)
  OBVIOUS
<1>3. Len(e) <= MaxPackage /\ EncodedPackage(values).bytes = e
  BY <1>1, <1>2 DEF EncodedPackage, Limited, No
<1>4. PICK made, p : made = ObjectsOf(values) /\ p = ParseMany(e)
  OBVIOUS
<1>5. /\ Encoded(made) = e /\ Proper(made) /\ DOMAIN made = DOMAIN values
      /\ \A i \in DOMAIN values : made[i] = ObjectOf(values[i])
  BY <1>2, <1>4, PrimitiveValuesAre, ObjectsOfProper
<1>6. Len(e) <= MaxValueLength
  <2>1. Len(e) \in Nat
    BY <1>5, ProperWritten
  <2>2. QED
    BY <1>3, <2>1, ParsingAssumption, LimitTyped
<1>7. p.ok /\ p.items = made
  BY <1>2, <1>4, <1>6, PrimitiveValuesAre, PrimitivesRead
<1>8. ASSUME NEW i \in DOMAIN values
      PROVE  values[i] = ValueOf(made[i].tag, made[i].value)
  <2>1. PICK v : v = values[i]
    OBVIOUS
  <2>2. PrimitiveValue(v)
    BY <2>1, PrimitiveValuesAre, RangeOf DEF Range
  <2>3. made[i].tag = v.tag /\ made[i].value = v.value
    BY <1>5, <2>1, <2>2, PrimitiveIs
  <2>4. QED
    BY <2>1, <2>2, <2>3 DEF PrimitiveValue
<1>9. values = [i \in DOMAIN values |-> values[i]]
  <2>1. values \in Seq(PrimitiveValues)
    BY DEF Over
  <2>2. QED
    BY <2>1, SeqDef
<1>10. values = [i \in DOMAIN made |-> ValueOf(made[i].tag, made[i].value)]
  BY <1>5, <1>8, <1>9
<1>11. QED
  BY <1>3, <1>4, <1>7, <1>10 DEF ReadsBack

LEMMA PackageReadsBackHolds ==
  ASSUME ParsingInv
  PROVE  PackageReadsBack
<1>1. Over(input, Byte)
  BY DEF ParsingInv, InputTyped
<1>2. SUFFICES ASSUME ParseGenerateAc(input).ok
               PROVE  PackageSent(Package(ParseGenerateAc(input)))
  BY DEF PackageReadsBack
<1>3. AcTyped(ParseGenerateAc(input))
  BY <1>1, <1>2, AcIsTyped
<1>4. QED
  BY <1>3, PackageTyped, PackageIsRead

-----------------------------------------------------------------------------
(* Answers in one format and in the other.                                 *)

(* A beginning is a shorter one and what comes next.                       *)
LEMMA UptoMore ==
  ASSUME NEW T, NEW b, Over(b, T), NEW m \in Nat, NEW n \in Nat, m + n <= Len(b)
  PROVE  Upto(b, m + n) = Cat(Upto(b, m), Upto(After(b, m), n))
<1>1. Len(b) \in Nat /\ m <= Len(b) /\ m + n \in Nat
  BY Measured
<1>2. PICK u, a : u = Upto(b, m) /\ a = After(b, m)
  OBVIOUS
<1>3. Over(u, T) /\ Len(u) = m /\ Over(a, T) /\ Len(a) = Len(b) - m /\ b = Cat(u, a)
  BY <1>1, <1>2, CutJoined
<1>4. n <= Len(a)
  BY <1>1, <1>3
<1>5. PICK v, r : v = Upto(a, n) /\ r = After(a, n)
  OBVIOUS
<1>6. Over(v, T) /\ Len(v) = n /\ Over(r, T) /\ a = Cat(v, r)
  BY <1>3, <1>4, <1>5, CutJoined
<1>7. Cat(u, Cat(v, r)) = Cat(Cat(u, v), r)
  BY <1>3, <1>6, Rejoined
<1>8. PICK w : w = Cat(u, v)
  OBVIOUS
<1>9. Over(w, T) /\ Len(w) = m + n
  <2>1. Over(Cat(u, v), T) /\ Len(Cat(u, v)) = Len(u) + Len(v) /\ Len(u) \in Nat /\ Len(v) \in Nat
    BY <1>3, <1>6, Joined
  <2>2. QED
    BY <1>3, <1>6, <1>8, <2>1
<1>10. Upto(Cat(w, r), Len(w)) = w
  BY <1>6, <1>9, JoinedCut
<1>11. b = Cat(w, r)
  BY <1>3, <1>6, <1>7, <1>8
<1>12. QED
  BY <1>2, <1>5, <1>8, <1>9, <1>10, <1>11

(* The quads are the bytes, if these are whole quads.                      *)
FirstQuads(b, n) == [i \in 1..n |-> SubSeq(b, 4 * i - 3, 4 * i)]

LEMMA FirstQuadsJoined ==
  ASSUME NEW b, Over(b, Byte), NEW k \in Nat, 4 * k <= Len(b)
  PROVE  /\ FirstQuads(b, k) \in Seq(Seq(Byte))
         /\ FlattenSeq(FirstQuads(b, k)) = Upto(b, 4 * k)
<1>1. Len(b) \in Nat
  BY Measured
<1>2. ASSUME NEW i \in 1..k
      PROVE  /\ SubSeq(b, 4 * i - 3, 4 * i) \in Seq(Byte)
             /\ SubSeq(b, 4 * i - 3, 4 * i) = Upto(After(b, 4 * (i - 1)), 4)
  <2>1. PICK m, q : m = 4 * (i - 1) /\ q = 4
    OBVIOUS
  <2>2. m \in Nat /\ q \in Nat /\ m + q <= Len(b) /\ m + 1 = 4 * i - 3 /\ m + q = 4 * i
    BY <1>1, <2>1
  <2>3. Over(SubSeq(b, m + 1, m + q), Byte)
    BY <2>2, MiddleTyped
  <2>4. SubSeq(b, m + 1, m + q) = Upto(After(b, m), q)
    BY <2>2, MiddleIs
  <2>5. QED
    BY <2>1, <2>2, <2>3, <2>4 DEF Over
<1>3. ASSUME NEW n \in 0..k PROVE FirstQuads(b, n) \in Seq(Seq(Byte)) /\ Len(FirstQuads(b, n)) = n
  <2>1. PICK f, X : f = FirstQuads(b, n) /\ X = Seq(Byte)
    OBVIOUS
  <2>2. \A i \in 1..n : SubSeq(b, 4 * i - 3, 4 * i) \in X
    <3>1. \A i \in 1..n : i \in 1..k
      OBVIOUS
    <3>2. QED
      BY <1>2, <2>1, <3>1
  <2>3. f \in [1..n -> X] /\ n \in Nat
    <3>1. f = [i \in 1..n |-> SubSeq(b, 4 * i - 3, 4 * i)]
      BY <2>1 DEF FirstQuads
    <3>2. [i \in 1..n |-> SubSeq(b, 4 * i - 3, 4 * i)] \in [1..n -> X]
      BY <2>2, Zenon
    <3>3. n \in Nat
      OBVIOUS
    <3>4. QED
      BY <3>1, <3>2, <3>3
  <2>4. f \in Seq(X) /\ Len(f) = n
    BY <2>3
  <2>5. QED
    BY <2>1, <2>4
<1> DEFINE wrong == {n \in 0..k : FlattenSeq(FirstQuads(b, n)) # Upto(b, 4 * n)}
<1>4. SUFFICES ASSUME wrong # {} PROVE FALSE
  <2>1. k \in 0..k
    OBVIOUS
  <2>2. QED
    BY <1>3, <2>1
<1>5. PICK n \in wrong : \A m \in wrong : n <= m
  <2>1. wrong \subseteq Nat
    OBVIOUS
  <2> HIDE DEF wrong
  <2>2. QED
    BY <1>4, <2>1, LeastNumber
<1>6. n \in 0..k /\ FlattenSeq(FirstQuads(b, n)) # Upto(b, 4 * n)
  BY <1>5
<1>7. CASE n = 0
  <2>1. FirstQuads(b, 0) = <<>>
    <3>1. Len(FirstQuads(b, 0)) = 0 /\ FirstQuads(b, 0) \in Seq(Seq(Byte))
      BY <1>3, <1>6, <1>7
    <3>2. QED
      BY <3>1, Measured DEF Over
  <2>2. Upto(b, 0) = <<>>
    <3>1. Over(Upto(b, 0), Byte) /\ Len(Upto(b, 0)) = 0
      BY <1>1, CutJoined
    <3>2. QED
      BY <3>1, Measured
  <2>3. QED
    BY <1>6, <1>7, <2>1, <2>2, FlattenEmpty
<1>8. CASE n # 0
  <2>1. PICK m : m = n - 1
    OBVIOUS
  <2>2. m \in 0..k /\ m + 1 = n /\ m \in Nat /\ ~ (n <= m) /\ n \in 1..k
    BY <1>6, <1>8, <2>1
  <2>3. FlattenSeq(FirstQuads(b, m)) = Upto(b, 4 * m)
    <3>1. m \notin wrong
      <4> HIDE DEF wrong
      <4>1. QED
        BY <1>5, <2>2
    <3>2. QED
      BY <2>2, <3>1
  <2>4. PICK s, x, y : /\ s = FirstQuads(b, m) /\ x = SubSeq(b, 4 * n - 3, 4 * n)
                       /\ y = FirstQuads(b, n)
    OBVIOUS
  <2>5. /\ s \in Seq(Seq(Byte)) /\ Len(s) = m /\ x \in Seq(Byte)
        /\ y \in Seq(Seq(Byte)) /\ Len(y) = n
    BY <1>2, <1>3, <1>6, <2>2, <2>4
  <2>6. y = Append(s, x)
    <3>1. /\ Append(s, x) \in Seq(Seq(Byte)) /\ Len(Append(s, x)) = m + 1
          /\ \A i \in 1..m : Append(s, x)[i] = s[i]
          /\ Append(s, x)[m + 1] = x
      BY <2>5, AppendProperties
    <3>2. ASSUME NEW i \in 1..n PROVE y[i] = Append(s, x)[i]
      <4>1. CASE i = n
        BY <2>2, <2>4, <3>1, <4>1 DEF FirstQuads
      <4>2. CASE i # n
        <5>1. i \in 1..m
          BY <2>2, <4>2
        <5>2. QED
          BY <2>4, <3>1, <5>1 DEF FirstQuads
      <4>3. QED
        BY <4>1, <4>2
    <3>3. QED
      BY <2>2, <2>5, <3>1, <3>2, SeqEqual
  <2>7. FlattenSeq(Append(s, x)) = FlattenSeq(s) \o x
    BY <2>5, FlattenSnoc
  <2>8. x = Upto(After(b, 4 * m), 4)
    BY <1>2, <2>1, <2>2, <2>4
  <2>9. PICK p, q : p = 4 * m /\ q = 4
    OBVIOUS
  <2>10. p \in Nat /\ q \in Nat /\ p + q <= Len(b) /\ p + q = 4 * n
    BY <1>1, <1>6, <2>2, <2>9
  <2>11. Upto(b, p + q) = Cat(Upto(b, p), Upto(After(b, p), q))
    BY <2>10, UptoMore
  <2>12. QED
    BY <1>6, <2>3, <2>4, <2>6, <2>7, <2>8, <2>9, <2>10, <2>11 DEF Cat
<1>9. QED
  BY <1>7, <1>8

LEMMA QuadsJoined ==
  ASSUME NEW b, Over(b, Byte), Len(b) % 4 = 0
  PROVE  FlattenSeq(Quads(b)) = b
<1>1. PICK n, k : n = Len(b) /\ k = n \div 4
  OBVIOUS
<1>2. n \in Nat
  BY <1>1, Measured
<1>3. k \in Nat /\ 4 * k = n
  BY <1>1, <1>2
<1>4. FlattenSeq(FirstQuads(b, k)) = Upto(b, 4 * k)
  BY <1>1, <1>2, <1>3, FirstQuadsJoined
<1>5. Upto(b, n) = b
  <2>1. Over(<<>>, Byte) /\ Cat(b, <<>>) = b
    BY JoinedEmpty
  <2>2. Upto(Cat(b, <<>>), Len(b)) = b
    BY <2>1, JoinedCut
  <2>3. QED
    BY <1>1, <2>1, <2>2
<1>6. QED
  BY <1>1, <1>3, <1>4, <1>5 DEF Quads, FirstQuads

(* Nothing has the tag, or one object has it.                              *)
LEMMA DirectNone ==
  ASSUME NEW S, NEW a, Over(a, S), NEW tag, \A o \in Range(a) : o.tag # tag
  PROVE  Direct(a, tag) = <<>>
<1>1. PICK R, d : R = Range(a) /\ d = Direct(a, tag)
  OBVIOUS
<1>2. Over(a, R)
  BY <1>1, RangeOf
<1>3. Over(d, Tagged(R, tag))
  BY <1>1, <1>2, DirectCollected
<1>4. ASSUME d # <<>> PROVE FALSE
  <2>1. d[1] \in Tagged(R, tag)
    BY <1>3, <1>4, FirstOf
  <2>2. QED
    BY <1>1, <2>1 DEF Tagged
<1>5. QED
  BY <1>1, <1>4

LEMMA DirectAt ==
  ASSUME NEW S, NEW a, Over(a, S), NEW i \in 1..Len(a), NEW tag, a[i].tag = tag,
         \A j \in 1..Len(a) : a[j].tag = tag => j = i
  PROVE  Direct(a, tag) = <<a[i]>>
<1>1. PICK m, n : m = i - 1 /\ n = Len(a)
  OBVIOUS
<1>2. n \in Nat /\ m \in Nat /\ m <= Len(a) /\ m + 1 = i /\ i <= n /\ i \in Nat /\ i <= Len(a)
  BY <1>1, Measured
<1>3. PICK u, w, t, x, y : /\ u = Upto(a, m) /\ w = Upto(a, i) /\ t = After(a, i)
                           /\ x = a[i] /\ y = <<x>>
  OBVIOUS
<1>4. Over(u, S) /\ Len(u) = m
  <2>1. Over(Upto(a, m), S) /\ Len(Upto(a, m)) = m
    BY <1>2, CutJoined
  <2>2. QED
    BY <1>3, <2>1
<1>5. Over(w, S) /\ Over(t, S) /\ Len(t) = Len(a) - i /\ a = Cat(w, t)
  <2>1. /\ Over(Upto(a, i), S) /\ Over(After(a, i), S) /\ Len(After(a, i)) = Len(a) - i
        /\ a = Cat(Upto(a, i), After(a, i))
    BY <1>2, CutJoined
  <2>2. QED
    BY <1>3, <2>1
<1>6. x \in S /\ a \in Seq(S)
  BY <1>3, ElementOfSeq DEF Over
<1>7. Over(y, S)
  BY <1>3, <1>6, One
<1>8. w = Cat(u, y)
  <2>1. m + 1 <= Len(a)
    BY <1>2
  <2>2. Upto(a, m + 1) = Append(Upto(a, m), a[m + 1])
    BY <1>2, <2>1, UptoNext
  <2>3. Append(u, x) = Cat(u, y)
    BY <1>3, <1>4, <1>6, AppendIsConcat DEF Over, Cat
  <2>4. QED
    BY <1>2, <1>3, <2>2, <2>3
<1>9. Direct(u, tag) = <<>>
  <2>1. ASSUME NEW o \in Range(u) PROVE o.tag # tag
    <3>1. PICK j \in 1..Len(u) : u[j] = o
      BY <1>4, RangeOf
    <3>2. j \in 1..m /\ m \in 0..Len(a) /\ a \in Seq(S)
      BY <1>1, <1>2, <1>4, <1>6, <3>1
    <3>3. u[j] = a[j]
      BY <1>3, <3>2, SplitAt DEF Upto
    <3>4. j \in 1..Len(a) /\ j # i
      BY <1>1, <1>2, <3>2
    <3>5. QED
      BY <3>1, <3>3, <3>4
  <2>2. QED
    BY <1>4, <2>1, DirectNone
<1>10. Direct(t, tag) = <<>>
  <2>1. ASSUME NEW o \in Range(t) PROVE o.tag # tag
    <3>1. PICK j \in 1..Len(t) : t[j] = o
      BY <1>5, RangeOf
    <3>2. j \in 1..(Len(a) - i) /\ i \in 0..Len(a)
      BY <1>1, <1>2, <1>5, <3>1
    <3>3. t[j] = a[i + j]
      BY <1>3, <1>6, <3>2, SplitAt
    <3>4. i + j \in 1..Len(a) /\ i + j # i
      BY <1>1, <1>2, <3>2
    <3>5. QED
      BY <3>1, <3>3, <3>4
  <2>2. QED
    BY <1>5, <2>1, DirectNone
<1>11. PICK F : F = WithTag(S, tag)
  OBVIOUS
<1>12. Gives(F, S, Seq(Tagged(S, tag))) /\ F[x] = y
  BY <1>3, <1>6, <1>11, WithTagGives DEF WithTag
<1>13. Collected(a, F) = Cat(Collected(w, F), Collected(t, F))
  BY <1>5, <1>12, CollectedCat
<1>14. Collected(w, F) = Cat(Collected(u, F), Collected(y, F))
  BY <1>4, <1>7, <1>8, <1>12, CollectedCat
<1>15. Collected(y, F) = y
  BY <1>3, <1>6, <1>12, CollectedOne
<1>16. Collected(a, F) = Direct(a, tag) /\ Collected(u, F) = <<>> /\ Collected(t, F) = <<>>
  BY <1>4, <1>5, <1>9, <1>10, <1>11, DirectCollected
<1>17. Cat(<<>>, y) = y /\ Cat(y, <<>>) = y
  BY <1>7, JoinedEmpty
<1>18. QED
  BY <1>3, <1>13, <1>14, <1>15, <1>16, <1>17

-----------------------------------------------------------------------------
(* What is sent in a format is what is read.                               *)
LEMMA Pair ==
  ASSUME NEW T, NEW a \in T, NEW b \in T
  PROVE  /\ Over(<<a, b>>, T) /\ Len(<<a, b>>) = 2 /\ <<a, b>> = Cat(<<a>>, <<b>>)
         /\ <<a, b>>[1] = a /\ <<a, b>>[2] = b
<1>1. <<a, b>> \in Seq(T) /\ Len(<<a, b>>) = 2 /\ <<a, b>>[1] = a /\ <<a, b>>[2] = b
  BY Short2
<1>2. PICK p, q, r : p = <<a>> /\ q = <<b>> /\ r = <<a, b>>
  OBVIOUS
<1>3. p \in Seq(T) /\ Len(p) = 1 /\ p[1] = a /\ q \in Seq(T) /\ Len(q) = 1 /\ q[1] = b
  BY <1>2, Short1
<1>4. r \in Seq(T) /\ Len(r) = Len(p) + Len(q)
  BY <1>1, <1>2, <1>3
<1>5. \A i \in 1..Len(p) : r[i] = p[i]
  BY <1>1, <1>2, <1>3
<1>6. \A i \in 1..Len(q) : r[Len(p) + i] = q[i]
  BY <1>1, <1>2, <1>3
<1>7. r = p \o q
  BY <1>3, <1>4, <1>5, <1>6, IsConcat
<1>8. QED
  BY <1>1, <1>2, <1>7 DEF Over, Cat

LEMMA Quadruple ==
  ASSUME NEW T, NEW a \in T, NEW b \in T, NEW c \in T, NEW d \in T
  PROVE  /\ Over(<<a, b, c, d>>, T) /\ Len(<<a, b, c, d>>) = 4
         /\ <<a, b, c, d>> = Cat(<<a>>, <<b, c, d>>)
         /\ <<b, c, d>> = Cat(<<b>>, <<c, d>>) /\ Over(<<b, c, d>>, T)
         /\ <<a, b, c, d>>[1] = a /\ <<a, b, c, d>>[2] = b
         /\ <<a, b, c, d>>[3] = c /\ <<a, b, c, d>>[4] = d
<1>1. /\ <<a, b, c, d>> \in Seq(T) /\ Len(<<a, b, c, d>>) = 4
      /\ <<a, b, c, d>>[1] = a /\ <<a, b, c, d>>[2] = b
      /\ <<a, b, c, d>>[3] = c /\ <<a, b, c, d>>[4] = d
  OBVIOUS
<1>2. <<b, c, d>> \in Seq(T)
  OBVIOUS
<1>3. <<a, b, c, d>> = <<a>> \o <<b, c, d>>
  <2>1. PICK p, q, r : p = <<a>> /\ q = <<b, c, d>> /\ r = <<a, b, c, d>>
    OBVIOUS
  <2>2. p \in Seq(T) /\ Len(p) = 1 /\ p[1] = a
    BY <2>1
  <2>3. q \in Seq(T) /\ Len(q) = 3 /\ q[1] = b /\ q[2] = c /\ q[3] = d
    BY <2>1
  <2>4. r \in Seq(T) /\ Len(r) = Len(p) + Len(q)
    BY <1>1, <2>1, <2>2, <2>3
  <2>5. \A i \in 1..Len(p) : r[i] = p[i]
    BY <1>1, <2>1, <2>2
  <2>6. \A i \in 1..Len(q) : r[Len(p) + i] = q[i]
    BY <1>1, <2>1, <2>2, <2>3
  <2>7. r = p \o q
    BY <2>2, <2>3, <2>4, <2>5, <2>6, IsConcat
  <2>8. QED
    BY <2>1, <2>7
<1>4. <<b, c, d>> = <<b>> \o <<c, d>>
  OBVIOUS
<1>5. QED
  BY <1>1, <1>2, <1>3, <1>4 DEF Over, Cat

(* A short value needs two bytes of length at most.                        *)
LEMMA TlvShort ==
  ASSUME NEW t, Over(t, Byte), ValidDataTag(t), NEW v, Over(v, Byte), Len(v) <= 255
  PROVE  /\ Len(TlvOf(t, v)) <= Len(t) + 2 + Len(v) /\ Len(TlvOf(t, v)) \in Nat
         /\ Len(t) \in Nat /\ Len(v) \in Nat
<1>1. PICK n, f : n = Len(v) /\ f = LengthField(n)
  OBVIOUS
<1>2. n \in Nat /\ n <= 255 /\ n <= LongestLength
  BY <1>1, Measured, LongestTyped
<1>3. Len(f) <= 2 /\ Len(f) \in Nat
  <2>1. CASE n < 128
    <3>1. Len(LengthField(n)) = 1
      BY <1>2, <2>1, FieldTyped
    <3>2. QED
      BY <1>1, <3>1
  <2>2. CASE n >= 128 /\ n <= 255
    <3>1. Len(LengthField(n)) = 2
      BY <1>2, <2>2, FieldTyped
    <3>2. QED
      BY <1>1, <3>1
  <2>3. n < 128 \/ (n >= 128 /\ n <= 255)
    BY <1>2
  <2>4. QED
    BY <2>1, <2>2, <2>3
<1>4. /\ Len(TlvOf(t, v)) = Len(t) + Len(LengthField(Len(v))) + Len(v)
      /\ Len(t) \in 1..4
  BY <1>1, <1>2, TlvTyped
<1>5. Len(TlvOf(t, v)) = Len(t) + Len(f) + n
  BY <1>1, <1>4
<1>6. QED
  BY <1>1, <1>2, <1>3, <1>4, <1>5

LEMMA PrimitiveWritten ==
  ASSUME NEW values, Over(values, PrimitiveValues)
  PROVE  Written(values)
<1>1. ASSUME NEW v \in Range(values) PROVE WrittenObject(v)
  <2>1. v \in PrimitiveValues
    BY RangeOf
  <2>2. Over(v.tag, Byte) /\ Over(v.value, Byte)
    BY <2>1 DEF PrimitiveValues, PrimitiveValue
  <2>3. QED
    BY <2>2, ByteNumbers DEF WrittenObject, Over
<1>2. QED
  BY <1>1, RangeOf DEF Written

LEMMA EncodedFront ==
  ASSUME NEW v \in PrimitiveValues, Len(v.value) <= 255, NEW t, Over(t, PrimitiveValues)
  PROVE  /\ Len(Encoded(Cat(<<v>>, t))) <= Len(v.tag) + 2 + Len(v.value) + Len(Encoded(t))
         /\ Len(Encoded(Cat(<<v>>, t))) \in Nat /\ Len(Encoded(t)) \in Nat
         /\ Len(v.tag) \in Nat /\ Len(v.value) \in Nat
<1>1. PICK w, x, y : w = <<v>> /\ x = Encoded(w) /\ y = Encoded(t)
  OBVIOUS
<1>2. Over(w, PrimitiveValues)
  BY <1>1, One
<1>3. Written(w) /\ Written(t)
  BY <1>2, PrimitiveWritten
<1>4. Over(x, Nat) /\ Over(y, Nat) /\ Encoded(Cat(w, t)) = Cat(x, y)
  BY <1>1, <1>3, EncodedCat
<1>5. Over(v.tag, Byte) /\ ValidDataTag(v.tag) /\ Over(v.value, Byte) /\ WrittenObject(v)
  <2>1. Over(v.tag, Byte) /\ ValidDataTag(v.tag) /\ Over(v.value, Byte)
    BY DEF PrimitiveValues, PrimitiveValue
  <2>2. QED
    BY <2>1, ByteNumbers DEF WrittenObject, Over
<1>6. x = TlvOf(v.tag, v.value)
  BY <1>1, <1>5, EncodedOne
<1>7. /\ Len(x) <= Len(v.tag) + 2 + Len(v.value) /\ Len(x) \in Nat
      /\ Len(v.tag) \in Nat /\ Len(v.value) \in Nat
  BY <1>5, <1>6, TlvShort
<1>8. Over(Cat(x, y), Nat) /\ Len(Cat(x, y)) = Len(x) + Len(y) /\ Len(x) \in Nat /\ Len(y) \in Nat
  BY <1>4, Joined
<1>9. Len(Cat(x, y)) <= Len(v.tag) + 2 + Len(v.value) + Len(y) /\ Len(Cat(x, y)) \in Nat
  <2>0. PICK i, j : i = Len(v.tag) /\ j = Len(v.value)
    OBVIOUS
  <2>1. PICK k, m, n : k = Len(x) /\ m = Len(y) /\ n = i + 2 + j
    OBVIOUS
  <2>2. k <= n /\ k \in Nat /\ n \in Nat /\ m \in Nat
    <3>1. i \in Nat /\ j \in Nat /\ k \in Nat /\ m \in Nat
      BY <1>7, <1>8, <2>0, <2>1
    <3>2. k <= i + 2 + j
      BY <1>7, <2>0, <2>1
    <3>3. QED
      BY <2>1, <3>1, <3>2
  <2>3. k + m <= n + m /\ k + m \in Nat
    BY <2>2
  <2>4. Len(Cat(x, y)) = k + m
    BY <1>8, <2>1
  <2>5. QED
    BY <2>0, <2>1, <2>3, <2>4
<1>10. QED
  BY <1>1, <1>4, <1>7, <1>8, <1>9

(* A template 77 of primitive objects.                                     *)
LEMMA Sent77Read ==
  ASSUME NEW values, Over(values, PrimitiveValues), Len(values) <= 17,
         Len(Encoded(values)) <= 260
  PROVE  LET p == ParseMany(Sent77(values)) IN
         /\ p.ok /\ Len(p.items) = 1 /\ p.items[1].tag = <<119>>
         /\ p.items[1].children = ObjectsOf(values)
<1>1. PICK made, e, tag : made = ObjectsOf(values) /\ e = Encoded(made) /\ tag = <<119>>
  OBVIOUS
<1>2. /\ Proper(made) /\ e = Encoded(values) /\ Flatten(made) = made
      /\ Len(made) = Len(values)
  BY <1>1, PrimitiveValuesAre, ObjectsOfProper
<1>3. Len(values) \in Nat /\ Len(e) \in Nat
  BY <1>1, <1>2, Measured, ProperWritten
<1>4. Len(e) <= 260 /\ Len(e) <= MaxValueLength /\ Len(e) <= LongestLength
  BY <1>2, <1>3, LimitTyped, LongestTyped
<1>5. WithinLimits(made) /\ Depth(made) = 0
  <2>1. Len(values) <= 18 /\ Len(Encoded(values)) <= MaxValueLength
    BY <1>2, <1>3, <1>4
  <2>2. QED
    BY <1>1, <2>1, PrimitiveValuesAre, PrimitivesRead
<1>6. Over(e, Byte)
  BY <1>1, <1>2, <1>4, EncodedBytes
<1>7. 119 \in Byte
  BY ByteNat
<1>8. Over(tag, Byte) /\ Len(tag) = 1 /\ tag[1] = 119
  BY <1>1, <1>7, Short1 DEF Over
<1>9. Constructed(tag[1]) /\ ~ Continued(tag[1]) /\ ValidDataTag(tag)
  BY <1>8 DEF Constructed, Continued, ValidDataTag, Reserved
<1>10. PICK o, a : o = Object(tag, e, made) /\ a = <<o>>
  OBVIOUS
<1>11. Proper(a) /\ ProperObject(o)
  BY <1>1, <1>2, <1>6, <1>8, <1>9, <1>10, Enclosed DEF Over
<1>12. o.tag = tag /\ o.value = e /\ o.children = made /\ o.depth = 1 /\ o.inside = made
  BY <1>2, <1>5, <1>9, <1>10 DEF Object
<1>13. /\ Listed(a) /\ Range(a) = {o} /\ Range(Flatten(a)) = {o} \cup Range(made)
       /\ Len(Flatten(a)) = 1 + Len(made)
  <2>1. ListedObject(o)
    BY <1>11, ProperParts
  <2>2. /\ Listed(<<o>>) /\ Range(<<o>>) = {o}
        /\ Range(Flatten(<<o>>)) = {o} \cup Range(o.inside)
        /\ Len(o.inside) \in Nat /\ Len(Flatten(<<o>>)) = 1 + Len(o.inside)
    BY <2>1, ListedOne
  <2>3. QED
    BY <1>10, <1>12, <2>2
<1>14. Depth(a) <= MaxDepth
  <2>1. 1 <= MaxDepth /\ MaxDepth \in Nat
    BY LimitsTyped
  <2>2. \A x \in Range(a) : x.depth <= MaxDepth
    BY <1>12, <1>13, <2>1
  <2>3. QED
    BY <1>13, <2>1, <2>2, DepthBound
<1>15. Len(Flatten(a)) <= MaxNodes
  BY <1>2, <1>3, <1>13, EncodingAssumption
<1>16. \A x \in Range(Flatten(a)) : Len(x.value) <= MaxValueLength
  BY <1>2, <1>4, <1>5, <1>12, <1>13 DEF WithinLimits
<1>17. WithinLimits(a)
  BY <1>14, <1>15, <1>16 DEF WithinLimits
<1>18. Encoded(a) = TlvOf(tag, e) /\ Sent77(values) = TlvOf(tag, e)
  <2>1. WrittenObject(o)
    BY <1>11, ProperParts
  <2>2. Encoded(<<o>>) = TlvOf(o.tag, o.value) /\ Tlv(o) = TlvOf(o.tag, o.value)
    BY <2>1, EncodedOne, TlvNumbers
  <2>3. Sent77(values) = Tlv(o)
    BY <1>1, <1>10 DEF Sent77, ObjectsOf, ObjectOf
  <2>4. QED
    BY <1>10, <1>12, <2>2, <2>3
<1>19. Len(Encoded(a)) <= LongestLength
  <2>1. /\ Len(LengthField(Len(e))) \in 1..3
        /\ Len(TlvOf(tag, e)) = Len(tag) + Len(LengthField(Len(e))) + Len(e)
    <3>1. Over(tag, Byte) /\ ValidDataTag(tag) /\ Over(e, Byte) /\ Len(e) <= LongestLength
      BY <1>4, <1>6, <1>8, <1>9
    <3>2. QED
      BY <3>1, TlvTyped
  <2>2. PICK k : k = Len(LengthField(Len(e)))
    OBVIOUS
  <2>3. k \in 1..3 /\ Len(TlvOf(tag, e)) = 1 + k + Len(e)
    BY <1>8, <2>1, <2>2
  <2>4. Len(TlvOf(tag, e)) <= 4096 /\ Len(TlvOf(tag, e)) \in Nat
    BY <1>3, <1>4, <2>3
  <2>5. QED
    BY <1>18, <2>4, LongestTyped
<1>20. ParseMany(Encoded(a)) = Sequence(a, Len(Flatten(a)))
  BY <1>11, <1>17, <1>19, ParserComplete
<1>21. PICK p : p = ParseMany(Sent77(values))
  OBVIOUS
<1>22. p.ok /\ p.items = a
  BY <1>18, <1>20, <1>21 DEF Sequence
<1>23. Len(a) = 1 /\ a[1] = o
  BY <1>10, One
<1>24. QED
  BY <1>1, <1>12, <1>21, <1>22, <1>23

(* A template 80 with a value.                                             *)
LEMMA Sent80Read ==
  ASSUME NEW value, Over(value, Byte), Len(value) <= 255
  PROVE  LET p == ParseMany(Sent80(value)) IN
         /\ p.ok /\ Len(p.items) = 1 /\ p.items[1].tag = <<128>> /\ p.items[1].value = value
<1>1. PICK tag, v, vs : tag = <<128>> /\ v = ValueOf(tag, value) /\ vs = <<v>>
  OBVIOUS
<1>2. tag \in PrimitiveTags
  <2>1. 128 \in Byte
    BY ByteNat
  <2>2. <<128>> \in PrimitiveTags
    BY <2>1, ShortTag
  <2>3. QED
    BY <1>1, <2>2
<1>3. v \in PrimitiveValues
  BY <1>1, <1>2, PrimitiveMade
<1>4. v.tag = tag /\ v.value = value /\ PrimitiveValue(v)
  BY <1>1, <1>3, PrimitiveValuesAre DEF ValueOf
<1>5. Over(vs, PrimitiveValues) /\ Len(vs) = 1 /\ vs[1] = v
  BY <1>1, <1>3, One
<1>6. Len(tag) = 1 /\ Over(tag, Byte) /\ ValidDataTag(tag)
  <2>1. Len(<<128>>) = 1
    BY One
  <2>2. QED
    BY <1>1, <1>2, <2>1 DEF PrimitiveTags, Over
<1>7. Encoded(vs) = TlvOf(tag, value) /\ Tlv(ObjectOf(v)) = TlvOf(tag, value)
  <2>1. WrittenObject(v)
    BY <1>4, ByteNumbers DEF WrittenObject, PrimitiveValue, Over
  <2>2. Encoded(<<v>>) = TlvOf(v.tag, v.value)
    BY <2>1, EncodedOne
  <2>3. ObjectOf(v).tag = v.tag /\ ObjectOf(v).value = v.value
    BY <1>4, PrimitiveIs
  <2>4. Tlv(ObjectOf(v)) = TlvOf(ObjectOf(v).tag, ObjectOf(v).value)
    BY DEF Tlv, TlvOf, Cat
  <2>5. QED
    BY <1>1, <1>4, <2>2, <2>3, <2>4
<1>8. Sent80(value) = TlvOf(tag, value)
  BY <1>1, <1>4, <1>7 DEF Sent80, ObjectOf
<1>9. Len(Encoded(vs)) <= MaxValueLength /\ Len(vs) <= 18
  <2>1. Len(TlvOf(tag, value)) <= Len(tag) + 2 + Len(value) /\ Len(TlvOf(tag, value)) \in Nat
        /\ Len(value) \in Nat
    BY <1>6, TlvShort
  <2>2. Len(TlvOf(tag, value)) <= 260
    BY <1>6, <2>1
  <2>3. QED
    BY <1>5, <1>7, <2>1, <2>2, LimitTyped
<1>10. ParseMany(Encoded(vs)).ok /\ ParseMany(Encoded(vs)).items = ObjectsOf(vs)
  BY <1>5, <1>9, PrimitiveValuesAre, PrimitivesRead
<1>11. Len(ObjectsOf(vs)) = 1 /\ ObjectsOf(vs)[1] = ObjectOf(v)
  <2>1. /\ Len(ObjectsOf(vs)) = Len(vs)
        /\ \A i \in DOMAIN vs : ObjectsOf(vs)[i] = ObjectOf(vs[i])
    BY <1>5, PrimitiveValuesAre, ObjectsOfProper
  <2>2. 1 \in DOMAIN vs
    BY <1>5, RangeOf
  <2>3. QED
    BY <1>5, <2>1, <2>2
<1>12. ObjectOf(v).tag = tag /\ ObjectOf(v).value = value
  BY <1>4, PrimitiveIs
<1>13. QED
  BY <1>1, <1>7, <1>8, <1>10, <1>11, <1>12

-----------------------------------------------------------------------------
(* The answer to GENERATE AC in its two formats.                           *)

(* What is found among the objects made of values.                         *)
LEMMA FoundAmong ==
  ASSUME NEW values, Over(values, PrimitiveValues), NEW i \in 1..Len(values),
         NEW tag, values[i].tag = tag,
         \A j \in 1..Len(values) : values[j].tag = tag => j = i
  PROVE  /\ Present(ObjectsOf(values), tag) /\ UniqueDirect(ObjectsOf(values), tag)
         /\ DirectValue(ObjectsOf(values), tag) = values[i].value
<1>1. PICK made : made = ObjectsOf(values)
  OBVIOUS
<1>2. /\ Over(made, Range(made)) /\ DOMAIN made = DOMAIN values /\ Len(made) = Len(values)
      /\ \A j \in DOMAIN values : made[j] = ObjectOf(values[j])
  BY <1>1, PrimitiveValuesAre, ObjectsOfProper
<1>3. DOMAIN values = 1..Len(values)
  BY RangeOf
<1>4. ASSUME NEW j \in 1..Len(values)
      PROVE  made[j].tag = values[j].tag /\ made[j].value = values[j].value
  <2>1. PICK v : v = values[j]
    OBVIOUS
  <2>2. PrimitiveValue(v)
    <3>1. v \in PrimitiveValues
      BY <2>1, ElementOfSeq DEF Over
    <3>2. QED
      BY <3>1, PrimitiveValuesAre
  <2>3. QED
    BY <1>2, <1>3, <2>1, <2>2, PrimitiveIs
<1>5. i \in 1..Len(made) /\ made[i].tag = tag /\ \A j \in 1..Len(made) : made[j].tag = tag => j = i
  BY <1>2, <1>4
<1>6. Direct(made, tag) = <<made[i]>>
  BY <1>2, <1>5, DirectAt
<1>7. PICK o, d : o = made[i] /\ d = <<o>>
  OBVIOUS
<1>8. Len(d) = 1 /\ d[1] = o /\ d # <<>>
  BY <1>7, One, NotEmpty
<1>9. Present(made, tag) /\ UniqueDirect(made, tag)
  BY <1>6, <1>7, <1>8 DEF Present, UniqueDirect
<1>10. DirectValue(made, tag) = o.value
  BY <1>6, <1>7, <1>8, <1>9 DEF DirectValue
<1>11. QED
  BY <1>1, <1>4, <1>7, <1>9, <1>10

LEMMA NotAmong ==
  ASSUME NEW values, Over(values, PrimitiveValues),
         NEW tag, \A j \in 1..Len(values) : values[j].tag # tag
  PROVE  /\ ~ Present(ObjectsOf(values), tag) /\ UniqueDirect(ObjectsOf(values), tag)
         /\ DirectValue(ObjectsOf(values), tag) = <<>>
<1>1. PICK made : made = ObjectsOf(values)
  OBVIOUS
<1>2. /\ Over(made, Range(made))
      /\ \A o \in Range(made) : \E v \in Range(values) : o = ObjectOf(v)
  BY <1>1, PrimitiveValuesAre, ObjectsOfProper
<1>3. ASSUME NEW o \in Range(made) PROVE o.tag # tag
  <2>1. PICK v \in Range(values) : o = ObjectOf(v)
    BY <1>2
  <2>2. v \in PrimitiveValues /\ \E j \in 1..Len(values) : values[j] = v
    BY RangeOf
  <2>3. o.tag = v.tag
    BY <2>1, <2>2, PrimitiveValuesAre, PrimitiveIs
  <2>4. QED
    BY <2>2, <2>3
<1>4. Direct(made, tag) = <<>>
  BY <1>2, <1>3, DirectNone
<1>5. Len(<<>>) = 0
  BY EmptySeq
<1>6. QED
  BY <1>1, <1>4, <1>5 DEF Present, UniqueDirect, DirectValue

LEMMA ObjectsOfPrimitive ==
  ASSUME NEW values, Over(values, PrimitiveValues)
  PROVE  Primitive(ObjectsOf(values))
<1>1. PICK made : made = ObjectsOf(values)
  OBVIOUS
<1>2. ASSUME NEW i \in DOMAIN made PROVE ~ made[i].constructed
  <2>1. DOMAIN made = DOMAIN values /\ made[i] = ObjectOf(values[i])
    BY <1>1, <1>2 DEF ObjectsOf
  <2>2. values[i] \in PrimitiveValues
    BY <2>1, RangeOf DEF Range
  <2>3. QED
    BY <2>1, <2>2, PrimitiveValuesAre, PrimitiveIs
<1>3. QED
  BY <1>1, <1>2 DEF Primitive

(* The tags of an answer differ.                                           *)
LEMMA AcTagsDiffer ==
  /\ Cid \notin {Ac, Atc, Iad, Sdad, DynamicNumber}
  /\ Ac \notin {Atc, Iad, Sdad, DynamicNumber}
  /\ Atc \notin {Iad, Sdad, DynamicNumber}
  /\ Iad \notin {Sdad, DynamicNumber}
  /\ Len(Cid) = 2 /\ Len(Ac) = 2 /\ Len(Atc) = 2 /\ Len(Iad) = 2
<1>1. ASSUME NEW x \in Nat, NEW y \in Nat
      PROVE  Len(<<x, y>>) = 2 /\ <<x, y>>[2] = y
  BY Short2
<1>2. /\ Cid[2] = 39 /\ Ac[2] = 38 /\ Atc[2] = 54 /\ Iad[2] = 16 /\ Sdad[2] = 75
      /\ DynamicNumber[2] = 76
      /\ Len(Cid) = 2 /\ Len(Ac) = 2 /\ Len(Atc) = 2 /\ Len(Iad) = 2
  BY <1>1 DEF Cid, Ac, Atc, Iad, Sdad, DynamicNumber
<1>3. QED
  BY <1>2

(* No dynamic data.                                                        *)
LEMMA NothingDynamic ==
  ASSUME NEW items, ~ Present(items, Sdad), ~ Present(items, DynamicNumber)
  PROVE  /\ Dynamic(items) = Dynamic(<<>>) /\ Dynamic(items).sdad = <<>>
<1>1. Direct(<<>>, Sdad) = <<>> /\ Direct(<<>>, DynamicNumber) = <<>>
  <2>1. Over(<<>>, {}) /\ Range(<<>>) = {}
    BY JoinedEmpty, RangeEmpty
  <2>2. QED
    BY <2>1, DirectNone
<1>2. DirectValue(<<>>, Sdad) = <<>> /\ DirectValue(<<>>, DynamicNumber) = <<>>
  BY <1>1 DEF DirectValue, Present
<1>3. DirectValue(items, Sdad) = <<>> /\ DirectValue(items, DynamicNumber) = <<>>
  BY DEF DirectValue
<1>4. QED
  BY <1>2, <1>3 DEF Dynamic

FourInRow(v, a, b, c, d) ==
  /\ Over(v, Byte) /\ Len(v) = 11 + Len(d) /\ Len(d) \in Nat
  /\ <<v[1]>> = a /\ SubSeq(v, 2, 3) = b /\ SubSeq(v, 4, 11) = c
  /\ SubSeq(v, 12, Len(v)) = d

(* The four values in a row are cut where they were joined.                *)
LEMMA FourCut ==
  ASSUME NEW a, NEW b, NEW c, NEW d, Over(a, Byte), Over(b, Byte), Over(c, Byte), Over(d, Byte),
         Len(a) = 1, Len(b) = 2, Len(c) = 8
  PROVE  FourInRow(Cat(Cat(Cat(a, b), c), d), a, b, c, d)
<1>0. PICK v : v = Cat(Cat(Cat(a, b), c), d)
  OBVIOUS
<1>1. PICK ab, abc, cd, bcd : ab = Cat(a, b) /\ abc = Cat(ab, c) /\ cd = Cat(c, d) /\ bcd = Cat(b, cd)
  OBVIOUS
<1>2. Over(ab, Byte) /\ Len(ab) = 3
  <2>1. Over(Cat(a, b), Byte) /\ Len(Cat(a, b)) = Len(a) + Len(b) /\ Len(a) \in Nat /\ Len(b) \in Nat
    BY Joined
  <2>2. QED
    BY <1>1, <2>1
<1>3. Over(abc, Byte) /\ Len(abc) = 11
  <2>1. Over(Cat(ab, c), Byte) /\ Len(Cat(ab, c)) = Len(ab) + Len(c) /\ Len(ab) \in Nat /\ Len(c) \in Nat
    BY <1>2, Joined
  <2>2. QED
    BY <1>1, <1>2, <2>1
<1>4. Over(cd, Byte) /\ Len(cd) = 8 + Len(d) /\ Len(d) \in Nat
  <2>1. Over(Cat(c, d), Byte) /\ Len(Cat(c, d)) = Len(c) + Len(d) /\ Len(c) \in Nat /\ Len(d) \in Nat
    BY Joined
  <2>2. QED
    BY <1>1, <2>1
<1>5. Over(bcd, Byte)
  <2>1. Over(Cat(b, cd), Byte)
    BY <1>4, Joined
  <2>2. QED
    BY <1>1, <2>1
<1>6. v = Cat(abc, d)
  BY <1>0, <1>1
<1>7. v = Cat(ab, cd)
  <2>1. Cat(Cat(ab, c), d) = Cat(ab, Cat(c, d))
    BY <1>2, Rejoined
  <2>2. QED
    BY <1>0, <1>1, <2>1
<1>8. v = Cat(a, bcd)
  <2>1. Cat(Cat(a, b), cd) = Cat(a, Cat(b, cd))
    BY <1>4, Rejoined
  <2>2. v = Cat(Cat(a, b), cd)
    BY <1>1, <1>7
  <2>3. QED
    BY <1>1, <2>1, <2>2
<1>9. Over(v, Byte) /\ Len(v) = 11 + Len(d)
  <2>1. Over(Cat(abc, d), Byte) /\ Len(Cat(abc, d)) = Len(abc) + Len(d)
        /\ Len(abc) \in Nat /\ Len(d) \in Nat
    BY <1>3, Joined
  <2>2. QED
    BY <1>3, <1>6, <2>1
<1>10. PICK n : n = Len(v)
  OBVIOUS
<1>11. n \in Nat /\ n >= 11 /\ n = Len(v)
  BY <1>4, <1>9, <1>10
<1>12. a = <<v[1]>>
  <2>1. Upto(Cat(a, bcd), Len(a)) = a
    BY <1>5, JoinedCut
  <2>2. Upto(v, 1) = a
    BY <1>8, <2>1
  <2>3. v \in Seq(Byte) /\ 1 \in 0..Len(v)
    BY <1>9, <1>11 DEF Over
  <2>4. \A i \in 1..1 : SubSeq(v, 1, 1)[i] = v[i]
    BY <2>3, SplitAt
  <2>5. a[1] = v[1]
    BY <2>2, <2>4 DEF Upto
  <2>6. PICK x : x = v[1]
    OBVIOUS
  <2>7. x \in Byte
    BY <1>11, <2>3, <2>6, ElementOfSeq
  <2>8. <<x>> \in Seq(Byte) /\ Len(<<x>>) = 1 /\ <<x>>[1] = x
    BY <2>7, Short1
  <2>9. a \in Seq(Byte)
    BY DEF Over
  <2>10. \A i \in 1..1 : a[i] = <<x>>[i]
    BY <2>5, <2>6, <2>8
  <2>11. a = <<x>>
    BY <2>8, <2>9, <2>10, SeqEqual
  <2>12. QED
    BY <2>6, <2>11
<1>13. SubSeq(v, 2, 3) = b
  <2>1. PICK m, q : m = 1 /\ q = 2
    OBVIOUS
  <2>2. m \in Nat /\ q \in Nat /\ m + q <= Len(v) /\ m + 1 = 2 /\ m + q = 3
    BY <1>11, <2>1
  <2>3. SubSeq(v, m + 1, m + q) = Upto(After(v, m), q)
    BY <1>9, <2>2, MiddleIs
  <2>4. After(Cat(a, bcd), Len(a)) = bcd
    BY <1>5, JoinedCut
  <2>5. Upto(Cat(b, cd), Len(b)) = b
    BY <1>4, JoinedCut
  <2>6. QED
    BY <1>1, <1>8, <2>1, <2>2, <2>3, <2>4, <2>5
<1>14. SubSeq(v, 4, 11) = c
  <2>1. PICK m, q : m = 3 /\ q = 8
    OBVIOUS
  <2>2. m \in Nat /\ q \in Nat /\ m + q <= Len(v) /\ m + 1 = 4 /\ m + q = 11
    BY <1>11, <2>1
  <2>3. SubSeq(v, m + 1, m + q) = Upto(After(v, m), q)
    BY <1>9, <2>2, MiddleIs
  <2>4. After(Cat(ab, cd), Len(ab)) = cd
    BY <1>2, <1>4, JoinedCut
  <2>5. Upto(Cat(c, d), Len(c)) = c
    BY JoinedCut
  <2>6. QED
    BY <1>1, <1>2, <1>7, <2>1, <2>2, <2>3, <2>4, <2>5
<1>15. SubSeq(v, 12, Len(v)) = d
  <2>1. After(Cat(abc, d), Len(abc)) = d
    BY <1>3, JoinedCut
  <2>2. After(v, 11) = d
    BY <1>3, <1>6, <2>1
  <2>3. 11 + 1 = 12
    OBVIOUS
  <2>4. QED
    BY <2>2, <2>3 DEF After
<1>16. FourInRow(v, a, b, c, d)
  BY <1>4, <1>9, <1>12, <1>13, <1>14, <1>15 DEF FourInRow
<1>17. QED
  BY <1>0, <1>16

LEMMA AcIn80 ==
  ASSUME NEW r, AcTyped(r), r.dynamic = Dynamic(<<>>)
  PROVE  ParseGenerateAc(Sent80(r.cid \o r.atc \o r.ac \o r.iad)) = r
<1>1. PICK v : v = r.cid \o r.atc \o r.ac \o r.iad
  OBVIOUS
<1>2. v = Cat(Cat(Cat(r.cid, r.atc), r.ac), r.iad)
  BY <1>1 DEF Cat
<1>3. /\ Over(v, Byte) /\ Len(v) = 11 + Len(r.iad) /\ Len(r.iad) \in Nat
      /\ <<v[1]>> = r.cid /\ SubSeq(v, 2, 3) = r.atc /\ SubSeq(v, 4, 11) = r.ac
      /\ SubSeq(v, 12, Len(v)) = r.iad
  <2>1. PICK a, b, c, d : a = r.cid /\ b = r.atc /\ c = r.ac /\ d = r.iad
    OBVIOUS
  <2>2. /\ Over(a, Byte) /\ Over(b, Byte) /\ Over(c, Byte) /\ Over(d, Byte)
        /\ Len(a) = 1 /\ Len(b) = 2 /\ Len(c) = 8
    BY <2>1 DEF AcTyped
  <2>3. FourInRow(Cat(Cat(Cat(a, b), c), d), a, b, c, d)
    BY <2>2, FourCut
  <2>4. QED
    BY <1>2, <2>1, <2>3 DEF FourInRow
<1>4. Len(v) \in 11..(11 + MaxIad) /\ Len(v) <= 255
  BY <1>3, IadTyped DEF AcTyped
<1>5. AcFormat1(v) = r
  BY <1>3, <1>4 DEF AcFormat1, AcTyped
<1>6. PICK p : p = ParseMany(Sent80(v))
  OBVIOUS
<1>7. p.ok /\ Len(p.items) = 1 /\ p.items[1].tag = <<128>> /\ p.items[1].value = v
  BY <1>3, <1>4, <1>6, Sent80Read
<1>8. Only(p, {<<119>>, <<128>>})
  BY <1>7 DEF Only
<1>9. AcIn(p) = AcFormat1(v)
  BY <1>7, <1>8 DEF AcIn
<1>10. QED
  BY <1>1, <1>5, <1>6, <1>9 DEF ParseGenerateAc

LEMMA AcIn77 ==
  ASSUME NEW r, AcTyped(r), r.dynamic = Dynamic(<<>>)
  PROVE  ParseGenerateAc(Sent77(<<ValueOf(Cid, r.cid), ValueOf(Ac, r.ac),
                                  ValueOf(Iad, r.iad), ValueOf(Atc, r.atc)>>)) = r
<1>1. PICK a, b, c, d : /\ a = ValueOf(Cid, r.cid) /\ b = ValueOf(Ac, r.ac)
                        /\ c = ValueOf(Iad, r.iad) /\ d = ValueOf(Atc, r.atc)
  OBVIOUS
<1>2. PICK V, values : V = PrimitiveValues /\ values = <<a, b, c, d>>
  OBVIOUS
<1>3. a \in V /\ b \in V /\ c \in V /\ d \in V
  <2>1. Cid \in PrimitiveTags /\ Ac \in PrimitiveTags /\ Atc \in PrimitiveTags /\ Iad \in PrimitiveTags
    BY AcTagsPrimitive
  <2>2. QED
    BY <1>1, <1>2, <2>1, PrimitiveMade DEF AcTyped
<1>4. /\ a.tag = Cid /\ b.tag = Ac /\ c.tag = Iad /\ d.tag = Atc
      /\ a.value = r.cid /\ b.value = r.ac /\ c.value = r.iad /\ d.value = r.atc
  BY <1>1 DEF ValueOf
<1>5. PICK bcd, cd, one : bcd = <<b, c, d>> /\ cd = <<c, d>> /\ one = <<d>>
  OBVIOUS
<1>6. /\ Over(values, V) /\ Len(values) = 4 /\ values = Cat(<<a>>, bcd) /\ bcd = Cat(<<b>>, cd)
      /\ Over(bcd, V)
      /\ values[1] = a /\ values[2] = b /\ values[3] = c /\ values[4] = d
  BY <1>2, <1>3, <1>5, Quadruple
<1>7. Over(cd, V) /\ cd = Cat(<<c>>, one) /\ Over(one, V) /\ one = Cat(<<d>>, <<>>) /\ Over(<<>>, V)
  <2>1. Over(cd, V) /\ cd = Cat(<<c>>, one)
    BY <1>3, <1>5, Pair
  <2>2. Over(one, V)
    BY <1>3, <1>5, One
  <2>3. Over(<<>>, V) /\ Cat(one, <<>>) = one
    BY <2>2, JoinedEmpty
  <2>4. QED
    BY <1>5, <2>1, <2>2, <2>3
<1>8. /\ Len(r.cid) = 1 /\ Len(r.ac) = 8 /\ Len(r.atc) = 2 /\ Len(r.iad) \in Nat
      /\ Len(r.iad) <= MaxIad /\ Len(r.iad) <= 127
  BY IadTyped DEF AcTyped
<1>9. Len(Encoded(values)) <= 260
  <2>1. Len(Encoded(<<>>)) = 0
    BY EncodedEmpty, EmptySeq
  <2>2. Len(Encoded(one)) <= 6 /\ Len(Encoded(one)) \in Nat
    <3>1. /\ Len(Encoded(Cat(<<d>>, <<>>))) <= Len(d.tag) + 2 + Len(d.value) + Len(Encoded(<<>>))
          /\ Len(Encoded(Cat(<<d>>, <<>>))) \in Nat /\ Len(Encoded(<<>>)) \in Nat
          /\ Len(d.tag) \in Nat /\ Len(d.value) \in Nat
      <4>1. d \in PrimitiveValues /\ Len(d.value) <= 255 /\ Over(<<>>, PrimitiveValues)
        BY <1>2, <1>3, <1>4, <1>7, <1>8
      <4>2. QED
        BY <4>1, EncodedFront
    <3>2. QED
      BY <1>4, <1>7, <1>8, <2>1, <3>1, AcTagsDiffer
  <2>3. Len(Encoded(cd)) <= 137 /\ Len(Encoded(cd)) \in Nat
    <3>1. /\ Len(Encoded(Cat(<<c>>, one))) <= Len(c.tag) + 2 + Len(c.value) + Len(Encoded(one))
          /\ Len(Encoded(Cat(<<c>>, one))) \in Nat /\ Len(Encoded(one)) \in Nat
          /\ Len(c.tag) \in Nat /\ Len(c.value) \in Nat
      <4>1. c \in PrimitiveValues /\ Len(c.value) <= 255 /\ Over(one, PrimitiveValues)
        BY <1>2, <1>3, <1>4, <1>7, <1>8
      <4>2. QED
        BY <4>1, EncodedFront
    <3>2. QED
      BY <1>4, <1>7, <1>8, <2>2, <3>1, AcTagsDiffer
  <2>4. Len(Encoded(bcd)) <= 149 /\ Len(Encoded(bcd)) \in Nat
    <3>1. /\ Len(Encoded(Cat(<<b>>, cd))) <= Len(b.tag) + 2 + Len(b.value) + Len(Encoded(cd))
          /\ Len(Encoded(Cat(<<b>>, cd))) \in Nat /\ Len(Encoded(cd)) \in Nat
          /\ Len(b.tag) \in Nat /\ Len(b.value) \in Nat
      <4>1. b \in PrimitiveValues /\ Len(b.value) <= 255 /\ Over(cd, PrimitiveValues)
        BY <1>2, <1>3, <1>4, <1>7, <1>8
      <4>2. QED
        BY <4>1, EncodedFront
    <3>2. QED
      BY <1>4, <1>6, <1>8, <2>3, <3>1, AcTagsDiffer
  <2>5. /\ Len(Encoded(Cat(<<a>>, bcd))) <= Len(a.tag) + 2 + Len(a.value) + Len(Encoded(bcd))
        /\ Len(Encoded(Cat(<<a>>, bcd))) \in Nat /\ Len(Encoded(bcd)) \in Nat
        /\ Len(a.tag) \in Nat /\ Len(a.value) \in Nat
    <3>1. a \in PrimitiveValues /\ Len(a.value) <= 255 /\ Over(bcd, PrimitiveValues)
      BY <1>2, <1>3, <1>4, <1>6, <1>8
    <3>2. QED
      BY <3>1, EncodedFront
  <2>6. QED
    BY <1>4, <1>6, <1>8, <2>4, <2>5, AcTagsDiffer
<1>10. PICK made : made = ObjectsOf(values)
  OBVIOUS
<1>11. \A j \in 1..Len(values) : j \in {1, 2, 3, 4}
  BY <1>6
<1>12. \A j \in 1..Len(values) :
         /\ values[j].tag = Cid => j = 1
         /\ values[j].tag = Ac => j = 2
         /\ values[j].tag = Iad => j = 3
         /\ values[j].tag = Atc => j = 4
         /\ values[j].tag # Sdad /\ values[j].tag # DynamicNumber
  BY <1>4, <1>6, <1>11, AcTagsDiffer
<1>13. 1 \in 1..Len(values) /\ 2 \in 1..Len(values) /\ 3 \in 1..Len(values) /\ 4 \in 1..Len(values)
  BY <1>6
<1>14. Over(values, PrimitiveValues)
  BY <1>2, <1>6
<1>15. UniqueDirect(made, Cid) /\ DirectValue(made, Cid) = r.cid
  BY <1>4, <1>6, <1>10, <1>12, <1>13, <1>14, FoundAmong
<1>16. UniqueDirect(made, Ac) /\ DirectValue(made, Ac) = r.ac
  BY <1>4, <1>6, <1>10, <1>12, <1>13, <1>14, FoundAmong
<1>17. UniqueDirect(made, Iad) /\ DirectValue(made, Iad) = r.iad
  BY <1>4, <1>6, <1>10, <1>12, <1>13, <1>14, FoundAmong
<1>18. UniqueDirect(made, Atc) /\ DirectValue(made, Atc) = r.atc
  BY <1>4, <1>6, <1>10, <1>12, <1>13, <1>14, FoundAmong
<1>19. /\ UniqueDirect(made, Sdad) /\ ~ Present(made, Sdad)
       /\ UniqueDirect(made, DynamicNumber) /\ ~ Present(made, DynamicNumber)
  BY <1>10, <1>12, <1>14, NotAmong
<1>20. Primitive(made)
  BY <1>10, <1>14, ObjectsOfPrimitive
<1>21. Dynamic(made) = Dynamic(<<>>) /\ DynamicValid(made)
  BY <1>19, NothingDynamic DEF DynamicValid, AllUnique
<1>22. AllUnique(made, AcTags)
  BY <1>15, <1>16, <1>17, <1>18, <1>19 DEF AllUnique, AcTags
<1>23. AcFormat2(made) = r
  BY <1>8, <1>15, <1>16, <1>17, <1>18, <1>20, <1>21, <1>22 DEF AcFormat2, AcTyped
<1>24. PICK p : p = ParseMany(Sent77(values))
  OBVIOUS
<1>25. /\ p.ok /\ Len(p.items) = 1 /\ p.items[1].tag = <<119>>
       /\ p.items[1].children = made
  <2>1. Over(values, PrimitiveValues) /\ Len(values) <= 17 /\ Len(Encoded(values)) <= 260
    BY <1>6, <1>9, <1>14
  <2>2. QED
    BY <1>10, <1>24, <2>1, Sent77Read
<1>26. Only(p, {<<119>>, <<128>>}) /\ <<119>> # <<128>>
  <2>1. <<119>>[1] = 119 /\ <<128>>[1] = 128
    BY One
  <2>2. QED
    BY <1>25, <2>1 DEF Only
<1>27. AcIn(p) = AcFormat2(made)
  BY <1>25, <1>26 DEF AcIn
<1>28. QED
  BY <1>1, <1>2, <1>23, <1>24, <1>27 DEF ParseGenerateAc

(* Dynamic data of an answer are those INTERNAL AUTHENTICATE gives.        *)
LEMMA DynamicAgrees ==
  ASSUME NEW b, Over(b, Byte), ParseGenerateAc(b).ok, ParseGenerateAc(b).dynamic.sdad # <<>>
  PROVE  /\ ParseInternalAuthenticate(b).ok
         /\ ParseInternalAuthenticate(b).dynamic = ParseGenerateAc(b).dynamic
<1>1. PICK p, o, r : p = ParseMany(b) /\ o = p.items[1] /\ r = ParseGenerateAc(b)
  OBVIOUS
<1>2. r = AcIn(p) /\ r.ok /\ r.dynamic.sdad # <<>>
  BY <1>1 DEF ParseGenerateAc
<1>3. Only(p, {<<119>>, <<128>>})
  BY <1>2 DEF AcIn, No
<1>4. ProperObject(o) /\ Proper(o.children)
  BY <1>1, <1>3, TemplateRead
<1>5. CASE o.tag = <<128>>
  <2>1. r = AcFormat1(o.value)
    BY <1>1, <1>2, <1>3, <1>5 DEF AcIn
  <2>2. r.dynamic = Dynamic(<<>>)
    BY <1>2, <1>4, <2>1, ProperParts, Format1Typed
  <2>3. Direct(<<>>, Sdad) = <<>> /\ Direct(<<>>, DynamicNumber) = <<>>
    <3>1. Over(<<>>, {}) /\ Range(<<>>) = {}
      BY JoinedEmpty, RangeEmpty
    <3>2. QED
      BY <3>1, DirectNone
  <2>4. Dynamic(<<>>).sdad = <<>>
    BY <2>3, NothingDynamic DEF Present
  <2>5. QED
    BY <1>2, <2>2, <2>4
<1>6. CASE o.tag # <<128>>
  <2>1. PICK items : items = o.children
    OBVIOUS
  <2>2. r = AcFormat2(items)
    BY <1>1, <1>2, <1>3, <1>6, <2>1 DEF AcIn
  <2>3. Primitive(items) /\ DynamicValid(items) /\ r.dynamic = Dynamic(items)
    BY <1>2, <2>2 DEF AcFormat2, No, AcResponse
  <2>4. Present(items, Sdad)
    <3>1. DirectValue(items, Sdad) # <<>>
      BY <1>2, <2>3 DEF Dynamic
    <3>2. QED
      BY <3>1 DEF DirectValue
  <2>5. AuthenticationOf(items) = [ok |-> TRUE, dynamic |-> Dynamic(items)]
    BY <2>3, <2>4 DEF AuthenticationOf
  <2>6. Only(p, {<<119>>})
    BY <1>1, <1>3, <1>6 DEF Only
  <2>7. ParseInternalAuthenticate(b) = AuthenticationOf(items)
    BY <1>1, <2>1, <2>6 DEF ParseInternalAuthenticate, AuthenticationIn
  <2>8. QED
    BY <1>1, <2>3, <2>5, <2>7
<1>7. QED
  BY <1>5, <1>6

LEMMA AcAgreesHolds ==
  ASSUME NEW b, Over(b, Byte)
  PROVE  AcAgrees(ParseGenerateAc(b), ParseInternalAuthenticate(b))
<1>1. PICK ac, auth : ac = ParseGenerateAc(b) /\ auth = ParseInternalAuthenticate(b)
  OBVIOUS
<1>2. ac.ok => AcTyped(ac)
  BY <1>1, AcIsTyped
<1>3. ac.ok /\ ac.dynamic = Dynamic(<<>>) =>
        /\ ParseGenerateAc(Sent80(ac.cid \o ac.atc \o ac.ac \o ac.iad)) = ac
        /\ ParseGenerateAc(Sent77(<<ValueOf(Cid, ac.cid), ValueOf(Ac, ac.ac),
                                    ValueOf(Iad, ac.iad), ValueOf(Atc, ac.atc)>>)) = ac
  BY <1>2, AcIn80, AcIn77
<1>4. ac.ok /\ ac.dynamic.sdad # <<>> => auth.ok /\ auth.dynamic = ac.dynamic
  BY <1>1, DynamicAgrees
<1>5. QED
  BY <1>1, <1>3, <1>4 DEF AcAgrees

-----------------------------------------------------------------------------
(* The answer to GET PROCESSING OPTIONS in its two formats.                *)
Gpo80(value) == IF Len(value) <= 2 THEN No
                ELSE Gpo(SubSeq(value, 1, 2), SubSeq(value, 3, Len(value)))
Gpo77(items) ==
  IF Primitive(items) /\ AllUnique(items, {<<130>>, <<148>>})
  THEN Gpo(DirectValue(items, <<130>>), DirectValue(items, <<148>>)) ELSE No

LEMMA GpoCases ==
  ASSUME NEW p
  PROVE  GpoIn(p) = IF ~Only(p, {<<119>>, <<128>>}) THEN No
                    ELSE IF p.items[1].tag = <<128>> THEN Gpo80(p.items[1].value)
                    ELSE Gpo77(p.items[1].children)
BY DEF GpoIn, Gpo80, Gpo77

LEMMA GpoIsRead ==
  ASSUME NEW b, Over(b, Byte), ParseGpo(b).ok
  PROVE  \E aip, data : Over(aip, Byte) /\ Over(data, Byte) /\ ParseGpo(b) = Gpo(aip, data)
<1>1. PICK p, o : p = ParseMany(b) /\ o = p.items[1]
  OBVIOUS
<1>2. ParseGpo(b) = IF ~Only(p, {<<119>>, <<128>>}) THEN No
                    ELSE IF o.tag = <<128>> THEN Gpo80(o.value) ELSE Gpo77(o.children)
  BY <1>1, GpoCases DEF ParseGpo
<1>3. Only(p, {<<119>>, <<128>>})
  BY <1>2 DEF No
<1>4. ProperObject(o) /\ Proper(o.children)
  BY <1>1, <1>3, TemplateRead
<1>5. CASE o.tag = <<128>>
  <2>1. PICK v : v = o.value
    OBVIOUS
  <2>2. Over(v, Byte) /\ Len(v) \in Nat
    BY <1>4, <2>1, ProperParts, Measured
  <2>3. ~ (Len(v) <= 2) /\ ParseGpo(b) = Gpo(SubSeq(v, 1, 2), SubSeq(v, 3, Len(v)))
    BY <1>2, <1>3, <1>5, <2>1 DEF Gpo80, No
  <2>4. PICK m : m = 2
    OBVIOUS
  <2>5. m \in Nat /\ m <= Len(v)
    BY <2>2, <2>3, <2>4
  <2>6. Over(Upto(v, m), Byte) /\ Over(After(v, m), Byte)
    BY <2>2, <2>5, CutJoined
  <2>7. SubSeq(v, 1, 2) = Upto(v, m) /\ SubSeq(v, 3, Len(v)) = After(v, m)
    BY <2>4 DEF Upto, After
  <2>8. QED
    BY <2>3, <2>6, <2>7
<1>6. CASE o.tag # <<128>>
  <2>1. ParseGpo(b) = Gpo(DirectValue(o.children, <<130>>), DirectValue(o.children, <<148>>))
    BY <1>2, <1>3, <1>6 DEF Gpo77, No
  <2>2. Over(DirectValue(o.children, <<130>>), Byte) /\ Over(DirectValue(o.children, <<148>>), Byte)
    BY <1>4, ValueFound
  <2>3. QED
    BY <2>1, <2>2
<1>7. QED
  BY <1>5, <1>6

LEMMA GpoParts ==
  ASSUME NEW aip, NEW data, Over(aip, Byte), Over(data, Byte), Gpo(aip, data).ok
  PROVE  /\ Len(aip) = 2 /\ Len(data) \in Nat /\ Len(data) <= 252 /\ data # <<>>
         /\ Gpo(aip, data).aip = aip /\ FlattenSeq(Gpo(aip, data).afl) = data
<1>1. Len(aip) = 2 /\ ParseAfl(data).ok
  BY DEF Gpo, No
<1>2. Gpo(aip, data) = [ok |-> TRUE, aip |-> aip, afl |-> ParseAfl(data).entries]
  BY <1>1 DEF Gpo
<1>3. /\ data # <<>> /\ Len(data) % 4 = 0 /\ Len(data) <= 252
      /\ ParseAfl(data).entries = Quads(data)
  BY <1>1 DEF ParseAfl, No
<1>4. FlattenSeq(Quads(data)) = data
  BY <1>3, QuadsJoined
<1>5. QED
  BY <1>1, <1>2, <1>3, <1>4, Measured

LEMMA GpoIn80 ==
  ASSUME NEW aip, NEW data, Over(aip, Byte), Over(data, Byte), Len(aip) = 2,
         Len(data) <= 252, data # <<>>
  PROVE  ParseGpo(Sent80(Cat(aip, data))) = Gpo(aip, data)
<1>1. PICK v : v = Cat(aip, data)
  OBVIOUS
<1>2. Over(v, Byte) /\ Len(v) = 2 + Len(data) /\ Len(data) \in Nat
  <2>1. /\ Over(Cat(aip, data), Byte) /\ Len(Cat(aip, data)) = Len(aip) + Len(data)
        /\ Len(aip) \in Nat /\ Len(data) \in Nat
    BY Joined
  <2>2. QED
    BY <1>1, <2>1
<1>3. Len(data) # 0
  BY Measured
<1>4. Upto(v, 2) = aip /\ After(v, 2) = data
  <2>1. Upto(Cat(aip, data), Len(aip)) = aip /\ After(Cat(aip, data), Len(aip)) = data
    BY JoinedCut
  <2>2. QED
    BY <1>1, <2>1
<1>5. Gpo80(v) = Gpo(aip, data)
  <2>1. ~ (Len(v) <= 2)
    BY <1>2, <1>3
  <2>2. SubSeq(v, 1, 2) = aip /\ SubSeq(v, 3, Len(v)) = data
    BY <1>4 DEF Upto, After
  <2>3. QED
    BY <2>1, <2>2 DEF Gpo80
<1>6. PICK p : p = ParseMany(Sent80(v))
  OBVIOUS
<1>7. p.ok /\ Len(p.items) = 1 /\ p.items[1].tag = <<128>> /\ p.items[1].value = v
  <2>1. Over(v, Byte) /\ Len(v) <= 255
    BY <1>2
  <2>2. QED
    BY <1>6, <2>1, Sent80Read
<1>8. Only(p, {<<119>>, <<128>>})
  BY <1>7 DEF Only
<1>9. GpoIn(p) = Gpo80(v)
  BY <1>7, <1>8, GpoCases
<1>10. QED
  BY <1>1, <1>5, <1>6, <1>9 DEF ParseGpo

LEMMA GpoIn77 ==
  ASSUME NEW aip, NEW data, Over(aip, Byte), Over(data, Byte), Len(aip) = 2, Len(data) <= 252
  PROVE  ParseGpo(Sent77(<<ValueOf(<<148>>, data), ValueOf(<<130>>, aip)>>)) = Gpo(aip, data)
<1>1. PICK s, t, a, b, values, one :
        /\ s = <<148>> /\ t = <<130>> /\ a = ValueOf(s, data) /\ b = ValueOf(t, aip)
        /\ values = <<a, b>> /\ one = <<b>>
  OBVIOUS
<1>2. s \in PrimitiveTags /\ t \in PrimitiveTags
  <2>1. 148 \in Byte /\ 130 \in Byte
    BY ByteNat
  <2>2. <<148>> \in PrimitiveTags
    BY <2>1, ShortTag
  <2>3. <<130>> \in PrimitiveTags
    BY <2>1, ShortTag
  <2>4. QED
    BY <1>1, <2>2, <2>3
<1>3. Len(s) = 1 /\ Len(t) = 1 /\ s # t
  <2>1. /\ Len(<<148>>) = 1 /\ <<148>>[1] = 148
        /\ Len(<<130>>) = 1 /\ <<130>>[1] = 130
    BY One
  <2>2. QED
    BY <1>1, <2>1
<1>4. a \in PrimitiveValues /\ b \in PrimitiveValues
  BY <1>1, <1>2, PrimitiveMade
<1>5. a.tag = s /\ a.value = data /\ b.tag = t /\ b.value = aip
  BY <1>1 DEF ValueOf
<1>6. /\ Over(values, PrimitiveValues) /\ Len(values) = 2 /\ values = Cat(<<a>>, one)
      /\ values[1] = a /\ values[2] = b
  BY <1>1, <1>4, Pair
<1>7. Over(one, PrimitiveValues) /\ one = Cat(<<b>>, <<>>) /\ Over(<<>>, PrimitiveValues)
  <2>1. Over(one, PrimitiveValues)
    BY <1>1, <1>4, One
  <2>2. Over(<<>>, PrimitiveValues) /\ Cat(one, <<>>) = one
    BY <2>1, JoinedEmpty
  <2>3. QED
    BY <1>1, <2>1, <2>2
<1>8. Len(data) \in Nat
  BY Measured
<1>9. Len(Encoded(values)) <= 260
  <2>1. Len(Encoded(<<>>)) = 0
    BY EncodedEmpty, EmptySeq
  <2>2. Len(Encoded(one)) <= 5 /\ Len(Encoded(one)) \in Nat
    <3>1. /\ Len(Encoded(Cat(<<b>>, <<>>))) <= Len(b.tag) + 2 + Len(b.value) + Len(Encoded(<<>>))
          /\ Len(Encoded(Cat(<<b>>, <<>>))) \in Nat /\ Len(Encoded(<<>>)) \in Nat
          /\ Len(b.tag) \in Nat /\ Len(b.value) \in Nat
      <4>1. b \in PrimitiveValues /\ Len(b.value) <= 255 /\ Over(<<>>, PrimitiveValues)
        <5>1. Len(b.value) = 2
          BY <1>5
        <5>2. Len(b.value) <= 255
          BY <5>1
        <5>3. QED
          BY <1>4, <1>7, <5>2
      <4>2. QED
        BY <4>1, EncodedFront
    <3>2. PICK k : k = Len(Encoded(Cat(<<b>>, <<>>)))
      OBVIOUS
    <3>3. Len(b.tag) = 1 /\ Len(b.value) = 2
      BY <1>3, <1>5
    <3>4. k \in Nat /\ k <= 1 + 2 + 2 + 0
      BY <2>1, <3>1, <3>2, <3>3
    <3>5. k \in Nat /\ k <= 5
      BY <3>4
    <3>6. QED
      BY <1>7, <3>2, <3>5
  <2>3. /\ Len(Encoded(Cat(<<a>>, one))) <= Len(a.tag) + 2 + Len(a.value) + Len(Encoded(one))
        /\ Len(Encoded(Cat(<<a>>, one))) \in Nat /\ Len(Encoded(one)) \in Nat
        /\ Len(a.tag) \in Nat /\ Len(a.value) \in Nat
    <3>1. a \in PrimitiveValues /\ Len(a.value) <= 255 /\ Over(one, PrimitiveValues)
      BY <1>4, <1>5, <1>7, <1>8
    <3>2. QED
      BY <3>1, EncodedFront
  <2>4. PICK k, m, n : /\ k = Len(Encoded(Cat(<<a>>, one))) /\ m = Len(Encoded(one))
                       /\ n = Len(data)
    OBVIOUS
  <2>5. Len(a.tag) = 1 /\ Len(a.value) = n /\ n \in Nat /\ n <= 252
    BY <1>3, <1>5, <1>8, <2>4
  <2>6. k \in Nat /\ m \in Nat /\ m <= 5 /\ k <= 1 + 2 + n + m
    BY <2>2, <2>3, <2>4, <2>5
  <2>7. k <= 260
    BY <2>5, <2>6
  <2>8. QED
    BY <1>6, <2>4, <2>7
<1>10. PICK made : made = ObjectsOf(values)
  OBVIOUS
<1>11. \A j \in 1..Len(values) : j \in {1, 2}
  BY <1>6
<1>12. \A j \in 1..Len(values) : (values[j].tag = s => j = 1) /\ (values[j].tag = t => j = 2)
  BY <1>3, <1>5, <1>6, <1>11
<1>13. 1 \in 1..Len(values) /\ 2 \in 1..Len(values)
  BY <1>6
<1>14. UniqueDirect(made, s) /\ DirectValue(made, s) = data
  BY <1>5, <1>6, <1>10, <1>12, <1>13, FoundAmong
<1>15. UniqueDirect(made, t) /\ DirectValue(made, t) = aip
  BY <1>5, <1>6, <1>10, <1>12, <1>13, FoundAmong
<1>16. Primitive(made)
  BY <1>6, <1>10, ObjectsOfPrimitive
<1>17. Gpo77(made) = Gpo(aip, data)
  BY <1>1, <1>14, <1>15, <1>16 DEF Gpo77, AllUnique
<1>18. PICK p : p = ParseMany(Sent77(values))
  OBVIOUS
<1>19. /\ p.ok /\ Len(p.items) = 1 /\ p.items[1].tag = <<119>>
       /\ p.items[1].children = made
  <2>1. Over(values, PrimitiveValues) /\ Len(values) <= 17 /\ Len(Encoded(values)) <= 260
    BY <1>6, <1>9
  <2>2. QED
    BY <1>10, <1>18, <2>1, Sent77Read
<1>20. Only(p, {<<119>>, <<128>>}) /\ <<119>> # <<128>>
  <2>1. <<119>>[1] = 119 /\ <<128>>[1] = 128
    BY One
  <2>2. QED
    BY <1>19, <2>1 DEF Only
<1>21. GpoIn(p) = Gpo77(made)
  BY <1>19, <1>20, GpoCases
<1>22. QED
  BY <1>1, <1>17, <1>18, <1>21 DEF ParseGpo

LEMMA GpoAgreesHolds ==
  ASSUME NEW b, Over(b, Byte)
  PROVE  GpoAgrees(ParseGpo(b))
<1>1. PICK gpo : gpo = ParseGpo(b)
  OBVIOUS
<1>2. SUFFICES ASSUME gpo.ok
               PROVE  /\ ParseGpo(Sent80(gpo.aip \o FlattenSeq(gpo.afl))) = gpo
                      /\ ParseGpo(Sent77(<<ValueOf(<<148>>, FlattenSeq(gpo.afl)),
                                           ValueOf(<<130>>, gpo.aip)>>)) = gpo
  BY <1>1 DEF GpoAgrees
<1>3. PICK aip, data : Over(aip, Byte) /\ Over(data, Byte) /\ gpo = Gpo(aip, data)
  BY <1>1, <1>2, GpoIsRead
<1>4. /\ Len(aip) = 2 /\ Len(data) \in Nat /\ Len(data) <= 252 /\ data # <<>>
      /\ gpo.aip = aip /\ FlattenSeq(gpo.afl) = data
  BY <1>2, <1>3, GpoParts
<1>5. ParseGpo(Sent80(Cat(aip, data))) = gpo
  BY <1>3, <1>4, GpoIn80
<1>6. ParseGpo(Sent77(<<ValueOf(<<148>>, data), ValueOf(<<130>>, aip)>>)) = gpo
  BY <1>3, <1>4, GpoIn77
<1>7. QED
  BY <1>4, <1>5, <1>6 DEF Cat

LEMMA FormatsAgreeHolds ==
  ASSUME ParsingInv
  PROVE  FormatsAgree
<1>1. Over(input, Byte)
  BY DEF ParsingInv, InputTyped
<1>2. QED
  BY <1>1, AcAgreesHolds, GpoAgreesHolds DEF FormatsAgree

-----------------------------------------------------------------------------
(* The elements in a set, and how many they are.                           *)
Where(S, P) == [x \in S |-> IF x \in P THEN <<x>> ELSE <<>>]

LengthIs(s, one) == (one => Len(s) = 1) /\ (~ one => Len(s) = 0)

LEMMA WhereAt ==
  ASSUME NEW S, NEW P, NEW x \in S
  PROVE  /\ Where(S, P)[x] = IF x \in P THEN <<x>> ELSE <<>>
         /\ Where(S, P)[x] \in Seq(S)
         /\ LengthIs(Where(S, P)[x], x \in P)
<1>1. Where(S, P)[x] = IF x \in P THEN <<x>> ELSE <<>>
  BY DEF Where
<1>2. CASE x \in P
  <2>1. Where(S, P)[x] = <<x>>
    BY <1>1, <1>2
  <2>2. <<x>> \in Seq(S) /\ Len(<<x>>) = 1
    BY Short1
  <2>3. QED
    BY <1>1, <1>2, <2>1, <2>2 DEF LengthIs
<1>3. CASE x \notin P
  <2>1. Where(S, P)[x] = <<>>
    BY <1>1, <1>3
  <2>2. <<>> \in Seq(S) /\ Len(<<>>) = 0
    BY EmptySeq
  <2>3. QED
    BY <1>1, <1>3, <2>1, <2>2 DEF LengthIs
<1>4. QED
  BY <1>2, <1>3

LEMMA WhereGives ==
  ASSUME NEW S, NEW P
  PROVE  Gives(Where(S, P), S, Seq(S))
<1>1. PICK F : F = Where(S, P)
  OBVIOUS
<1>2. F = [x \in S |-> F[x]]
  BY <1>1 DEF Where
<1>3. \A x \in S : F[x] \in Seq(S)
  BY <1>1, WhereAt
<1>4. QED
  BY <1>1, <1>2, <1>3 DEF Gives

LEMMA WithTagIs ==
  ASSUME NEW S, NEW tag
  PROVE  WithTag(S, tag) = Where(S, Tagged(S, tag))
BY DEF WithTag, Where, Tagged

LEMMA GivesMore ==
  ASSUME NEW S, NEW T, NEW U, T \subseteq U, NEW F, Gives(F, S, Seq(T))
  PROVE  Gives(F, S, Seq(U))
<1>1. ASSUME NEW x \in S PROVE F[x] \in Seq(U)
  <2>1. Over(F[x], T)
    BY DEF Gives, Over
  <2>2. Over(F[x], U)
    BY <2>1, OverMore
  <2>3. QED
    BY <2>2 DEF Over
<1>2. QED
  BY <1>1 DEF Gives

(* As long each, as long together.                                         *)
LEMMA LengthsSame ==
  ASSUME NEW S, NEW T, NEW F, NEW G, Gives(F, S, Seq(T)), Gives(G, S, Seq(T)),
         \A x \in S : Len(F[x]) = Len(G[x]), NEW s, Over(s, S)
  PROVE  Len(Collected(s, F)) = Len(Collected(s, G))
<1>1. PICK N : N = [x \in S |-> <<>>]
  OBVIOUS
<1>2. Gives(N, S, Seq(T)) /\ \A x \in S : Len(N[x]) = 0
  <2>1. <<>> \in Seq(T) /\ Len(<<>>) = 0
    BY EmptySeq
  <2>2. QED
    BY <1>1, <2>1 DEF Gives
<1>3. Adding(S, N, N, N)
  BY <1>2 DEF Adding
<1>4. ASSUME NEW x \in S PROVE Len(F[x]) = Len(G[x]) + Len(N[x])
  <2>1. PICK g : g = Len(G[x])
    OBVIOUS
  <2>2. g \in Nat
    <3>1. Over(G[x], T)
      BY DEF Gives, Over
    <3>2. Len(G[x]) \in Nat
      BY <3>1, Measured
    <3>3. QED
      BY <2>1, <3>2
  <2>3. Len(F[x]) = g /\ Len(N[x]) = 0
    BY <1>2, <2>1
  <2>4. QED
    BY <2>1, <2>2, <2>3
<1>5. Adding(S, F, G, N)
  BY <1>4 DEF Adding
<1>6. AddUp(s, N, N, N) /\ AddUp(s, F, G, N)
  BY <1>2, <1>3, <1>5, LengthsAddUp
<1>7. QED
  BY <1>6 DEF AddUp

(* The elements in two sets that have none in common.                      *)
LEMMA PartsAdd ==
  ASSUME NEW S, NEW P, NEW Q, P \cap Q = {}, NEW s, Over(s, S)
  PROVE  AddUp(s, Where(S, P \cup Q), Where(S, P), Where(S, Q))
<1>1. PICK F, A, B : F = Where(S, P \cup Q) /\ A = Where(S, P) /\ B = Where(S, Q)
  OBVIOUS
<1>2. Gives(F, S, Seq(S)) /\ Gives(A, S, Seq(S)) /\ Gives(B, S, Seq(S))
  BY <1>1, WhereGives
<1>3. ASSUME NEW x \in S PROVE Len(F[x]) = Len(A[x]) + Len(B[x])
  <2>1. PICK U : U = P \cup Q
    OBVIOUS
  <2>2. LengthIs(Where(S, U)[x], x \in U)
    BY WhereAt
  <2>3. LengthIs(Where(S, P)[x], x \in P)
    BY WhereAt
  <2>4. LengthIs(Where(S, Q)[x], x \in Q)
    BY WhereAt
  <2>5. PICK f, a, b : f = Len(F[x]) /\ a = Len(A[x]) /\ b = Len(B[x])
    OBVIOUS
  <2>6. /\ x \in U => f = 1
        /\ x \notin U => f = 0
        /\ x \in P => a = 1
        /\ x \notin P => a = 0
        /\ x \in Q => b = 1
        /\ x \notin Q => b = 0
    BY <1>1, <2>1, <2>2, <2>3, <2>4, <2>5 DEF LengthIs
  <2>7. f = a + b
    BY <2>1, <2>6
  <2>8. QED
    BY <2>5, <2>7
<1>4. Adding(S, F, A, B)
  BY <1>3 DEF Adding
<1>5. AddUp(s, F, A, B)
  BY <1>2, <1>4, LengthsAddUp
<1>6. QED
  BY <1>1, <1>5

(* All of the elements, and those of those.                                *)
LEMMA WhereAll ==
  ASSUME NEW S, NEW P, S \subseteq P, NEW s, Over(s, S)
  PROVE  Collected(s, Where(S, P)) = s
<1>1. \A x \in S : Where(S, P)[x] = Singles(S)[x]
  BY DEF Where, Singles
<1>2. QED
  BY <1>1, CollectedSame, SinglesAre

LEMMA WhereTwice ==
  ASSUME NEW S, NEW P, NEW T, NEW K, Gives(K, S, Seq(T)), NEW s, Over(s, S)
  PROVE  Collected(Collected(s, Where(S, P)), K) =
           Collected(s, [x \in S |-> IF x \in P THEN K[x] ELSE <<>>])
<1>1. PICK F, G : F = Where(S, P) /\ G = [x \in S |-> IF x \in P THEN K[x] ELSE <<>>]
  OBVIOUS
<1>2. Gives(F, S, Seq(S))
  BY <1>1, WhereGives
<1>3. Collected(Collected(s, F), K) = Collected(s, Then(S, F, K))
  BY <1>2, CollectedTwice
<1>4. ASSUME NEW x \in S PROVE Then(S, F, K)[x] = G[x]
  <2>1. Then(S, F, K)[x] = Collected(F[x], K)
    BY DEF Then
  <2>2. F[x] = IF x \in P THEN <<x>> ELSE <<>>
    BY <1>1, WhereAt
  <2>3. Collected(<<x>>, K) = K[x] /\ Collected(<<>>, K) = <<>>
    BY CollectedOne, CollectedEmpty
  <2>4. QED
    BY <1>1, <2>1, <2>2, <2>3
<1>5. Collected(s, Then(S, F, K)) = Collected(s, G)
  BY <1>4, CollectedSame
<1>6. QED
  BY <1>1, <1>3, <1>5

(* They are as many as the places where they are.                          *)
Places(s, P, n) == {i \in 1..n : s[i] \in P}

LEMMA CountIs ==
  ASSUME NEW S, NEW P, NEW s, Over(s, S)
  PROVE  Cardinality(Places(s, P, Len(s))) = Len(Collected(s, Where(S, P)))
<1>1. PICK k, F : k = Len(s) /\ F = Where(S, P)
  OBVIOUS
<1>2. k \in Nat /\ Gives(F, S, Seq(S))
  BY <1>1, Measured, WhereGives
<1> DEFINE Right(n) == /\ IsFiniteSet(Places(s, P, n))
                       /\ Cardinality(Places(s, P, n)) = Len(Collected(Upto(s, n), F))
           wrong == {n \in 0..k : ~ Right(n)}
<1>3. SUFFICES ASSUME wrong # {} PROVE FALSE
  <2>1. wrong = {} => Right(k)
    BY <1>2
  <2>2. Upto(s, k) = s
    <3>1. Over(<<>>, S) /\ Cat(s, <<>>) = s
      BY JoinedEmpty
    <3>2. Upto(Cat(s, <<>>), Len(s)) = s
      BY <3>1, JoinedCut
    <3>3. QED
      BY <1>1, <3>1, <3>2
  <2>3. QED
    BY <1>1, <2>1, <2>2
<1>4. PICK n \in wrong : \A m \in wrong : n <= m
  <2>1. wrong \subseteq Nat
    BY <1>2
  <2> HIDE DEF wrong
  <2>2. QED
    BY <1>3, <2>1, LeastNumber
<1>5. n \in 0..k /\ ~ Right(n)
  BY <1>4
<1>6. CASE n = 0
  <2>1. Places(s, P, 0) = {}
    BY DEF Places
  <2>2. Upto(s, 0) = <<>>
    <3>1. 0 \in Nat /\ 0 <= Len(s)
      BY <1>1, <1>2
    <3>2. Over(Upto(s, 0), S) /\ Len(Upto(s, 0)) = 0
      BY <3>1, CutJoined
    <3>3. QED
      BY <3>2, Measured
  <2>3. Len(Collected(<<>>, F)) = 0
    BY CollectedEmpty, EmptySeq
  <2>4. QED
    BY <1>5, <1>6, <2>1, <2>2, <2>3, FS_EmptySet
<1>7. CASE n # 0
  <2>1. PICK m : m = n - 1
    OBVIOUS
  <2>2. m \in 0..k /\ m + 1 = n /\ m \in Nat /\ ~ (n <= m) /\ m + 1 <= Len(s) /\ n \in 1..Len(s)
    BY <1>1, <1>2, <1>5, <1>7, <2>1
  <2>3. Right(m)
    <3>1. m \notin wrong
      <4> HIDE DEF wrong
      <4>1. QED
        BY <1>4, <2>2
    <3>2. QED
      BY <2>2, <3>1
  <2>4. PICK u, x, y : u = Upto(s, m) /\ x = s[n] /\ y = <<x>>
    OBVIOUS
  <2>5. x \in S /\ Over(y, S) /\ Over(u, S)
    <3>1. x \in S
      BY <2>2, <2>4, ElementOfSeq DEF Over
    <3>2. Over(y, S)
      BY <2>4, <3>1, One
    <3>3. m <= Len(s)
      BY <1>1, <1>2, <2>2
    <3>4. Over(Upto(s, m), S)
      BY <2>2, <3>3, CutJoined
    <3>5. QED
      BY <2>4, <3>1, <3>2, <3>4
  <2>6. Upto(s, n) = Cat(u, y)
    <3>1. Upto(s, m + 1) = Append(Upto(s, m), s[m + 1])
      BY <2>2, UptoNext
    <3>2. Append(u, x) = Cat(u, y)
      BY <2>4, <2>5, AppendIsConcat DEF Over, Cat
    <3>3. QED
      BY <2>2, <2>4, <3>1, <3>2
  <2>7. PICK p, q : p = Collected(u, F) /\ q = F[x]
    OBVIOUS
  <2>8. Collected(Cat(u, y), F) = Cat(p, q) /\ Over(p, S) /\ Over(q, S)
    <3>1. /\ Over(Collected(u, F), S) /\ Over(Collected(y, F), S)
          /\ Collected(Cat(u, y), F) = Cat(Collected(u, F), Collected(y, F))
      BY <1>2, <2>5, CollectedCat
    <3>2. Collected(y, F) = F[x]
      BY <1>2, <2>4, <2>5, CollectedOne
    <3>3. QED
      BY <2>7, <3>1, <3>2
  <2>9. Over(Cat(p, q), S) /\ Len(Cat(p, q)) = Len(p) + Len(q) /\ Len(p) \in Nat /\ Len(q) \in Nat
    BY <2>8, Joined
  <2>10. (x \in P => Len(q) = 1) /\ (x \notin P => Len(q) = 0)
    <3>1. LengthIs(Where(S, P)[x], x \in P)
      BY <2>5, WhereAt
    <3>2. QED
      BY <1>1, <2>7, <3>1 DEF LengthIs
  <2>11. /\ IsFiniteSet(Places(s, P, m)) /\ Cardinality(Places(s, P, m)) = Len(p)
    BY <2>3, <2>4, <2>7
  <2>12. n \notin Places(s, P, m)
    BY <2>2 DEF Places
  <2>13. Places(s, P, n) = IF x \in P THEN Places(s, P, m) \cup {n} ELSE Places(s, P, m)
    <3>1. \A i : i \in 1..n <=> i \in 1..m \/ i = n
      BY <2>2
    <3>2. QED
      BY <2>4, <3>1 DEF Places
  <2>14. /\ IsFiniteSet(Places(s, P, n))
         /\ Cardinality(Places(s, P, n)) = Len(p) + Len(q)
    <3>1. CASE x \in P
      <4>1. /\ IsFiniteSet(Places(s, P, m) \cup {n})
            /\ Cardinality(Places(s, P, m) \cup {n}) = Cardinality(Places(s, P, m)) + 1
        BY <2>11, <2>12, FS_AddElement
      <4>2. QED
        BY <2>10, <2>11, <2>13, <3>1, <4>1
    <3>2. CASE x \notin P
      BY <2>9, <2>10, <2>11, <2>13, <3>2
    <3>3. QED
      BY <3>1, <3>2
  <2>15. Right(n)
    BY <2>6, <2>8, <2>9, <2>14
  <2>16. QED
    BY <1>5, <2>15
<1>8. QED
  BY <1>6, <1>7

-----------------------------------------------------------------------------
(* The objects of a host response.                                         *)
ScriptsIn(S)     == {o \in S : o.tag \in ScriptTags}
HostItems(items) == Proper(items) /\ HostObjectsValid(items)

LEMMA TemplatesCollected ==
  ASSUME NEW S, NEW items, Over(items, S)
  PROVE  /\ Templates(items) = Collected(items, Where(S, ScriptsIn(S)))
         /\ Over(Templates(items), S)
<1>1. PICK F : F = Where(S, ScriptsIn(S))
  OBVIOUS
<1>2. ASSUME NEW i \in DOMAIN items
      PROVE  F[items[i]] = IF items[i].tag \in ScriptTags THEN <<items[i]>> ELSE <<>>
  <2>1. items[i] \in S
    BY RangeOf DEF Range
  <2>2. QED
    BY <1>1, <2>1 DEF Where, ScriptsIn
<1>3. [i \in DOMAIN items |-> F[items[i]]] =
        [i \in DOMAIN items |->
           IF items[i].tag \in ScriptTags THEN <<items[i]>> ELSE <<>>]
  BY <1>2
<1>4. Templates(items) = Collected(items, F)
  BY <1>3 DEF Templates, Collected, Mapped
<1>5. Gives(F, S, Seq(S))
  BY <1>1, WhereGives
<1>6. Over(Collected(items, F), S)
  BY <1>5, CollectedTyped
<1>7. QED
  BY <1>1, <1>4, <1>6

(* The tags a script template may have, and those of the response itself.  *)
LEMMA HostTagsPrimitive == {Arc, AuthCode, IssuerAuth, Identifier, Command} \subseteq PrimitiveTags
<1>1. \A x \in {138, 137, 145, 134} : <<x>> \in PrimitiveTags
  <2>1. ASSUME NEW x \in {138, 137, 145, 134} PROVE <<x>> \in PrimitiveTags
    <3>1. x \in Byte /\ x \notin {0, 255} /\ x % 32 # 31 /\ (x \div 32) % 2 # 1
      BY ByteNat
    <3>2. QED
      BY <3>1, ShortTag
  <2>2. QED
    BY <2>1
<1>2. <<159, 24>> \in PrimitiveTags
  <2>1. 159 \in Byte /\ 24 \in Byte /\ 159 % 32 = 31 /\ (159 \div 32) % 2 # 1
    BY ByteNat
  <2>2. QED
    BY <2>1, LongTag
<1>3. QED
  BY <1>1, <1>2 DEF Arc, AuthCode, IssuerAuth, Identifier, Command

LEMMA HostTagsDiffer ==
  /\ Command \notin HostTags /\ Identifier \notin HostTags /\ Command # Identifier
  /\ Arc # AuthCode /\ Arc # IssuerAuth /\ AuthCode # IssuerAuth
  /\ Arc \notin ScriptTags /\ AuthCode \notin ScriptTags /\ IssuerAuth \notin ScriptTags
  /\ HostTags = {Arc, AuthCode, IssuerAuth} \cup ScriptTags
<1>1. \A x \in Byte : Len(<<x>>) = 1 /\ <<x>>[1] = x
  BY Short1
<1>2. {138, 137, 145, 134, 113, 114} \subseteq Byte /\ 159 \in Byte /\ 24 \in Byte
  BY ByteNat
<1>3. Len(<<159, 24>>) = 2
  BY <1>2, Short2
<1>4. \A x \in {138, 137, 145, 134, 113, 114} : <<x>> # <<159, 24>>
  BY <1>1, <1>2, <1>3
<1>5. \A x, y \in {138, 137, 145, 134, 113, 114} : x # y => <<x>> # <<y>>
  BY <1>1, <1>2
<1>6. QED
  BY <1>4, <1>5 DEF Arc, AuthCode, IssuerAuth, Identifier, Command, HostTags, ScriptTags

LEMMA PlainObject ==
  ASSUME NEW o, ProperObject(o), o.tag \in PrimitiveTags
  PROVE  o.children = <<>> /\ o.inside = <<>>
<1>1. ~ o.constructed
  BY ProperParts DEF PrimitiveTags
<1>2. o.children = <<>>
  BY <1>1 DEF ProperObject
<1>3. QED
  BY <1>2, ProperParts, ListedEmpty

(* Objects with nothing inside are all there is.                           *)
LEMMA FlattenFlat ==
  ASSUME NEW a, Listed(a), \A o \in Range(a) : o.inside = <<>>
  PROVE  Flatten(a) = a
<1>1. PICK R : R = Range(a)
  OBVIOUS
<1>2. Over(a, R) /\ \A o \in R : ListedObject(o)
  BY <1>1, ListedIs
<1>3. Flatten(a) = Collected(a, WithInside(R))
  BY <1>2, FlattenCollected
<1>4. ASSUME NEW o \in R PROVE WithInside(R)[o] = Singles(R)[o]
  <2>1. WithInside(R)[o] = Cat(<<o>>, o.inside) /\ o.inside = <<>>
    BY <1>1, <1>2, WithInsideGives
  <2>2. Over(<<o>>, R)
    BY One
  <2>3. Cat(<<o>>, <<>>) = <<o>>
    BY <2>2, JoinedEmpty
  <2>4. QED
    BY <2>1, <2>3 DEF Singles
<1>5. Collected(a, WithInside(R)) = Collected(a, Singles(R))
  BY <1>2, <1>4, CollectedSame
<1>6. QED
  BY <1>2, <1>3, <1>5, SinglesAre

LEMMA ScriptFlat ==
  ASSUME NEW c, Proper(c), ScriptValid(c)
  PROVE  /\ Over(c, Range(c)) /\ Flatten(c) = c
         /\ \A x \in Range(c) : x.tag \in {Identifier, Command}
<1>1. Listed(c) /\ Over(c, Range(c)) /\ \A x \in Range(c) : ProperObject(x)
  BY ProperWritten, ListedIs
<1>2. \A x \in Range(c) : x.tag \in {Identifier, Command}
  BY DEF ScriptValid, Range
<1>3. \A x \in Range(c) : x.inside = <<>>
  BY <1>1, <1>2, HostTagsPrimitive, PlainObject
<1>4. QED
  BY <1>1, <1>2, <1>3, FlattenFlat

(* What is inside an object of the response are its children.              *)
LEMMA HostObject ==
  ASSUME NEW items, HostItems(items), NEW o \in Range(items)
  PROVE  /\ ProperObject(o) /\ Proper(o.children) /\ o.tag \in HostTags
         /\ o.inside = o.children
         /\ \A x \in Range(o.children) : x.tag \in {Identifier, Command}
         /\ o.tag \notin ScriptTags => o.children = <<>>
         /\ o.tag \in ScriptTags => ScriptValid(o.children)
<1>1. Proper(items) /\ HostObjectsValid(items)
  BY DEF HostItems
<1>2. ProperObject(o) /\ Proper(o.children)
  BY <1>1, ChildrenProper
<1>3. o.tag \in HostTags
  BY <1>1 DEF HostObjectsValid, Range
<1>4. CASE o.tag \notin ScriptTags
  <2>1. o.tag \in PrimitiveTags
    BY <1>3, <1>4, HostTagsDiffer, HostTagsPrimitive
  <2>2. o.children = <<>> /\ o.inside = <<>>
    BY <1>2, <2>1, PlainObject
  <2>3. Range(<<>>) = {}
    BY RangeEmpty
  <2>4. QED
    BY <1>2, <1>3, <1>4, <2>2, <2>3
<1>5. CASE o.tag \in ScriptTags
  <2>1. PICK S, F : S = Range(items) /\ F = Where(S, ScriptsIn(S))
    OBVIOUS
  <2>2. Over(items, S) /\ Gives(F, S, Seq(S))
    BY <1>1, <2>1, ProperWritten, ListedIs, WhereGives
  <2>3. Range(F[o]) \subseteq Range(Collected(items, F))
    BY <2>1, <2>2, GivenIsCollected
  <2>4. F[o] = <<o>>
    <3>1. o \in ScriptsIn(S)
      BY <1>5, <2>1 DEF ScriptsIn
    <3>2. QED
      BY <2>1, <3>1, WhereAt
  <2>5. o \in Range(Templates(items))
    <3>1. Range(<<o>>) = {o}
      BY One
    <3>2. Templates(items) = Collected(items, F)
      BY <2>1, <2>2, TemplatesCollected
    <3>3. QED
      BY <2>3, <2>4, <3>1, <3>2
  <2>6. ScriptValid(o.children)
    BY <1>1, <2>5 DEF HostObjectsValid
  <2>7. /\ Flatten(o.children) = o.children
        /\ \A x \in Range(o.children) : x.tag \in {Identifier, Command}
    BY <1>2, <2>6, ScriptFlat
  <2>8. o.inside = o.children
    BY <1>2, <2>7, ProperParts
  <2>9. QED
    BY <1>2, <1>3, <1>5, <2>6, <2>7, <2>8
<1>6. QED
  BY <1>4, <1>5

(* As many objects as there are with each of the tags.                     *)
HostCounts(items, c, i, t) ==
  /\ c = Len(Direct(items, AuthCode)) /\ i = Len(Direct(items, IssuerAuth))
  /\ t = Len(Templates(items))
  /\ c \in 0..1 /\ i \in 0..1 /\ t \in Nat /\ Len(items) = 1 + c + i + t
  /\ c = 0 <=> ~ Present(items, AuthCode)
  /\ i = 0 <=> ~ Present(items, IssuerAuth)

LEMMA DirectLength ==
  ASSUME NEW S, NEW items, Over(items, S), NEW tag
  PROVE  /\ Direct(items, tag) = Collected(items, Where(S, Tagged(S, tag)))
         /\ Len(Direct(items, tag)) \in Nat
         /\ Len(Direct(items, tag)) = 0 <=> ~ Present(items, tag)
<1>1. Direct(items, tag) = Collected(items, Where(S, Tagged(S, tag)))
  BY DirectCollected, WithTagIs
<1>2. Over(Direct(items, tag), Tagged(S, tag))
  BY DirectCollected
<1>3. /\ Len(Direct(items, tag)) \in Nat
      /\ Len(Direct(items, tag)) = 0 <=> Direct(items, tag) = <<>>
  BY <1>2, Measured
<1>4. QED
  BY <1>1, <1>3 DEF Present

LEMMA HostItemsCounted ==
  ASSUME NEW items, HostItems(items)
  PROVE  \E c, i, t : HostCounts(items, c, i, t)
<1>1. Proper(items) /\ HostObjectsValid(items)
  BY DEF HostItems
<1>2. PICK S : S = Range(items)
  OBVIOUS
<1>3. Over(items, S)
  BY <1>1, <1>2, ProperWritten, ListedIs
<1>4. PICK A, C, I, T : /\ A = Tagged(S, Arc) /\ C = Tagged(S, AuthCode)
                        /\ I = Tagged(S, IssuerAuth) /\ T = ScriptsIn(S)
  OBVIOUS
<1>5. A \cap (C \cup (I \cup T)) = {} /\ C \cap (I \cup T) = {} /\ I \cap T = {}
  BY <1>4, HostTagsDiffer DEF Tagged, ScriptsIn
<1>6. S \subseteq A \cup (C \cup (I \cup T))
  <2>1. \A o \in S : o.tag \in HostTags
    BY <1>1, <1>2 DEF HostObjectsValid, Range
  <2>2. QED
    BY <1>4, <2>1, HostTagsDiffer DEF Tagged, ScriptsIn
<1>7. PICK a, c, i, t : /\ a = Len(Collected(items, Where(S, A)))
                        /\ c = Len(Collected(items, Where(S, C)))
                        /\ i = Len(Collected(items, Where(S, I)))
                        /\ t = Len(Collected(items, Where(S, T)))
  OBVIOUS
<1>8. PICK x, y, z : /\ x = Len(Collected(items, Where(S, A \cup (C \cup (I \cup T)))))
                     /\ y = Len(Collected(items, Where(S, C \cup (I \cup T))))
                     /\ z = Len(Collected(items, Where(S, I \cup T)))
  OBVIOUS
<1>9. x = a + y /\ a \in Nat /\ y \in Nat
  <2>1. AddUp(items, Where(S, A \cup (C \cup (I \cup T))), Where(S, A),
              Where(S, C \cup (I \cup T)))
    BY <1>3, <1>5, PartsAdd
  <2>2. QED
    BY <1>7, <1>8, <2>1 DEF AddUp
<1>10. y = c + z /\ c \in Nat /\ z \in Nat
  <2>1. AddUp(items, Where(S, C \cup (I \cup T)), Where(S, C), Where(S, I \cup T))
    BY <1>3, <1>5, PartsAdd
  <2>2. QED
    BY <1>7, <1>8, <2>1 DEF AddUp
<1>11. z = i + t /\ i \in Nat /\ t \in Nat
  <2>1. AddUp(items, Where(S, I \cup T), Where(S, I), Where(S, T))
    BY <1>3, <1>5, PartsAdd
  <2>2. QED
    BY <1>7, <1>8, <2>1 DEF AddUp
<1>12. x = Len(items)
  <2>1. Collected(items, Where(S, A \cup (C \cup (I \cup T)))) = items
    BY <1>3, <1>6, WhereAll
  <2>2. QED
    BY <1>8, <2>1
<1>13. /\ a = Len(Direct(items, Arc)) /\ c = Len(Direct(items, AuthCode))
       /\ i = Len(Direct(items, IssuerAuth)) /\ t = Len(Templates(items))
  <2>1. \A tag : Direct(items, tag) = Collected(items, Where(S, Tagged(S, tag)))
    BY <1>3, DirectLength
  <2>2. Templates(items) = Collected(items, Where(S, ScriptsIn(S)))
    BY <1>3, TemplatesCollected
  <2>3. QED
    BY <1>4, <1>7, <2>1, <2>2
<1>14. a <= 1 /\ c <= 1 /\ i <= 1
  BY <1>1, <1>13 DEF HostObjectsValid, AllUnique, UniqueDirect
<1>15. a # 0
  <2>1. ASSUME ~ Present(items, Arc) PROVE FALSE
    <3>1. DirectValue(items, Arc) = <<>> /\ Len(DirectValue(items, Arc)) = 2
      BY <1>1, <2>1 DEF DirectValue, HostObjectsValid, TextOf
    <3>2. Len(<<>>) = 0
      BY EmptySeq
    <3>3. QED
      BY <3>1, <3>2
  <2>2. Len(Direct(items, Arc)) = 0 <=> ~ Present(items, Arc)
    BY <1>3, DirectLength
  <2>3. QED
    BY <1>13, <2>1, <2>2
<1>16. Len(items) = 1 + c + i + t
  BY <1>9, <1>10, <1>11, <1>12, <1>14, <1>15
<1>17. /\ c = 0 <=> ~ Present(items, AuthCode)
       /\ i = 0 <=> ~ Present(items, IssuerAuth)
  <2>1. Len(Direct(items, AuthCode)) = 0 <=> ~ Present(items, AuthCode)
    BY <1>3, DirectLength
  <2>2. Len(Direct(items, IssuerAuth)) = 0 <=> ~ Present(items, IssuerAuth)
    BY <1>3, DirectLength
  <2>3. QED
    BY <1>13, <2>1, <2>2
<1>18. c \in 0..1 /\ i \in 0..1
  BY <1>10, <1>11, <1>14
<1>19. HostCounts(items, c, i, t)
  BY <1>11, <1>13, <1>16, <1>17, <1>18 DEF HostCounts
<1>20. QED
  BY <1>19

(* Which of two are there.                                                 *)
LEMMA OfTwo ==
  ASSUME NEW x, NEW y, x # y, NEW P, NEW m, NEW n,
         m = IF x \in P THEN 1 ELSE 0, n = IF y \in P THEN 1 ELSE 0
  PROVE  Cardinality({z \in {x, y} : z \in P}) = m + n
<1>1. PICK W : W = {z \in {x, y} : z \in P}
  OBVIOUS
<1>2. CASE x \in P /\ y \in P
  <2>1. IsFiniteSet({x}) /\ Cardinality({x}) = 1
    BY FS_Singleton
  <2>2. Cardinality({x} \cup {y}) = 1 + 1
    BY <2>1, FS_AddElement
  <2>3. W = {x} \cup {y}
    BY <1>1, <1>2
  <2>4. QED
    BY <1>1, <1>2, <2>2, <2>3
<1>3. CASE x \in P /\ y \notin P
  <2>1. W = {x}
    BY <1>1, <1>3
  <2>2. Cardinality({x}) = 1
    BY FS_Singleton
  <2>3. QED
    BY <1>1, <1>3, <2>1, <2>2
<1>4. CASE x \notin P /\ y \in P
  <2>1. W = {y}
    BY <1>1, <1>4
  <2>2. Cardinality({y}) = 1
    BY FS_Singleton
  <2>3. QED
    BY <1>1, <1>4, <2>1, <2>2
<1>5. CASE x \notin P /\ y \notin P
  <2>1. W = {}
    BY <1>1, <1>5
  <2>2. Cardinality({}) = 0
    BY FS_EmptySet
  <2>3. QED
    BY <1>1, <1>5, <2>1, <2>2
<1>6. QED
  BY <1>2, <1>3, <1>4, <1>5

(* None of the objects of a response is passed over.                       *)
LEMMA ScriptsCounted ==
  ASSUME NEW items, NEW S, Over(items, S)
  PROVE  /\ CollectScripts(items) = Mapped(Templates(items), [o \in S |-> Script(o)])
         /\ DOMAIN CollectScripts(items) = 1..Len(Templates(items))
         /\ Len(CollectScripts(items)) = Len(Templates(items))
         /\ \A i \in 1..Len(Templates(items)) :
              Templates(items)[i] \in S /\ CollectScripts(items)[i] = Script(Templates(items)[i])
<1>1. PICK s, F, T : /\ s = Templates(items) /\ F = [o \in S |-> Script(o)]
                     /\ T = {Script(o) : o \in S}
  OBVIOUS
<1>2. Over(s, S) /\ Gives(F, S, T)
  BY <1>1, TemplatesCollected DEF Gives
<1>3. /\ Over(Mapped(s, F), T) /\ Len(Mapped(s, F)) = Len(s) /\ Len(s) \in Nat
      /\ DOMAIN s = 1..Len(s) /\ \A i \in 1..Len(s) : s[i] \in S
      /\ \A i \in 1..Len(s) : Mapped(s, F)[i] = F[s[i]]
  BY <1>2, MappedTyped
<1>4. [i \in DOMAIN s |-> F[s[i]]] = [i \in DOMAIN s |-> Script(s[i])]
  BY <1>1, <1>3
<1>5. CollectScripts(items) = Mapped(s, F)
  BY <1>1, <1>4 DEF CollectScripts, Mapped
<1>6. \A i \in 1..Len(s) : F[s[i]] = Script(s[i])
  BY <1>1, <1>3
<1>7. DOMAIN Mapped(s, F) = 1..Len(s)
  BY <1>3 DEF Mapped
<1>8. QED
  BY <1>1, <1>3, <1>5, <1>6, <1>7

LEMMA NoneIgnored ==
  ASSUME NEW items, HostItems(items), NEW response,
         response = HostResponse(items, CollectScripts(items)), response.ok
  PROVE  Len(items) = 1 + Cardinality({x \in {"code", "auth"} : response[x] # <<>>})
                        + Len(response.scripts)
<1>1. PICK c, i, t : HostCounts(items, c, i, t)
  BY HostItemsCounted
<1>2. /\ c \in 0..1 /\ i \in 0..1 /\ t \in Nat /\ Len(items) = 1 + c + i + t
      /\ t = Len(Templates(items))
      /\ c = 0 <=> ~ Present(items, AuthCode)
      /\ i = 0 <=> ~ Present(items, IssuerAuth)
  BY <1>1 DEF HostCounts
<1>3. /\ response.code = DirectValue(items, AuthCode)
      /\ response.auth = DirectValue(items, IssuerAuth)
      /\ response.scripts = CollectScripts(items)
      /\ response["code"] = response.code /\ response["auth"] = response.auth
  BY DEF HostResponse, No
<1>4. Len(<<>>) = 0
  BY EmptySeq
<1>5. response["code"] # <<>> <=> Present(items, AuthCode)
  <2>1. Present(items, AuthCode) => Len(DirectValue(items, AuthCode)) = 6
    BY DEF HostItems, HostObjectsValid, TextOf
  <2>2. ~ Present(items, AuthCode) => DirectValue(items, AuthCode) = <<>>
    BY DEF DirectValue
  <2>3. PICK v : v = DirectValue(items, AuthCode)
    OBVIOUS
  <2>4. Len(<<>>) # 6
    BY <1>4
  <2>5. v = <<>> <=> ~ Present(items, AuthCode)
    BY <2>1, <2>2, <2>3, <2>4
  <2>6. QED
    BY <1>3, <2>3, <2>5
<1>6. response["auth"] # <<>> <=> Present(items, IssuerAuth)
  <2>1. Present(items, IssuerAuth) => Len(DirectValue(items, IssuerAuth)) \in 8..16
    BY DEF HostItems, HostObjectsValid
  <2>2. ~ Present(items, IssuerAuth) => DirectValue(items, IssuerAuth) = <<>>
    BY DEF DirectValue
  <2>3. PICK v : v = DirectValue(items, IssuerAuth)
    OBVIOUS
  <2>4. Len(<<>>) \notin 8..16
    BY <1>4
  <2>5. v = <<>> <=> ~ Present(items, IssuerAuth)
    BY <2>1, <2>2, <2>3, <2>4
  <2>6. QED
    BY <1>3, <2>3, <2>5
<1>7. PICK P : P = {x \in {"code", "auth"} : response[x] # <<>>}
  OBVIOUS
<1>8. c = (IF "code" \in P THEN 1 ELSE 0) /\ i = (IF "auth" \in P THEN 1 ELSE 0)
  BY <1>2, <1>5, <1>6, <1>7
<1>9. Cardinality({z \in {"code", "auth"} : z \in P}) = c + i
  BY <1>8, OfTwo
<1>10. {z \in {"code", "auth"} : z \in P} = P
  BY <1>7
<1>11. Len(response.scripts) = t
  <2>1. Over(items, Range(items))
    BY ProperWritten, ListedIs DEF HostItems
  <2>2. Len(CollectScripts(items)) = Len(Templates(items))
    BY <2>1, ScriptsCounted
  <2>3. QED
    BY <1>2, <1>3, <2>2
<1>12. Cardinality(P) = c + i
  BY <1>9, <1>10
<1>13. Len(items) = 1 + Cardinality(P) + Len(response.scripts)
  BY <1>2, <1>11, <1>12
<1>14. QED
  BY <1>7, <1>13

(* The values of objects, one after the other.                             *)
ValuesIn(U)        == [o \in U |-> o.value]
ValueEach(U)       == [o \in U |-> <<o.value>>]
ValuesOf(s)        == [i \in DOMAIN s |-> s[i].value]
ChildrenWith(S, tag) == [o \in S |-> Direct(o.children, tag)]
CommandsOf(S)      == [o \in S |-> ValuesOf(Direct(o.children, Command))]

LEMMA MappedSingles ==
  ASSUME NEW S, NEW T, NEW F, NEW G, Gives(F, S, T), Gives(G, S, Seq(T)),
         \A x \in S : G[x] = <<F[x]>>, NEW s, Over(s, S)
  PROVE  Mapped(s, F) = Collected(s, G)
<1> DEFINE P == {t \in Seq(S) : Mapped(t, F) = Collected(t, G)}
<1>1. <<>> \in P
  <2>1. Mapped(<<>>, F) = <<>>
    BY DEF Mapped
  <2>2. QED
    BY <2>1, CollectedEmpty, EmptySeq
<1>2. ASSUME NEW x \in S, NEW t \in P, Over(t, S) PROVE Cat(<<x>>, t) \in P
  <2>1. PICK w : w = <<x>>
    OBVIOUS
  <2>2. Over(w, S)
    BY <2>1, One
  <2>3. Mapped(Cat(w, t), F) = Cat(Mapped(w, F), Mapped(t, F))
    BY <1>2, <2>2, MappedCat
  <2>4. Mapped(w, F) = <<F[x]>>
    BY <2>1, MappedOne
  <2>5. Collected(Cat(w, t), G) = Cat(G[x], Collected(t, G))
    BY <1>2, <2>1, CollectedCons
  <2>6. Mapped(t, F) = Collected(t, G) /\ G[x] = <<F[x]>>
    OBVIOUS
  <2>7. Over(Cat(w, t), S)
    BY <1>2, <2>2, Joined
  <2>8. Mapped(Cat(w, t), F) = Collected(Cat(w, t), G)
    BY <2>3, <2>4, <2>5, <2>6
  <2>9. QED
    BY <2>1, <2>7, <2>8 DEF Over
<1>3. s \in P
  <2> HIDE DEF P
  <2>1. QED
    BY <1>1, <1>2, EverySequence
<1>4. QED
  BY <1>3

LEMMA ValuesCollected ==
  ASSUME NEW U, \A o \in U : o.value \in Seq(Byte), NEW s, Over(s, U)
  PROVE  /\ ValuesOf(s) = Collected(s, ValueEach(U))
         /\ Gives(ValueEach(U), U, Seq(Seq(Byte)))
<1>1. PICK F, G : F = ValuesIn(U) /\ G = ValueEach(U)
  OBVIOUS
<1>2. PICK W : W = Seq(Byte)
  OBVIOUS
<1>3. Gives(F, U, W)
  BY <1>1, <1>2 DEF ValuesIn, Gives
<1>4. Gives(G, U, Seq(W))
  <2>1. ASSUME NEW o \in U PROVE <<o.value>> \in Seq(W)
    <3>1. PICK v : v = o.value
      OBVIOUS
    <3>2. v \in W
      BY <1>2, <3>1
    <3>3. <<v>> \in Seq(W)
      BY <3>2, Short1
    <3>4. QED
      BY <3>1, <3>3
  <2>2. QED
    BY <1>1, <2>1 DEF ValueEach, Gives
<1>5. \A o \in U : G[o] = <<F[o]>>
  BY <1>1 DEF ValuesIn, ValueEach
<1>6. Mapped(s, F) = Collected(s, G)
  BY <1>3, <1>4, <1>5, MappedSingles
<1>7. ASSUME NEW i \in DOMAIN s PROVE F[s[i]] = s[i].value
  <2>1. s[i] \in U
    BY RangeOf DEF Range
  <2>2. QED
    BY <1>1, <2>1 DEF ValuesIn
<1>8. [i \in DOMAIN s |-> F[s[i]]] = [i \in DOMAIN s |-> s[i].value]
  BY <1>7
<1>9. ValuesOf(s) = Mapped(s, F)
  BY <1>8 DEF Mapped, ValuesOf
<1>10. QED
  BY <1>1, <1>2, <1>4, <1>6, <1>9

(* What is around the objects of a response.                               *)
HostAround(items, S, U) ==
  /\ S = Range(items) /\ U = Around(S) /\ S \subseteq U /\ Over(items, S)
  /\ \A o \in S : ListedObject(o)
  /\ \A o \in S : Over(o.children, U) /\ o.inside = o.children
  /\ \A o \in S : o.tag \notin ScriptTags => o.children = <<>>
  /\ \A o \in S : o.tag \notin {Identifier, Command}
  /\ \A o \in U : o.value \in Seq(Byte)

LEMMA HostPlaced ==
  ASSUME NEW items, HostItems(items)
  PROVE  HostAround(items, Range(items), Around(Range(items)))
<1>1. PICK S, U : S = Range(items) /\ U = Around(S)
  OBVIOUS
<1>2. Proper(items) /\ Over(items, S) /\ \A o \in S : ListedObject(o)
  BY <1>1, ProperWritten, ListedIs DEF HostItems
<1>3. S \subseteq U /\ \A o \in S : Range(o.inside) \subseteq U
  BY <1>1 DEF Around
<1>4. ASSUME NEW o \in S
      PROVE  /\ Over(o.children, U) /\ o.inside = o.children
             /\ o.tag \notin ScriptTags => o.children = <<>>
             /\ o.tag \notin {Identifier, Command}
             /\ \A x \in Range(o.children) : x.value \in Seq(Byte)
             /\ o.value \in Seq(Byte)
  <2>1. /\ ProperObject(o) /\ Proper(o.children) /\ o.tag \in HostTags
        /\ o.inside = o.children
        /\ o.tag \notin ScriptTags => o.children = <<>>
    BY <1>1, HostObject
  <2>2. Over(o.children, Range(o.children)) /\ \A x \in Range(o.children) : ProperObject(x)
    BY <2>1, ProperWritten, ListedIs
  <2>3. Range(o.children) \subseteq U
    BY <1>3, <2>1
  <2>4. Over(o.children, U)
    BY <2>2, <2>3, OverMore
  <2>5. o.tag \notin {Identifier, Command}
    BY <2>1, HostTagsDiffer
  <2>6. o.value \in Seq(Byte) /\ \A x \in Range(o.children) : x.value \in Seq(Byte)
    BY <2>1, <2>2 DEF ProperObject
  <2>7. QED
    BY <2>1, <2>4, <2>5, <2>6
<1>5. ASSUME NEW o \in U PROVE o.value \in Seq(Byte)
  <2>1. o \in S \/ \E x \in S : o \in Range(x.inside)
    BY <1>1 DEF Around
  <2>2. CASE o \in S
    BY <1>4, <2>2
  <2>3. CASE \E x \in S : o \in Range(x.inside)
    <3>1. PICK x \in S : o \in Range(x.inside)
      BY <2>3
    <3>2. x.inside = x.children /\ \A y \in Range(x.children) : y.value \in Seq(Byte)
      BY <1>4
    <3>3. QED
      BY <3>1, <3>2
  <2>4. QED
    BY <2>1, <2>2, <2>3
<1>6. HostAround(items, S, U)
  BY <1>1, <1>2, <1>3, <1>4, <1>5 DEF HostAround
<1>7. QED
  BY <1>1, <1>6

LEMMA ChildrenWithGives ==
  ASSUME NEW items, NEW S, NEW U, HostAround(items, S, U), NEW tag
  PROVE  /\ Gives(ChildrenWith(S, tag), S, Seq(U))
         /\ \A o \in S : o.tag \notin ScriptTags => ChildrenWith(S, tag)[o] = <<>>
         /\ \A o \in S : ChildrenWith(S, tag)[o] = Direct(o.children, tag)
<1>1. ASSUME NEW o \in S
      PROVE  /\ Direct(o.children, tag) \in Seq(U)
             /\ o.tag \notin ScriptTags => Direct(o.children, tag) = <<>>
  <2>1. Over(o.children, U) /\ (o.tag \notin ScriptTags => o.children = <<>>)
    BY DEF HostAround
  <2>2. Over(Direct(o.children, tag), Tagged(U, tag))
    BY <2>1, DirectCollected
  <2>3. Tagged(U, tag) \subseteq U
    BY DEF Tagged
  <2>4. Over(Direct(o.children, tag), U)
    BY <2>2, <2>3, OverMore
  <2>5. Direct(<<>>, tag) = <<>>
    <3>1. Over(<<>>, {}) /\ Range(<<>>) = {}
      BY JoinedEmpty, RangeEmpty
    <3>2. QED
      BY <3>1, DirectNone
  <2>6. QED
    BY <2>1, <2>4, <2>5 DEF Over
<1>2. \A o \in S : ChildrenWith(S, tag)[o] = Direct(o.children, tag)
  BY DEF ChildrenWith
<1>3. Gives(ChildrenWith(S, tag), S, Seq(U))
  BY <1>1 DEF ChildrenWith, Gives
<1>4. QED
  BY <1>1, <1>2, <1>3

(* Those with one of the tags are all inside the script templates.         *)
LEMMA DirectAreChildren ==
  ASSUME NEW items, NEW S, NEW U, HostAround(items, S, U), NEW tag \in {Identifier, Command}
  PROVE  /\ Over(Flatten(items), U)
         /\ Direct(Flatten(items), tag) = Collected(items, ChildrenWith(S, tag))
         /\ Collected(Templates(items), ChildrenWith(S, tag)) =
              Collected(items, ChildrenWith(S, tag))
<1>1. PICK I, W, K : /\ I = WithInside(S) /\ W = WithTag(U, tag) /\ K = ChildrenWith(S, tag)
  OBVIOUS
<1>2. Over(items, S) /\ U = Around(S) /\ \A o \in S : ListedObject(o)
  BY DEF HostAround
<1>3. /\ Gives(I, S, Seq(U))
      /\ \A o \in S : /\ I[o] = Cat(<<o>>, o.inside)
                      /\ Over(<<o>>, U) /\ Over(o.inside, U)
  BY <1>1, <1>2, WithInsideGives
<1>4. Gives(W, U, Seq(U))
  <2>1. Gives(W, U, Seq(Tagged(U, tag))) /\ Tagged(U, tag) \subseteq U
    BY <1>1, WithTagGives DEF Tagged
  <2>2. QED
    BY <2>1, GivesMore
<1>5. /\ Gives(K, S, Seq(U))
      /\ \A o \in S : o.tag \notin ScriptTags => K[o] = <<>>
      /\ \A o \in S : K[o] = Direct(o.children, tag)
  BY <1>1, ChildrenWithGives
<1>6. Over(Collected(items, I), U) /\ Flatten(items) = Collected(items, I)
  BY <1>1, <1>2, <1>3, FlattenCollected, CollectedTyped
<1>7. Direct(Flatten(items), tag) = Collected(Collected(items, I), W)
  BY <1>1, <1>6, DirectCollected
<1>8. Collected(Collected(items, I), W) = Collected(items, Then(S, I, W))
  BY <1>2, <1>3, <1>4, CollectedTwice
<1>9. ASSUME NEW o \in S PROVE Then(S, I, W)[o] = K[o]
  <2>1. Then(S, I, W)[o] = Collected(I[o], W)
    BY DEF Then
  <2>2. PICK w, c : w = <<o>> /\ c = o.inside
    OBVIOUS
  <2>3. Over(w, U) /\ Over(c, U) /\ I[o] = Cat(w, c)
    BY <1>3, <2>2
  <2>4. Collected(Cat(w, c), W) = Cat(Collected(w, W), Collected(c, W))
    BY <1>4, <2>3, CollectedCat
  <2>5. Collected(w, W) = <<>>
    <3>1. o \in U /\ o.tag # tag
      BY DEF HostAround
    <3>2. Collected(w, W) = W[o]
      BY <1>4, <2>2, <3>1, CollectedOne
    <3>3. W[o] = <<>>
      BY <1>1, <3>1 DEF WithTag
    <3>4. QED
      BY <3>2, <3>3
  <2>6. Collected(c, W) = K[o]
    <3>1. c = o.children
      BY <2>2 DEF HostAround
    <3>2. Direct(c, tag) = Collected(c, W)
      BY <1>1, <2>3, DirectCollected
    <3>3. QED
      BY <1>5, <3>1, <3>2
  <2>7. Cat(<<>>, K[o]) = K[o]
    <3>1. Over(K[o], U)
      BY <1>5 DEF Gives, Over
    <3>2. QED
      BY <3>1, JoinedEmpty
  <2>8. QED
    BY <2>1, <2>3, <2>4, <2>5, <2>6, <2>7
<1>10. Collected(items, Then(S, I, W)) = Collected(items, K)
  BY <1>2, <1>9, CollectedSame
<1>11. Collected(Templates(items), K) = Collected(items, K)
  <2>1. PICK N : N = [o \in S |-> IF o \in ScriptsIn(S) THEN K[o] ELSE <<>>]
    OBVIOUS
  <2>2. Collected(Collected(items, Where(S, ScriptsIn(S))), K) = Collected(items, N)
    BY <1>2, <1>5, <2>1, WhereTwice
  <2>3. Templates(items) = Collected(items, Where(S, ScriptsIn(S)))
    BY <1>2, TemplatesCollected
  <2>4. \A o \in S : N[o] = K[o]
    BY <1>5, <2>1 DEF ScriptsIn
  <2>5. Collected(items, N) = Collected(items, K)
    BY <1>2, <2>4, CollectedSame
  <2>6. QED
    BY <2>2, <2>3, <2>5
<1>12. QED
  BY <1>1, <1>6, <1>7, <1>8, <1>10, <1>11

(* The commands are those of the response, in its order.                   *)
LEMMA CommandsKept ==
  ASSUME NEW items, NEW S, NEW U, HostAround(items, S, U)
  PROVE  Commands(CollectScripts(items)) = ValuesOf(Direct(Flatten(items), Command))
<1>1. PICK s, K, V, C : /\ s = Templates(items) /\ K = ChildrenWith(S, Command)
                        /\ V = ValueEach(U) /\ C = CommandsOf(S)
  OBVIOUS
<1>2. Over(items, S) /\ \A o \in U : o.value \in Seq(Byte)
  BY DEF HostAround
<1>3. Over(s, S)
  BY <1>1, <1>2, TemplatesCollected
<1>4. Gives(K, S, Seq(U)) /\ \A o \in S : K[o] = Direct(o.children, Command)
  BY <1>1, ChildrenWithGives
<1>5. Gives(V, U, Seq(Seq(Byte))) /\ \A d : Over(d, U) => ValuesOf(d) = Collected(d, V)
  <2>1. Over(<<>>, U)
    BY JoinedEmpty
  <2>2. QED
    BY <1>1, <1>2, <2>1, ValuesCollected
<1>6. ASSUME NEW o \in S PROVE Then(S, K, V)[o] = C[o]
  <2>1. Over(K[o], U)
    BY <1>4 DEF Gives, Over
  <2>2. Then(S, K, V)[o] = Collected(K[o], V)
    BY DEF Then
  <2>3. C[o] = ValuesOf(K[o])
    BY <1>1, <1>4 DEF CommandsOf
  <2>4. QED
    BY <1>5, <2>1, <2>2, <2>3
<1>7. Commands(CollectScripts(items)) = Collected(s, C)
  <2>1. PICK r : r = CollectScripts(items)
    OBVIOUS
  <2>2. /\ DOMAIN r = 1..Len(s) /\ \A i \in 1..Len(s) : s[i] \in S /\ r[i] = Script(s[i])
    BY <1>1, <1>2, <2>1, ScriptsCounted
  <2>3. DOMAIN s = 1..Len(s)
    BY <1>3, RangeOf
  <2>4. ASSUME NEW i \in DOMAIN s PROVE r[i].commands = C[s[i]]
    <3>1. s[i] \in S /\ r[i] = Script(s[i])
      BY <2>2, <2>3
    <3>2. Script(s[i]).commands = ValuesOf(Direct(s[i].children, Command))
      BY DEF Script, ValuesOf
    <3>3. C[s[i]] = ValuesOf(Direct(s[i].children, Command))
      BY <1>1, <3>1 DEF CommandsOf
    <3>4. QED
      BY <3>1, <3>2, <3>3
  <2>5. [i \in DOMAIN r |-> r[i].commands] = [i \in DOMAIN s |-> C[s[i]]]
    BY <2>2, <2>3, <2>4
  <2>6. QED
    BY <2>1, <2>5 DEF Commands, Collected, Mapped
<1>8. Collected(s, Then(S, K, V)) = Collected(s, C)
  BY <1>3, <1>6, CollectedSame
<1>9. Collected(Collected(s, K), V) = Collected(s, Then(S, K, V))
  BY <1>3, <1>4, <1>5, CollectedTwice
<1>10. Collected(s, K) = Direct(Flatten(items), Command)
  BY <1>1, DirectAreChildren
<1>11. Over(Collected(s, K), U)
  BY <1>3, <1>4, CollectedTyped
<1>12. ValuesOf(Collected(s, K)) = Collected(Collected(s, K), V)
  BY <1>5, <1>11
<1>13. QED
  BY <1>7, <1>8, <1>9, <1>10, <1>12

(* A script template holds commands and identifiers.                       *)
LEMMA ScriptParts ==
  ASSUME NEW U, NEW c, Over(c, U), \A x \in Range(c) : x.tag \in {Identifier, Command}
  PROVE  Len(c) = Len(Direct(c, Command)) + Len(Direct(c, Identifier))
<1>1. PICK R, P, Q : R = Range(c) /\ P = Tagged(R, Command) /\ Q = Tagged(R, Identifier)
  OBVIOUS
<1>2. Over(c, R)
  BY <1>1, RangeOf
<1>3. P \cap Q = {} /\ R \subseteq P \cup Q
  BY <1>1, HostTagsDiffer DEF Tagged
<1>4. AddUp(c, Where(R, P \cup Q), Where(R, P), Where(R, Q))
  BY <1>2, <1>3, PartsAdd
<1>5. Collected(c, Where(R, P \cup Q)) = c
  BY <1>2, <1>3, WhereAll
<1>6. /\ Direct(c, Command) = Collected(c, Where(R, P))
      /\ Direct(c, Identifier) = Collected(c, Where(R, Q))
  BY <1>1, <1>2, DirectLength
<1>7. QED
  BY <1>4, <1>5, <1>6 DEF AddUp

(* All there is in a response are its objects, the commands in its scripts *)
(* and their identifiers.                                                  *)
InsideOf(S) == [o \in S |-> o.inside]

LEMMA AllCounted ==
  ASSUME NEW items, HostItems(items), NEW S, NEW U, HostAround(items, S, U)
  PROVE  \E n : /\ n = Len(Collected(Templates(items), ChildrenWith(S, Identifier)))
                /\ Len(Flatten(items)) =
                     Len(items) + Len(Direct(Flatten(items), Command)) + n
<1>1. PICK I, O, N, K, D : /\ I = WithInside(S) /\ O = Singles(S) /\ N = InsideOf(S)
                           /\ K = ChildrenWith(S, Command) /\ D = ChildrenWith(S, Identifier)
  OBVIOUS
<1>2. /\ Over(items, S) /\ U = Around(S) /\ S \subseteq U /\ S = Range(items)
      /\ \A o \in S : ListedObject(o)
      /\ \A o \in S : Over(o.children, U) /\ o.inside = o.children
  BY DEF HostAround
<1>3. /\ Gives(I, S, Seq(U))
      /\ \A o \in S : I[o] = Cat(<<o>>, o.inside) /\ Over(<<o>>, U) /\ Over(o.inside, U)
  BY <1>1, <1>2, WithInsideGives
<1>4. Gives(O, S, Seq(U)) /\ \A o \in S : O[o] = <<o>>
  <2>1. Gives(O, S, Seq(S))
    BY <1>1, SinglesGive
  <2>2. QED
    BY <1>1, <1>2, <2>1, GivesMore DEF Singles
<1>5. Gives(N, S, Seq(U)) /\ \A o \in S : N[o] = o.inside
  BY <1>1, <1>3 DEF InsideOf, Gives, Over
<1>6. /\ Gives(K, S, Seq(U)) /\ Gives(D, S, Seq(U))
      /\ \A o \in S : /\ K[o] = Direct(o.children, Command)
                      /\ D[o] = Direct(o.children, Identifier)
  BY <1>1, ChildrenWithGives
<1>7. Adding(S, I, O, N)
  <2>1. ASSUME NEW o \in S PROVE Len(I[o]) = Len(O[o]) + Len(N[o])
    <3>1. PICK w, c : w = <<o>> /\ c = o.inside
      OBVIOUS
    <3>2. Over(w, U) /\ Over(c, U)
      BY <1>3, <3>1
    <3>3. /\ Over(Cat(w, c), U) /\ Len(Cat(w, c)) = Len(w) + Len(c)
          /\ Len(w) \in Nat /\ Len(c) \in Nat
      BY <3>2, Joined
    <3>4. I[o] = Cat(w, c) /\ O[o] = w /\ N[o] = c
      BY <1>3, <1>4, <1>5, <3>1
    <3>5. QED
      BY <3>3, <3>4
  <2>2. QED
    BY <2>1 DEF Adding
<1>8. Adding(S, N, K, D)
  <2>1. ASSUME NEW o \in S PROVE Len(N[o]) = Len(K[o]) + Len(D[o])
    <3>1. PICK c : c = o.children
      OBVIOUS
    <3>2. Over(c, U) /\ \A x \in Range(c) : x.tag \in {Identifier, Command}
      BY <1>2, <3>1, HostObject
    <3>3. Len(c) = Len(Direct(c, Command)) + Len(Direct(c, Identifier))
      BY <3>2, ScriptParts
    <3>4. N[o] = c /\ K[o] = Direct(c, Command) /\ D[o] = Direct(c, Identifier)
      BY <1>2, <1>5, <1>6, <3>1
    <3>5. QED
      BY <3>3, <3>4
  <2>2. QED
    BY <2>1 DEF Adding
<1>9. AddUp(items, I, O, N) /\ AddUp(items, N, K, D)
  BY <1>2, <1>3, <1>4, <1>5, <1>6, <1>7, <1>8, LengthsAddUp
<1>10. Flatten(items) = Collected(items, I) /\ items = Collected(items, O)
  BY <1>1, <1>2, FlattenCollected, SinglesAre
<1>11. /\ Direct(Flatten(items), Command) = Collected(items, K)
       /\ Collected(Templates(items), D) = Collected(items, D)
  BY <1>1, DirectAreChildren
<1>12. PICK m, k, n : /\ m = Len(Collected(items, N)) /\ k = Len(Collected(items, K))
                      /\ n = Len(Collected(items, D))
  OBVIOUS
<1>13. m = k + n /\ k \in Nat /\ n \in Nat
  BY <1>9, <1>12 DEF AddUp
<1>14. Len(Flatten(items)) = Len(items) + m /\ Len(items) \in Nat
  BY <1>9, <1>10, <1>12 DEF AddUp
<1>15. Len(Flatten(items)) = Len(items) + k + n
  BY <1>13, <1>14
<1>16. QED
  BY <1>1, <1>11, <1>12, <1>15

(* The identifiers are as many as the scripts that have one.               *)
LEMMA IdentifiersCounted ==
  ASSUME NEW items, HostItems(items), NEW S, NEW U, HostAround(items, S, U)
  PROVE  LET r == CollectScripts(items) IN
         Cardinality({i \in DOMAIN r : r[i].identifier # <<>>}) =
           Len(Collected(Templates(items), ChildrenWith(S, Identifier)))
<1>1. PICK s, r, D, P, G : /\ s = Templates(items) /\ r = CollectScripts(items)
                           /\ D = ChildrenWith(S, Identifier)
                           /\ P = {o \in S : Present(o.children, Identifier)}
                           /\ G = Where(S, P)
  OBVIOUS
<1>2. /\ Over(items, S) /\ S \subseteq U /\ S = Range(items)
      /\ \A o \in S : Over(o.children, U)
  BY DEF HostAround
<1>3. Over(s, S)
  BY <1>1, <1>2, TemplatesCollected
<1>4. /\ Gives(D, S, Seq(U))
      /\ \A o \in S : /\ o.tag \notin ScriptTags => D[o] = <<>>
                      /\ D[o] = Direct(o.children, Identifier)
  BY <1>1, ChildrenWithGives
<1>5. Gives(G, S, Seq(U))
  BY <1>1, <1>2, WhereGives, GivesMore
<1>6. ASSUME NEW o \in S
      PROVE  /\ Len(D[o]) = Len(G[o])
             /\ DirectValue(o.children, Identifier) # <<>> <=> o \in P
  <2>1. PICK c, d : c = o.children /\ d = Len(Direct(c, Identifier))
    OBVIOUS
  <2>2. Over(c, U)
    BY <1>2, <2>1
  <2>3. d \in Nat /\ (d = 0 <=> ~ Present(c, Identifier))
    BY <2>1, <2>2, DirectLength
  <2>4. o.tag \in ScriptTags => ScriptValid(c)
    BY <1>2, <2>1, HostObject
  <2>5. o.tag \notin ScriptTags => d = 0
    <3>1. o.tag \notin ScriptTags => D[o] = <<>>
      BY <1>4
    <3>2. D[o] = Direct(c, Identifier)
      BY <1>4, <2>1
    <3>3. Len(<<>>) = 0
      BY EmptySeq
    <3>4. QED
      BY <2>1, <3>1, <3>2, <3>3
  <2>6. d <= 1
    BY <2>1, <2>4, <2>5 DEF ScriptValid, UniqueDirect
  <2>7. LengthIs(G[o], o \in P)
    BY <1>1, WhereAt
  <2>8. o \in P <=> d = 1
    <3>1. o \in P <=> Present(o.children, Identifier)
      BY <1>1
    <3>2. Present(o.children, Identifier) <=> Present(c, Identifier)
      BY <2>1
    <3>3. ~ Present(c, Identifier) <=> d = 0
      BY <2>3
    <3>4. d # 0 <=> d = 1
      BY <2>3, <2>6
    <3>5. QED
      BY <3>1, <3>2, <3>3, <3>4
  <2>9. Len(D[o]) = d
    BY <1>4, <2>1
  <2>10. Len(G[o]) = d
    <3>1. (o \in P => Len(G[o]) = 1) /\ (o \notin P => Len(G[o]) = 0)
      BY <2>7 DEF LengthIs
    <3>2. d = 0 \/ d = 1
      BY <2>3, <2>6
    <3>3. QED
      BY <2>8, <3>1, <3>2
  <2>11. DirectValue(c, Identifier) # <<>> <=> Present(c, Identifier)
    <3>1. PICK v : v = DirectValue(c, Identifier)
      OBVIOUS
    <3>2. Present(c, Identifier) => Len(v) = 4
      <4>1. Present(c, Identifier) => o.tag \in ScriptTags
        BY <2>3, <2>5
      <4>2. ScriptValid(c) /\ Present(c, Identifier) => Len(DirectValue(c, Identifier)) = 4
        BY DEF ScriptValid
      <4>3. QED
        BY <2>4, <3>1, <4>1, <4>2
    <3>3. ~ Present(c, Identifier) => v = <<>>
      BY <3>1 DEF DirectValue
    <3>4. Len(<<>>) # 4
      BY EmptySeq
    <3>5. QED
      BY <3>1, <3>2, <3>3, <3>4
  <2>12. QED
    BY <1>1, <2>1, <2>9, <2>10, <2>11
<1>7. Len(Collected(s, D)) = Len(Collected(s, G))
  <2>1. \A o \in S : Len(D[o]) = Len(G[o])
    BY <1>6
  <2>2. QED
    BY <1>3, <1>4, <1>5, <2>1, LengthsSame
<1>8. Cardinality(Places(s, P, Len(s))) = Len(Collected(s, G))
  BY <1>1, <1>3, CountIs
<1>9. {i \in DOMAIN r : r[i].identifier # <<>>} = Places(s, P, Len(s))
  <2>1. DOMAIN r = 1..Len(s) /\ \A i \in 1..Len(s) : s[i] \in S /\ r[i] = Script(s[i])
    BY <1>1, <1>2, ScriptsCounted
  <2>2. ASSUME NEW i \in 1..Len(s) PROVE r[i].identifier # <<>> <=> s[i] \in P
    <3>1. s[i] \in S /\ r[i] = Script(s[i])
      BY <2>1
    <3>2. Script(s[i]).identifier = DirectValue(s[i].children, Identifier)
      BY DEF Script
    <3>3. QED
      BY <1>6, <3>1, <3>2
  <2>3. QED
    BY <2>1, <2>2 DEF Places
<1>10. QED
  BY <1>1, <1>7, <1>8, <1>9

LEMMA HostCompleteHolds ==
  ASSUME ParsingInv
  PROVE  HostComplete
<1>1. PICK p, items, response : /\ p = ParseMany(input) /\ items = p.items
                                /\ response = ParseHostResponse(input)
  OBVIOUS
<1>2. SUFFICES ASSUME response.ok PROVE NothingIgnored(items, Flatten(items), response)
  BY <1>1 DEF HostComplete, NothingIgnored
<1>3. /\ p.ok /\ HostObjectsValid(items)
      /\ response = HostResponse(items, CollectScripts(items))
  BY <1>1, <1>2 DEF ParseHostResponse, HostResponseIn, No
<1>4. HostItems(items)
  <2>1. input \in Seq(Byte)
    BY DEF ParsingInv, InputTyped, Over
  <2>2. Proper(items)
    BY <1>1, <1>3, <2>1, ParserSound
  <2>3. QED
    BY <1>3, <2>2 DEF HostItems
<1>5. response.scripts = CollectScripts(items)
  BY <1>2, <1>3 DEF HostResponse, No
<1>6. Len(items) = 1 + Cardinality({x \in {"code", "auth"} : response[x] # <<>>})
                     + Len(response.scripts)
  BY <1>2, <1>3, <1>4, NoneIgnored
<1>7. PICK S, U : S = Range(items) /\ U = Around(S)
  OBVIOUS
<1>8. HostAround(items, S, U)
  BY <1>4, <1>7, HostPlaced
<1>9. Commands(response.scripts) = ValuesOf(Direct(Flatten(items), Command))
  BY <1>5, <1>8, CommandsKept
<1>10. PICK n : /\ n = Len(Collected(Templates(items), ChildrenWith(S, Identifier)))
                /\ Len(Flatten(items)) =
                     Len(items) + Len(Direct(Flatten(items), Command)) + n
  BY <1>4, <1>8, AllCounted
<1>11. PICK r : r = response.scripts
  OBVIOUS
<1>12. Cardinality({i \in DOMAIN r : r[i].identifier # <<>>}) = n
  BY <1>4, <1>5, <1>8, <1>10, <1>11, IdentifiersCounted
<1>13. QED
  BY <1>6, <1>9, <1>10, <1>11, <1>12 DEF NothingIgnored, ValuesOf

LEMMA ResponsesFaithfulHolds ==
  ASSUME ParsingInv
  PROVE  ResponsesFaithful
BY HostCompleteHolds, FormatsAgreeHolds, PackageReadsBackHolds DEF ResponsesFaithful

(* No accepted host response has an object or a command that is ignored    *)
(* (parse_host_response, collect_scripts), the two formats of an answer to *)
(* GENERATE AC or GET PROCESSING OPTIONS are read the same, and the online *)
(* authorization package that is sent can be parsed and is what the card   *)
(* said (build_online_authorization_package).                              *)
THEOREM ResponsesAreFaithful == Spec => []ResponsesFaithful
<1> HIDE DEF ParsingInv, ResponsesFaithful, Spec
<1>1. ParsingInv => ResponsesFaithful
  BY ResponsesFaithfulHolds
<1>2. QED
  BY <1>1, InputIsBytes, PTL

-----------------------------------------------------------------------------
(* The walk over the CVM list.                                             *)

(* A rule passed over in silence left no bit to show.                      *)
SilentPast ==
  \A i \in 1..(position - 1) :
    PassedOver(list.rules[i]) => UnavailableBit(list.rules[i].method) = {}

(* FailureShown speaks of tvr after the walk; while it lasts, observed     *)
(* carries what tvr will show, and tvr takes over whatever it carries.     *)
ShownInv ==
  /\ results.status = "failed" => tvr # {}
  /\ ~Walking /\ tvr = {} => observed = {}
  /\ observed = {} => SilentPast

WalkInv == TypeOK /\ CardPriorityKept /\ ShownInv

-----------------------------------------------------------------------------
(* While the walk is at a rule, the rule is one of the parsed ones.        *)
LEMMA RuleTyped ==
  ASSUME TypeOK, AtRule
  PROVE  Rule \in Rules /\ position \in 1..Len(list.rules)
PROOF
<1>1. list.rules \in Seq(Rules)
  BY ListAssumption DEF TypeOK, Lists
<1>2. Len(list.rules) \in Nat /\ position \in 1..Len(list.rules)
  BY <1>1 DEF TypeOK, AtRule
<1> QED BY <1>1, <1>2 DEF Rule

(* The bits of an unavailable method are bits of TVR byte 3.               *)
LEMMA BitTyped == \A m : UnavailableBit(m) \subseteq Byte3
PROOF
  BY DEF UnavailableBit, Byte3

(* A stored result is not the absence of one.                              *)
LEMMA ResultsTyped ==
  \A r \in Rules, s \in {"successful", "failed"} :
    /\ Results(r, s) # NoResults
    /\ Results(r, s) \in
         [method : Methods, condition : Conditions, status : {"successful", "failed"}]
    /\ Results(r, s).status = s /\ Results(r, s).method = r.method
PROOF
  BY DEF Results, NoResults, Rules

(* Nothing is stored while the walk lasts.                                 *)
LEMMA WalkingHasNoStatus ==
  Walking => results.status = "none"
PROOF
  BY DEF Walking, NoResults

-----------------------------------------------------------------------------
(* Every step keeps the types.                                             *)
LEMMA TypeStep == TypeOK /\ [CvmNext]_cvmVars => TypeOK'
PROOF
<1> SUFFICES ASSUME TypeOK, [CvmNext]_cvmVars PROVE TypeOK'
  OBVIOUS
<1>0. Len(list.rules) \in Nat
  BY ListAssumption DEF TypeOK, Lists
<1>1. CASE SkipRule
  BY <1>0, <1>1, RuleTyped DEF SkipRule, TypeOK, inputs
<1>2. CASE PassOver
  <2>1. observed' \subseteq Byte3
    BY <1>2, BitTyped DEF PassOver, Observe, TypeOK
  <2> QED BY <1>0, <1>2, <2>1, RuleTyped DEF PassOver, TypeOK, inputs
<1>3. CASE FailRule
  <2>1. observed' \subseteq Byte3
    BY <1>3, BitTyped DEF FailRule, Observe, TypeOK
  <2>2. tvr' \subseteq Byte3
    BY <1>3, <2>1 DEF FailRule, Byte3
  <2>3. Rule \in Rules
    BY <1>3, RuleTyped DEF FailRule
  <2>4. results' = Results(Rule, "failed")
    BY <1>3 DEF FailRule
  <2> QED BY <1>3, <2>1, <2>2, <2>3, <2>4, ResultsTyped DEF FailRule, TypeOK, inputs
<1>4. CASE SelectRule
  <2>1. tvr' \subseteq Byte3
    BY <1>4 DEF SelectRule, Byte3, TypeOK
  <2>2. Rule \in Rules
    BY <1>4, RuleTyped DEF SelectRule
  <2>3. results' = Results(Rule, "successful")
    BY <1>4 DEF SelectRule
  <2> QED BY <1>4, <2>1, <2>2, <2>3, ResultsTyped DEF SelectRule, TypeOK, inputs
<1>5. CASE EndOfList
  <2>1. results' \in [method : Methods, condition : Conditions,
                      status : {"successful", "failed"}]
    BY <1>5 DEF EndOfList, Methods, Conditions
  <2>2. tvr' \subseteq Byte3
    BY <1>5 DEF EndOfList, Byte3
  <2> QED BY <1>5, <2>1, <2>2 DEF EndOfList, TypeOK, inputs
<1>6. CASE CheckLimit
  BY <1>6 DEF CheckLimit, TypeOK, inputs
<1>7. CASE UNCHANGED cvmVars
  BY <1>7 DEF cvmVars, inputs, TypeOK
<1> QED BY <1>1, <1>2, <1>3, <1>4, <1>5, <1>6, <1>7 DEF CvmNext, Walk

-----------------------------------------------------------------------------
(* A step of the walk ahead of or at the end keeps the rules behind it:    *)
(* the terminal does not change during the walk.                           *)
LEMMA InputsFixed ==
  ASSUME UNCHANGED inputs
  PROVE  \A r : /\ Applies(r)' = Applies(r)
                /\ \A m : Available(m)' = Available(m)
                /\ \A m : UnavailableBit(m)' = UnavailableBit(m)
PROOF
  BY DEF inputs, Applies, AmountIs, TerminalSupports, Available, UnavailableBit,
         OfflinePinSupported, DevicePerformed, Supports

(* A step that neither moves the index nor stores a result.                *)
LEMMA StillStep ==
  ASSUME WalkInv, UNCHANGED <<inputs, position, observed, results, tvr>>
  PROVE  CardPriorityKept' /\ ShownInv'
PROOF
<1>1. UNCHANGED inputs /\ UNCHANGED list
  BY DEF inputs
<1> QED
  BY <1>1, InputsFixed DEF WalkInv, CardPriorityKept, ShownInv, SilentPast, PassedOver,
     Rule, Walking

(* A rule left behind does not apply, or is passed over and lets go on.    *)
LEMMA MoveStep ==
  ASSUME WalkInv, SkipRule \/ PassOver
  PROVE  CardPriorityKept' /\ ShownInv'
PROOF
<1>1. /\ UNCHANGED inputs /\ UNCHANGED list /\ UNCHANGED results /\ UNCHANGED tvr
      /\ position' = position + 1 /\ position \in Nat /\ Walking
      /\ Applies(Rule) => ~Available(Rule.method) /\ Rule.goOn
      /\ ~Applies(Rule) => UNCHANGED observed
      /\ Applies(Rule) => observed' = Observe
  BY DEF SkipRule, PassOver, inputs, AtRule, WalkInv, TypeOK
<1>2. results.status = "none"
  BY <1>1, WalkingHasNoStatus
<1>3. \A i \in 1..(position' - 1) : i \in 1..(position - 1) \/ i = position
  BY <1>1
<1>4. CardPriorityKept'
  <2>1. \A i \in 1..(position' - 1) :
          Applies(list.rules[i]) =>
            PassedOver(list.rules[i]) /\ list.rules[i].goOn
    BY <1>1, <1>3 DEF WalkInv, CardPriorityKept, PassedOver, Rule
  <2> QED BY <1>1, <1>2, <2>1, InputsFixed DEF CardPriorityKept, PassedOver
<1>5. ShownInv'
  <2>1. observed' = {} => observed = {}
    BY <1>1 DEF Observe
  <2>2. observed' = {} =>
          \A i \in 1..(position' - 1) :
            PassedOver(list.rules[i]) => UnavailableBit(list.rules[i].method) = {}
    BY <1>1, <1>3, <2>1 DEF WalkInv, ShownInv, SilentPast, PassedOver, Rule, Observe
  <2> QED BY <1>1, <1>2, <2>2, InputsFixed DEF ShownInv, SilentPast, PassedOver, Walking
<1> QED BY <1>4, <1>5

(* A failure is stored with a bit, the one observed or the general one.    *)
LEMMA FailStep ==
  ASSUME WalkInv, FailRule \/ EndOfList
  PROVE  CardPriorityKept' /\ ShownInv'
PROOF
<1>1. /\ UNCHANGED inputs /\ UNCHANGED list /\ UNCHANGED position
      /\ tvr' # {}
      /\ observed' = {} => observed = {}
  BY DEF FailRule, EndOfList, inputs, Observe
<1>2. results'.status = "failed"
  BY DEF FailRule, EndOfList, Results
<1> QED
  BY <1>1, <1>2, InputsFixed DEF WalkInv, CardPriorityKept, ShownInv, SilentPast, PassedOver

(* A success is the success of the rule the walk is at.                    *)
LEMMA SelectStep ==
  ASSUME WalkInv, SelectRule
  PROVE  CardPriorityKept' /\ ShownInv'
PROOF
<1>1. /\ UNCHANGED inputs /\ UNCHANGED list /\ UNCHANGED position /\ UNCHANGED observed
      /\ tvr' = {} => observed = {}
      /\ Applies(Rule) /\ Available(Rule.method)
      /\ results' = Results(Rule, "successful")
      /\ position <= Len(list.rules)
  BY DEF SelectRule, inputs, AtRule
<1>2. results'.status = "successful" /\ results'.method = Rule.method
  BY <1>1 DEF Results
<1>3. Rule' = Rule
  BY <1>1 DEF Rule
<1>4. CardPriorityKept'
  BY <1>1, <1>2, <1>3, InputsFixed DEF WalkInv, CardPriorityKept, PassedOver
<1>5. ShownInv'
  BY <1>1, <1>2, InputsFixed DEF WalkInv, ShownInv, SilentPast, PassedOver
<1> QED BY <1>4, <1>5

-----------------------------------------------------------------------------
(* The walk starts at the first rule with nothing behind it.               *)
LEMMA InitWalk == CvmInit => WalkInv
PROOF
<1> SUFFICES ASSUME CvmInit PROVE WalkInv
  OBVIOUS
<1>1. Len(list.rules) \in Nat
  BY ListAssumption DEF CvmInit, Lists
<1> QED
  BY <1>1 DEF CvmInit, WalkInv, TypeOK, CardPriorityKept, ShownInv, SilentPast, NoResults,
     Walking

(* Every step keeps the invariant.                                         *)
LEMMA NextWalk == WalkInv /\ [CvmNext]_cvmVars => WalkInv'
PROOF
<1> SUFFICES ASSUME WalkInv, [CvmNext]_cvmVars PROVE WalkInv'
  OBVIOUS
<1>1. TypeOK'
  BY TypeStep DEF WalkInv
<1>2. CASE CheckLimit \/ UNCHANGED cvmVars
  BY <1>1, <1>2, StillStep DEF CheckLimit, cvmVars, inputs, WalkInv
<1> QED
  BY <1>1, <1>2, MoveStep, FailStep, SelectStep DEF WalkInv, CvmNext, Walk

(* WalkInv is an invariant of the walk.                                    *)
LEMMA Walks == CvmSpec => []WalkInv
PROOF
  BY InitWalk, NextWalk, PTL DEF CvmSpec

-----------------------------------------------------------------------------
(* The index stays in the list or right behind it, and what is stored are  *)
(* a method, a condition and a result (cvm.rs, evaluate).                  *)
THEOREM WalkTyped == CvmSpec => []TypeOK
PROOF
<1>1. WalkInv => TypeOK
  BY DEF WalkInv
<1> QED BY <1>1, Walks, PTL

(* The card's priorities are kept, whatever the list and the terminal      *)
(* (cvm.rs, evaluate and action_for_method).                               *)
THEOREM PrioritiesKept == CvmSpec => []CardPriorityKept
PROOF
<1>1. WalkInv => CardPriorityKept
  BY DEF WalkInv
<1> QED BY <1>1, Walks, PTL

(* An empty TVR byte 3 after the walk means that nothing failed and no     *)
(* rule was passed over for want of a PIN pad or a PIN, or as unknown      *)
(* (cvm.rs, cvm_failed; ffi.rs, run_cvm_processing).                       *)
THEOREM FailuresAreShown == CvmSpec => []FailureShown
PROOF
<1>1. WalkInv => FailureShown
  BY DEF WalkInv, ShownInv, SilentPast, FailureShown
<1> QED BY <1>1, Walks, PTL
=============================================================================
