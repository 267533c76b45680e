--------------------------- MODULE ChatWireProofs ---------------------------
(***************************************************************************)
(* Theorems about ChatWire, for every value of its constants: what comes   *)
(* out of a stream of bytes is what went into it.                          *)
(***************************************************************************)
EXTENDS ChatWire, SequenceTheorems, FiniteSetTheorems, WellFoundedInduction, TLAPS

\* The bytes that occur.
Byte ==
  {NL, CR, "too", "long", "o", "k", "re"}
    \cup UNION {{m[i] : i \in DOMAIN m} : m \in Commands \cup {Auth, ChatLine}}

\* Texts without a newline.
Plain == {m \in Seq(Byte) : \A i \in DOMAIN m : m[i] # NL}

-----------------------------------------------------------------------------
(* Induction, as the existence of a least counterexample *)

LEMMA Least ==
  ASSUME NEW T \in SUBSET Nat, T # {}
  PROVE  \E m \in T : \A k \in T : m <= k
<1>1. PICK m \in T : \A k \in T : ~(<<k, m>> \in OpToRel(<, Nat))
  BY NatLessThanWellFounded, WFMin
<1>2. \A k \in T : ~(k < m)
  BY <1>1 DEF OpToRel
<1> QED BY <1>2

-----------------------------------------------------------------------------
(* FlattenSeq *)

\* What FlattenSeq puts together of s, from the front.
Parts(s) == CHOOSE f : f = [i \in 1..Len(s) |-> IF i = 1 THEN s[i] ELSE f[i - 1] \o s[i]]

LEMMA PartsDefined ==
  ASSUME NEW S, NEW s \in Seq(Seq(S))
  PROVE  Parts(s) = [i \in 1..Len(s) |-> IF i = 1 THEN s[i] ELSE Parts(s)[i - 1] \o s[i]]
<1> DEFINE Some(n) == \E f : f = [i \in 1..n |-> IF i = 1 THEN s[i] ELSE f[i - 1] \o s[i]]
           T == {n \in Nat : n <= Len(s) /\ ~Some(n)}
<1>1. CASE T # {}
  <2>1. PICK n \in T : \A k \in T : n <= k
    <3> HIDE DEF T
    <3>1. T \subseteq Nat
      BY DEF T
    <3> QED BY <1>1, <3>1, Least
  <2>2. CASE n = 0
    <3> DEFINE g == [i \in 1..0 |-> s[i]]
    <3>1. g = [i \in 1..0 |-> IF i = 1 THEN s[i] ELSE g[i - 1] \o s[i]]
      OBVIOUS
    <3> QED BY <2>1, <2>2, <3>1
  <2>3. CASE n # 0
    <3>1. n - 1 \in Nat /\ n - 1 <= Len(s) /\ ~(n <= n - 1)
      BY <2>1, <2>3
    <3>2. Some(n - 1)
      <4> HIDE DEF Some
      <4> QED BY <2>1, <3>1
    <3>3. PICK g : g = [i \in 1..(n - 1) |-> IF i = 1 THEN s[i] ELSE g[i - 1] \o s[i]]
      BY <3>2
    <3> DEFINE h == [i \in 1..n |-> IF i < n THEN g[i] ELSE IF n = 1 THEN s[n] ELSE g[n - 1] \o s[n]]
    <3>4. h = [i \in 1..n |-> IF i = 1 THEN s[i] ELSE h[i - 1] \o s[i]]
      <4> SUFFICES ASSUME NEW i \in 1..n
                   PROVE  h[i] = IF i = 1 THEN s[i] ELSE h[i - 1] \o s[i]
        OBVIOUS
      <4>1. CASE i < n
        <5>1. i \in 1..(n - 1) /\ h[i] = g[i] /\ (i # 1 => i - 1 \in 1..n /\ h[i - 1] = g[i - 1])
          BY <2>1, <4>1
        <5>2. g[i] = IF i = 1 THEN s[i] ELSE g[i - 1] \o s[i]
          BY <3>3, <5>1
        <5> QED BY <5>1, <5>2
      <4>2. CASE i = n
        <5>1. h[n] = IF n = 1 THEN s[n] ELSE g[n - 1] \o s[n]
          BY <2>1, <2>3
        <5>2. n # 1 => h[n - 1] = g[n - 1]
          BY <2>1, <2>3
        <5> QED BY <4>2, <5>1, <5>2
      <4> QED BY <2>1, <4>1, <4>2
    <3> QED BY <2>1, <3>4
  <2> QED BY <2>2, <2>3
<1>2. CASE T = {}
  <2>1. Some(Len(s))
    <3> HIDE DEF Some
    <3>1. Len(s) \in Nat /\ Len(s) <= Len(s)
      OBVIOUS
    <3> QED BY <1>2, <3>1
  <2> QED BY <2>1, Zenon DEF Parts
<1> QED BY <1>1, <1>2

LEMMA PartsAt ==
  ASSUME NEW S, NEW s \in Seq(Seq(S)), NEW i \in 1..Len(s)
  PROVE  Parts(s)[i] = IF i = 1 THEN s[i] ELSE Parts(s)[i - 1] \o s[i]
<1> DEFINE f == Parts(s)
<1>1. f = [k \in 1..Len(s) |-> IF k = 1 THEN s[k] ELSE f[k - 1] \o s[k]]
  BY PartsDefined
<1> HIDE DEF f
<1>2. f[i] = IF i = 1 THEN s[i] ELSE f[i - 1] \o s[i]
  BY <1>1
<1> QED BY <1>2 DEF f

LEMMA PartsType ==
  ASSUME NEW S, NEW s \in Seq(Seq(S))
  PROVE  \A i \in 1..Len(s) : Parts(s)[i] \in Seq(S)
<1> DEFINE T == {n \in 1..Len(s) : Parts(s)[n] \notin Seq(S)}
<1>1. CASE T # {}
  <2>1. PICK n \in T : \A k \in T : n <= k
    <3> HIDE DEF T
    <3>1. T \subseteq Nat
      BY DEF T
    <3> QED BY <1>1, <3>1, Least
  <2>2. Parts(s)[n] = IF n = 1 THEN s[n] ELSE Parts(s)[n - 1] \o s[n]
    BY <2>1, PartsAt
  <2>3. s[n] \in Seq(S)
    BY <2>1
  <2>4. n # 1 => Parts(s)[n - 1] \in Seq(S)
    BY <2>1
  <2>5. n # 1 => Parts(s)[n - 1] \o s[n] \in Seq(S)
    BY <2>3, <2>4, ConcatProperties
  <2> QED BY <2>1, <2>2, <2>3, <2>5
<1> QED BY <1>1

LEMMA FlattenLast ==
  ASSUME NEW s, Len(s) # 0
  PROVE  FlattenSeq(s) = Parts(s)[Len(s)]
BY DEF FlattenSeq, Parts

LEMMA FlattenEmpty == FlattenSeq(<<>>) = <<>>
BY DEF FlattenSeq

LEMMA FlattenType ==
  ASSUME NEW S, NEW s \in Seq(Seq(S))
  PROVE  FlattenSeq(s) \in Seq(S)
<1>1. CASE s = <<>>
  <2>1. FlattenSeq(s) = <<>>
    BY <1>1, FlattenEmpty
  <2> QED BY <2>1
<1>2. CASE s # <<>>
  <2>1. Len(s) \in 1..Len(s) /\ Len(s) # 0
    BY <1>2, EmptySeq
  <2> QED BY <2>1, FlattenLast, PartsType
<1> QED BY <1>1, <1>2

LEMMA FlattenAppend ==
  ASSUME NEW S, NEW s \in Seq(Seq(S)), NEW x \in Seq(S)
  PROVE  FlattenSeq(Append(s, x)) = FlattenSeq(s) \o x
<1> DEFINE t == Append(s, x)
           n == Len(s)
<1>1. /\ t \in Seq(Seq(S)) /\ Len(t) = n + 1 /\ n \in Nat /\ t[n + 1] = x
      /\ \A i \in 1..n : t[i] = s[i]
  BY AppendProperties
<1> HIDE DEF t
<1>2. FlattenSeq(t) = Parts(t)[n + 1]
  BY <1>1, FlattenLast
<1>3. Parts(t)[n + 1] = IF n = 0 THEN x ELSE Parts(t)[n] \o x
  <2>1. n + 1 \in 1..Len(t)
    BY <1>1
  <2>2. Parts(t)[n + 1] = IF n + 1 = 1 THEN t[n + 1] ELSE Parts(t)[n + 1 - 1] \o t[n + 1]
    BY <1>1, <2>1, PartsAt
  <2> QED BY <1>1, <2>2
<1>4. \A i \in 1..n : Parts(t)[i] = Parts(s)[i]
  <2> DEFINE T == {i \in 1..n : Parts(t)[i] # Parts(s)[i]}
  <2>1. CASE T # {}
    <3>1. PICK i \in T : \A k \in T : i <= k
      <4> HIDE DEF T
      <4>1. T \subseteq Nat
        BY DEF T
      <4> QED BY <2>1, <4>1, Least
    <3>2. /\ Parts(t)[i] = IF i = 1 THEN t[i] ELSE Parts(t)[i - 1] \o t[i]
          /\ Parts(s)[i] = IF i = 1 THEN s[i] ELSE Parts(s)[i - 1] \o s[i]
      <4>1. i \in 1..Len(t) /\ i \in 1..Len(s)
        BY <1>1, <3>1
      <4> QED BY <1>1, <4>1, PartsAt
    <3>3. i # 1 => Parts(t)[i - 1] = Parts(s)[i - 1]
      BY <3>1
    <3> QED BY <1>1, <3>1, <3>2, <3>3
  <2> QED BY <2>1
<1>5. CASE n = 0
  <2>1. s = <<>>
    BY <1>5, EmptySeq
  <2>2. FlattenSeq(s) \o x = x
    BY <2>1, FlattenEmpty, ConcatEmptySeq
  <2> QED BY <1>2, <1>3, <1>5, <2>2 DEF t
<1>6. CASE n # 0
  <2>1. FlattenSeq(s) = Parts(s)[n]
    BY <1>6, FlattenLast
  <2>2. Parts(t)[n] = Parts(s)[n]
    BY <1>1, <1>4, <1>6
  <2> QED BY <1>2, <1>3, <1>6, <2>1, <2>2 DEF t
<1> QED BY <1>5, <1>6

-----------------------------------------------------------------------------
(* Lines and their bytes *)

\* Lines with their newlines.
Ended(lines) == [i \in DOMAIN lines |-> Append(lines[i], NL)]

LEMMA EndedType ==
  ASSUME NEW lines \in Seq(Seq(Byte))
  PROVE  Ended(lines) \in Seq(Seq(Byte)) /\ Joined(lines) = FlattenSeq(Ended(lines))
<1>1. \A i \in 1..Len(lines) : Append(lines[i], NL) \in Seq(Byte)
  BY AppendProperties DEF Byte
<1>2. Ended(lines) = [i \in 1..Len(lines) |-> Append(lines[i], NL)]
  BY DEF Ended
<1>3. Ended(lines) \in Seq(Seq(Byte))
  BY <1>1, <1>2
<1> QED BY <1>3 DEF Joined, Ended

LEMMA JoinedEmpty == Joined(<<>>) = <<>>
<1>1. Ended(<<>>) = <<>>
  BY DEF Ended
<1> QED BY <1>1, FlattenEmpty DEF Joined, Ended

LEMMA JoinedType == \A lines \in Seq(Seq(Byte)) : Joined(lines) \in Seq(Byte)
BY EndedType, FlattenType

LEMMA JoinedAppend ==
  ASSUME NEW lines \in Seq(Seq(Byte)), NEW m \in Seq(Byte)
  PROVE  Joined(Append(lines, m)) = Joined(lines) \o Append(m, NL)
<1>1. Append(lines, m) \in Seq(Seq(Byte)) /\ Append(m, NL) \in Seq(Byte)
  BY AppendProperties DEF Byte
<1>2. Ended(Append(lines, m)) = Append(Ended(lines), Append(m, NL))
  <2> DEFINE a == Ended(Append(lines, m))
             b == Append(Ended(lines), Append(m, NL))
  <2>1. a \in Seq(Seq(Byte)) /\ b \in Seq(Seq(Byte)) /\ Len(a) = Len(lines) + 1 /\ Len(b) = Len(lines) + 1
    <3>1. a \in Seq(Seq(Byte)) /\ Ended(lines) \in Seq(Seq(Byte))
      BY <1>1, EndedType
    <3>2. b \in Seq(Seq(Byte)) /\ Len(b) = Len(Ended(lines)) + 1
      BY <1>1, <3>1, AppendProperties
    <3>3. Len(Ended(lines)) = Len(lines) /\ Len(a) = Len(Append(lines, m))
      BY <1>1 DEF Ended
    <3> QED BY <3>1, <3>2, <3>3
  <2>2. \A i \in 1..(Len(lines) + 1) : a[i] = b[i]
    BY EndedType, AppendProperties DEF Ended
  <2> HIDE DEF a, b
  <2>3. a = b
    BY <2>1, <2>2, SeqEqual
  <2> QED BY <2>3 DEF a, b
<1> QED BY <1>1, <1>2, EndedType, FlattenAppend

LEMMA LinesAppend ==
  ASSUME NEW a \in Seq(Seq(Byte)), NEW e \in Seq(Seq(Byte)), NEW m \in Seq(Byte)
  PROVE  a \o Append(e, m) = Append(a \o e, m)
<1>1. a \o e \in Seq(Seq(Byte)) /\ <<m>> \in Seq(Seq(Byte))
  BY ConcatProperties
<1>2. e \o <<m>> = Append(e, m) /\ (a \o e) \o <<m>> = Append(a \o e, m)
  BY <1>1, AppendIsConcat
<1>3. (a \o e) \o <<m>> = a \o (e \o <<m>>)
  BY <1>1, ConcatAssociative
<1> QED BY <1>2, <1>3

LEMMA BytesAssociate ==
  ASSUME NEW a \in Seq(Byte), NEW b \in Seq(Byte), NEW c \in Seq(Byte)
  PROVE  (a \o b) \o c = a \o (b \o c)
BY ConcatAssociative

LEMMA BytesCancel ==
  ASSUME NEW a \in Seq(Byte), NEW b \in Seq(Byte), NEW c \in Seq(Byte), a \o b = a \o c
  PROVE  b = c
<1> DEFINE s == a \o b
           t == a \o c
<1>1. /\ Len(s) = Len(a) + Len(b) /\ Len(t) = Len(a) + Len(c)
      /\ \A i \in 1..(Len(a) + Len(b)) : s[i] = IF i <= Len(a) THEN a[i] ELSE b[i - Len(a)]
      /\ \A i \in 1..(Len(a) + Len(c)) : t[i] = IF i <= Len(a) THEN a[i] ELSE c[i - Len(a)]
  BY ConcatProperties
<1>2. s = t
  OBVIOUS
<1> HIDE DEF s, t
<1>3. Len(a) \in Nat /\ Len(b) \in Nat /\ Len(c) \in Nat
  OBVIOUS
<1>4. Len(b) = Len(c)
  BY <1>1, <1>2, <1>3
<1>5. \A i \in 1..Len(b) : b[i] = c[i]
  <2> SUFFICES ASSUME NEW i \in 1..Len(b)
               PROVE  b[i] = c[i]
    OBVIOUS
  <2>1. /\ i + Len(a) \in 1..(Len(a) + Len(b)) /\ ~(i + Len(a) <= Len(a))
        /\ i + Len(a) - Len(a) = i
    BY <1>3
  <2> QED BY <1>1, <1>2, <1>4, <2>1
<1> QED BY <1>4, <1>5, SeqEqual

LEMMA JoinedConcat ==
  ASSUME NEW a \in Seq(Seq(Byte)), NEW c \in Seq(Seq(Byte))
  PROVE  Joined(a \o c) = Joined(a) \o Joined(c)
<1> DEFINE Good(d) == Joined(a \o d) = Joined(a) \o Joined(d)
           T == {n \in Nat : \E d \in Seq(Seq(Byte)) : Len(d) = n /\ ~Good(d)}
<1>1. ASSUME NEW n \in T, \A k \in T : n <= k
      PROVE  FALSE
  <2>1. PICK d \in Seq(Seq(Byte)) : Len(d) = n /\ ~Good(d)
    OBVIOUS
  <2>2. CASE d = <<>>
    <3>1. a \o d = a /\ Joined(d) = <<>>
      BY <2>2, JoinedEmpty, ConcatEmptySeq
    <3>2. Joined(a) \o <<>> = Joined(a)
      BY JoinedType, ConcatEmptySeq
    <3> QED BY <2>1, <3>1, <3>2
  <2>3. CASE d # <<>>
    <3>1. PICK e \in Seq(Seq(Byte)), m \in Seq(Byte) : d = Append(e, m)
      BY <2>3, SequenceEmptyOrAppend
    <3>2. Len(e) \in Nat /\ ~(n <= Len(e))
      BY <2>1, <3>1, AppendProperties
    <3>3. Good(e)
      <4> HIDE DEF Good
      <4> QED BY <1>1, <3>2
    <3> DEFINE r == Append(m, NL)
    <3>4. r \in Seq(Byte) /\ Joined(a) \in Seq(Byte) /\ Joined(e) \in Seq(Byte) /\ a \o e \in Seq(Seq(Byte))
      BY JoinedType, AppendProperties, ConcatProperties DEF Byte
    <3>5. a \o d = Append(a \o e, m)
      BY <3>1, LinesAppend
    <3>6. Joined(a \o d) = Joined(a \o e) \o r /\ Joined(d) = Joined(e) \o r
      BY <3>1, <3>4, <3>5, JoinedAppend
    <3>7. (Joined(a) \o Joined(e)) \o r = Joined(a) \o (Joined(e) \o r)
      <4> HIDE DEF r
      <4> QED BY <3>4, BytesAssociate
    <3> QED BY <2>1, <3>3, <3>6, <3>7
  <2> QED BY <2>2, <2>3
<1>2. T = {}
  <2> HIDE DEF T
  <2>1. T \in SUBSET Nat
    BY DEF T
  <2> QED BY <1>1, <2>1, Least
<1>3. Len(c) \in Nat
  OBVIOUS
<1> QED BY <1>2, <1>3

LEMMA JoinedOne ==
  ASSUME NEW m \in Seq(Byte)
  PROVE  Joined(<<m>>) = Append(m, NL)
<1>1. Append(m, NL) \in Seq(Byte)
  BY AppendProperties DEF Byte
<1>2. Append(<<>>, m) = <<m>> /\ <<>> \in Seq(Seq(Byte))
  OBVIOUS
<1>3. Joined(Append(<<>>, m)) = Joined(<<>>) \o Append(m, NL)
  BY <1>2, JoinedAppend
<1>4. <<>> \o Append(m, NL) = Append(m, NL)
  BY <1>1, ConcatEmptySeq
<1> QED BY <1>2, <1>3, <1>4, JoinedEmpty

\* Two texts that end at their first newline are the same.
LEMMA SameFirst ==
  ASSUME NEW x \in Plain, NEW y \in Plain, NEW r \in Seq(Byte), NEW q \in Seq(Byte),
         Append(x, NL) \o r = Append(y, NL) \o q
  PROVE  x = y
<1>1. x \in Seq(Byte) /\ y \in Seq(Byte) /\ NL \in Byte
  BY DEF Plain, Byte
<1> DEFINE s == Append(x, NL) \o r
           t == Append(y, NL) \o q
<1>2. /\ \A i \in 1..Len(x) : s[i] = x[i] /\ x[i] # NL
      /\ \A i \in 1..Len(y) : t[i] = y[i] /\ y[i] # NL
      /\ s[Len(x) + 1] = NL /\ t[Len(y) + 1] = NL
  <2>1. /\ Append(x, NL) \in Seq(Byte) /\ Len(Append(x, NL)) = Len(x) + 1
        /\ Append(y, NL) \in Seq(Byte) /\ Len(Append(y, NL)) = Len(y) + 1
        /\ Append(x, NL)[Len(x) + 1] = NL /\ Append(y, NL)[Len(y) + 1] = NL
        /\ \A i \in 1..Len(x) : Append(x, NL)[i] = x[i]
        /\ \A i \in 1..Len(y) : Append(y, NL)[i] = y[i]
    BY <1>1, AppendProperties
  <2>2. /\ \A i \in 1..(Len(x) + 1) : s[i] = Append(x, NL)[i]
        /\ \A i \in 1..(Len(y) + 1) : t[i] = Append(y, NL)[i]
    <3> DEFINE p == Append(x, NL)
               g == Append(y, NL)
    <3>1. /\ p \in Seq(Byte) /\ Len(p) = Len(x) + 1 /\ g \in Seq(Byte) /\ Len(g) = Len(y) + 1
          /\ Len(x) \in Nat /\ Len(y) \in Nat /\ Len(r) \in Nat /\ Len(q) \in Nat
      BY <1>1, <2>1
    <3> HIDE DEF p, g
    <3>2. /\ \A i \in 1..(Len(p) + Len(r)) : (p \o r)[i] = IF i <= Len(p) THEN p[i] ELSE r[i - Len(p)]
          /\ \A i \in 1..(Len(g) + Len(q)) : (g \o q)[i] = IF i <= Len(g) THEN g[i] ELSE q[i - Len(g)]
      BY <3>1, ConcatProperties
    <3>3. /\ \A i \in 1..(Len(x) + 1) : (p \o r)[i] = p[i]
          /\ \A i \in 1..(Len(y) + 1) : (g \o q)[i] = g[i]
      BY <3>1, <3>2
    <3> QED BY <3>3 DEF p, g
  <2>3. /\ \A i \in 1..Len(x) : x[i] # NL
        /\ \A i \in 1..Len(y) : y[i] # NL
    BY DEF Plain
  <2>4. Len(x) \in Nat /\ Len(y) \in Nat
    BY <1>1
  <2> HIDE DEF s, t
  <2>5. \A i \in 1..Len(x) : s[i] = x[i] /\ x[i] # NL
    BY <2>1, <2>2, <2>3, <2>4
  <2>6. \A i \in 1..Len(y) : t[i] = y[i] /\ y[i] # NL
    BY <2>1, <2>2, <2>3, <2>4
  <2>7. s[Len(x) + 1] = NL
    BY <2>1, <2>2, <2>4
  <2>8. t[Len(y) + 1] = NL
    BY <2>1, <2>2, <2>4
  <2> QED BY <2>5, <2>6, <2>7, <2>8
<1>3. s = t
  OBVIOUS
<1> HIDE DEF s, t
<1>4. Len(x) = Len(y)
  <2>1. Len(x) \in Nat /\ Len(y) \in Nat
    BY <1>1
  <2>2. ~(Len(x) < Len(y))
    <3>1. SUFFICES ASSUME Len(x) < Len(y) PROVE FALSE
      OBVIOUS
    <3>2. Len(x) + 1 \in 1..Len(y)
      BY <2>1, <3>1
    <3> QED BY <1>2, <1>3, <3>2
  <2>3. ~(Len(y) < Len(x))
    <3>1. SUFFICES ASSUME Len(y) < Len(x) PROVE FALSE
      OBVIOUS
    <3>2. Len(y) + 1 \in 1..Len(x)
      BY <2>1, <3>1
    <3> QED BY <1>2, <1>3, <3>2
  <2> QED BY <2>1, <2>2, <2>3
<1>5. \A i \in 1..Len(x) : x[i] = y[i]
  BY <1>2, <1>3, <1>4
<1> QED BY <1>1, <1>4, <1>5, SeqEqual

\* Lines can be read off their bytes in one way only.
LEMMA Decoding ==
  ASSUME NEW a \in Seq(Plain), NEW b \in Seq(Plain), NEW r \in Seq(Byte),
         Joined(a) \o r = Joined(b)
  PROVE  \E c \in Seq(Plain) : b = a \o c
<1> DEFINE Starts(d) == \A q \in Seq(Byte) : Joined(d) \o q = Joined(b)
                                               => \E c \in Seq(Plain) : b = d \o c
           T == {n \in Nat : \E d \in Seq(Plain) : Len(d) = n /\ ~Starts(d)}
<1>0. \A s \in Seq(Plain) : s \in Seq(Seq(Byte))
  BY DEF Plain
<1>1. ASSUME NEW n, n \in T, \A k \in T : n <= k
      PROVE  FALSE
  <2>1. PICK d \in Seq(Plain) : Len(d) = n /\ ~Starts(d)
    BY <1>1
  <2>2. PICK q \in Seq(Byte) : Joined(d) \o q = Joined(b) /\ ~\E c \in Seq(Plain) : b = d \o c
    BY <2>1
  <2>3. CASE d = <<>>
    <3>1. d \o b = b
      BY <2>3, ConcatEmptySeq
    <3> QED BY <2>2, <3>1
  <2>4. CASE d # <<>>
    <3>1. PICK e \in Seq(Plain), x \in Plain : d = Append(e, x)
      BY <2>4, SequenceEmptyOrAppend
    <3>2. Len(e) \in Nat /\ ~(n <= Len(e))
      BY <2>1, <3>1, AppendProperties
    <3>3. Starts(e)
      <4> HIDE DEF Starts
      <4> QED BY <1>1, <3>2
    <3> DEFINE p == Append(x, NL)
    <3>4. /\ x \in Seq(Byte) /\ p \in Seq(Byte) /\ p \o q \in Seq(Byte)
          /\ Joined(e) \in Seq(Byte) /\ e \in Seq(Seq(Byte))
      BY <1>0, JoinedType, AppendProperties, ConcatProperties DEF Byte, Plain
    <3>5. Joined(d) = Joined(e) \o p
      BY <3>1, <3>4, JoinedAppend
    <3>6. Joined(e) \o (p \o q) = Joined(b)
      <4>1. (Joined(e) \o p) \o q = Joined(e) \o (p \o q)
        <5> HIDE DEF p, T, Starts
        <5> QED BY <3>4, BytesAssociate
      <4> QED BY <2>2, <3>5, <4>1
    <3>7. PICK c \in Seq(Plain) : b = e \o c
      BY <3>3, <3>4, <3>6
    <3>8. Joined(b) = Joined(e) \o Joined(c) /\ Joined(c) \in Seq(Byte)
      BY <1>0, <3>4, <3>7, JoinedConcat, JoinedType
    <3>9. p \o q = Joined(c)
      <4> DEFINE k == Joined(e)
                 v == p \o q
                 w == Joined(c)
      <4>1. k \in Seq(Byte) /\ v \in Seq(Byte) /\ w \in Seq(Byte) /\ k \o v = k \o w
        BY <3>4, <3>6, <3>8
      <4> HIDE DEF k, v, w, T, Starts
      <4>2. v = w
        BY <4>1, BytesCancel
      <4> QED BY <4>2 DEF v, w
    <3>10. c # <<>>
      <4>1. Len(p \o q) = Len(x) + 1 + Len(q)
        BY <3>4, AppendProperties, ConcatProperties
      <4>2. Len(x) + 1 + Len(q) # 0
        BY <3>4
      <4> QED BY <3>9, <4>1, <4>2, JoinedEmpty
    <3> DEFINE h == Head(c)
               u == Tail(c)
    <3>11. h \in Plain /\ u \in Seq(Plain) /\ c = <<h>> \o u /\ <<h>> \in Seq(Plain) /\ h \in Seq(Byte)
      <4>1. h \in Plain /\ u \in Seq(Plain) /\ c = <<h>> \o u
        BY <3>10, HeadTailProperties
      <4> QED BY <4>1 DEF Plain
    <3> HIDE DEF h, u
    <3>12. Joined(c) = Append(h, NL) \o Joined(u) /\ Joined(u) \in Seq(Byte)
      <4>1. Joined(<<h>> \o u) = Joined(<<h>>) \o Joined(u)
        BY <1>0, <3>11, JoinedConcat
      <4> QED BY <1>0, <3>11, <4>1, JoinedOne, JoinedType
    <3>13. x = h
      BY <3>9, <3>11, <3>12, SameFirst
    <3>14. b = d \o u
      <4>1. (e \o <<x>>) \o u = e \o (<<x>> \o u)
        BY <3>11, <3>13, ConcatAssociative
      <4>2. e \o <<x>> = d
        BY <3>1, AppendIsConcat
      <4> QED BY <3>7, <3>11, <3>13, <4>1, <4>2
    <3> QED BY <2>2, <3>11, <3>14
  <2> QED BY <2>3, <2>4
<1>2. T = {}
  <2> HIDE DEF T
  <2>1. T \in SUBSET Nat
    BY DEF T
  <2> QED BY <1>1, <2>1, Least
<1>3. Starts(a)
  <2> HIDE DEF Starts
  <2>1. Len(a) \in Nat
    OBVIOUS
  <2> QED BY <1>2, <2>1
<1> QED BY <1>3

-----------------------------------------------------------------------------
(* The first line of a buffer *)

LEMMA FindIs ==
  ASSUME NEW b \in Seq(Byte)
  PROVE  \/ Find(b) = 0 /\ \A i \in 1..Len(b) : b[i] # NL
         \/ /\ Find(b) \in 1..Len(b) /\ b[Find(b)] = NL
            /\ \A i \in 1..(Find(b) - 1) : b[i] # NL
<1> DEFINE I == {i \in 1..Len(b) : b[i] = NL}
<1>1. Find(b) = IF I # {} THEN Min(I) ELSE 0
  BY DEF Find, SelectInSeq
<1>2. CASE I = {}
  BY <1>1, <1>2
<1>3. CASE I # {}
  <2>1. PICK m \in I : \A k \in I : m <= k
    <3> HIDE DEF I
    <3>1. I \in SUBSET Nat
      BY DEF I
    <3> QED BY <1>3, <3>1, Least
  <2>2. Min(I) \in I /\ \A k \in I : Min(I) <= k
    <3> HIDE DEF I
    <3> QED BY <2>1 DEF Min
  <2>3. Find(b) = Min(I)
    BY <1>1, <1>3
  <2>4. Find(b) \in 1..Len(b) /\ b[Find(b)] = NL
    BY <2>2, <2>3
  <2>5. ASSUME NEW i \in 1..(Find(b) - 1)
        PROVE  b[i] # NL
    <3>1. Len(b) \in Nat
      OBVIOUS
    <3> HIDE DEF I
    <3>2. i \in 1..Len(b) /\ ~(Find(b) <= i)
      BY <2>4, <3>1
    <3>3. i \notin I
      BY <2>2, <2>3, <3>2
    <3> QED BY <3>2, <3>3 DEF I
  <2> QED BY <2>4, <2>5
<1> QED BY <1>2, <1>3

LEMMA SplitLine ==
  ASSUME NEW b \in Seq(Byte), Find(b) > 0
  PROVE  /\ FirstLine(b) \in Plain /\ RestLines(b) \in Seq(Byte)
         /\ b = Append(FirstLine(b), NL) \o RestLines(b)
<1> DEFINE n == Find(b)
<1>1. n \in 1..Len(b) /\ b[n] = NL /\ \A i \in 1..(n - 1) : b[i] # NL
  BY FindIs
<1> HIDE DEF n
<1>2. \A i \in 1..Len(b) : b[i] \in Byte
  BY ElementOfSeq
<1>3. /\ SubSeq(b, 1, n - 1) \in Seq(Byte) /\ Len(SubSeq(b, 1, n - 1)) = n - 1
      /\ \A i \in 1..(n - 1) : SubSeq(b, 1, n - 1)[i] = b[i]
      /\ SubSeq(b, n + 1, Len(b)) \in Seq(Byte)
  BY <1>1, <1>2, SubSeqProperties
<1>4. SubSeq(b, 1, n - 1) \in Plain
  <2>1. DOMAIN SubSeq(b, 1, n - 1) = 1..(n - 1)
    BY <1>3
  <2> QED BY <1>1, <1>3, <2>1 DEF Plain
<1>5. Append(SubSeq(b, 1, n - 1), NL) = SubSeq(b, 1, n)
  <2>1. /\ SubSeq(b, 1, n) \in Seq(Byte) /\ Len(SubSeq(b, 1, n)) = n
        /\ \A i \in 1..n : SubSeq(b, 1, n)[i] = b[i]
    BY <1>1, <1>2, SubSeqProperties
  <2>2. /\ Append(SubSeq(b, 1, n - 1), NL) \in Seq(Byte)
        /\ Len(Append(SubSeq(b, 1, n - 1), NL)) = n
        /\ \A i \in 1..n : Append(SubSeq(b, 1, n - 1), NL)[i] = b[i]
    BY <1>1, <1>3, AppendProperties DEF Byte
  <2> QED BY <2>1, <2>2, SeqEqual
<1>6. SubSeq(b, 1, n) \o SubSeq(b, n + 1, Len(b)) = b
  <2>1. SubSeq(b, 1, n) \o SubSeq(b, n + 1, Len(b)) = SubSeq(b, 1, Len(b))
    BY <1>1, ConcatAdjacentSubSeq
  <2>2. SubSeq(b, 1, Len(b)) = b
    BY SubSeqFull
  <2> QED BY <2>1, <2>2
<1> QED BY <1>3, <1>4, <1>5, <1>6 DEF FirstLine, RestLines, n

-----------------------------------------------------------------------------
(* What the parts of the connection hold *)

LEMMA BytesSplit ==
  ASSUME NEW b \in Seq(Byte), NEW n \in 0..Len(b)
  PROVE  /\ SubSeq(b, 1, n) \in Seq(Byte) /\ Len(SubSeq(b, 1, n)) = n
         /\ SubSeq(b, n + 1, Len(b)) \in Seq(Byte) /\ Len(SubSeq(b, n + 1, Len(b))) = Len(b) - n
         /\ b = SubSeq(b, 1, n) \o SubSeq(b, n + 1, Len(b))
<1>1. Len(b) \in Nat /\ \A i \in 1..Len(b) : b[i] \in Byte
  BY ElementOfSeq
<1>2. SubSeq(b, 1, n) \in Seq(Byte) /\ Len(SubSeq(b, 1, n)) = n
  BY <1>1, SubSeqProperties
<1>3. SubSeq(b, n + 1, Len(b)) \in Seq(Byte) /\ Len(SubSeq(b, n + 1, Len(b))) = Len(b) - n
  BY <1>1, SubSeqProperties
<1>4. SubSeq(b, 1, n) \o SubSeq(b, n + 1, Len(b)) = SubSeq(b, 1, Len(b))
  <2>1. 1 \in 1..(Len(b) + 1) /\ n \in (1 - 1)..Len(b) /\ Len(b) \in n..Len(b)
    BY <1>1
  <2> QED BY <2>1, ConcatAdjacentSubSeq
<1>5. SubSeq(b, 1, Len(b)) = b
  BY SubSeqFull
<1> QED BY <1>2, <1>3, <1>4, <1>5

LEMMA RecvSplits ==
  ASSUME NEW b \in Seq(Byte), NEW got \in RecvOf(b)
  PROVE  got \in Seq(Byte) /\ After(b, got) \in Seq(Byte) /\ b = got \o After(b, got)
<1>1. PICK n \in 1..Len(b) : got = SubSeq(b, 1, n)
  BY DEF RecvOf
<1> QED BY <1>1, BytesSplit DEF After

\* No text of the program holds a newline.
LEMMA PlainTexts ==
  /\ Auth \in Plain /\ ChatLine \in Plain /\ Commands \subseteq Plain
  /\ TooLong \in Plain /\ AuthSuccess \in Plain /\ OtherReply \in Plain
<1>1. ASSUME NEW m \in Commands \cup {Auth, ChatLine}
      PROVE  m \in Plain
  <2>1. m \in Seq(STRING) /\ \A i \in DOMAIN m : m[i] # NL
    BY WireAssumption
  <2>2. DOMAIN m = 1..Len(m) /\ \A i \in DOMAIN m : m[i] \in Byte
    BY <2>1 DEF Byte
  <2>3. m \in Seq(Byte)
    <3>1. m = [i \in 1..Len(m) |-> m[i]] /\ Len(m) \in Nat
      BY <2>1
    <3> QED BY <2>2, <3>1
  <2> QED BY <2>1, <2>3 DEF Plain
<1>2. TooLong \in Plain /\ AuthSuccess \in Plain /\ OtherReply \in Plain
  <2>1. NL \in Byte /\ {"too", "long", "o", "k", "re"} \subseteq Byte \ {NL}
    BY DEF Byte, NL
  <2>2. ASSUME NEW x \in Byte \ {NL}, NEW y \in Byte \ {NL}
        PROVE  <<x>> \in Plain /\ <<x, y>> \in Plain
    <3>1. <<x>> \in Seq(Byte) /\ <<x, y>> \in Seq(Byte)
      OBVIOUS
    <3>2. DOMAIN <<x>> = {1} /\ DOMAIN <<x, y>> = {1, 2}
      OBVIOUS
    <3>3. \A i \in DOMAIN <<x>> : <<x>>[i] # NL
      BY <3>2
    <3>4. \A i \in DOMAIN <<x, y>> : <<x, y>>[i] # NL
      BY <3>2
    <3> QED BY <3>1, <3>3, <3>4 DEF Plain
  <2>3. <<"too", "long">> \in Plain /\ <<"o", "k">> \in Plain /\ <<"re">> \in Plain
    <3>1. /\ "too" \in Byte \ {NL} /\ "long" \in Byte \ {NL} /\ "re" \in Byte \ {NL}
          /\ "o" \in Byte \ {NL} /\ "k" \in Byte \ {NL}
      BY <2>1
    <3> QED BY <2>2, <3>1
  <2> QED BY <2>3 DEF TooLong, AuthSuccess, OtherReply
<1> QED BY <1>1, <1>2

\* A text without a newline is plain, and so is the text of a line and its reply.
LEMMA PlainIsBytes ==
  ASSUME NEW m \in Plain
  PROVE  m \in Seq(Byte) /\ Append(m, NL) \in Seq(Byte) /\ Len(Append(m, NL)) = Len(m) + 1
<1>1. m \in Seq(Byte) /\ NL \in Byte
  BY DEF Plain, Byte
<1> QED BY <1>1, AppendProperties

\* The text of a line is the line, or the line without the carriage return at its end.
LEMMA TextOfLine ==
  ASSUME NEW m \in Plain
  PROVE  /\ Text(m) \in Plain
         /\ Text(m) = m \/ m = Append(Text(m), CR)
<1>1. CASE Text(m) = m
  BY <1>1
<1>2. CASE Text(m) # m
  <2> DEFINE n == Len(m) - 1
             f == SubSeq(m, 1, n)
  <2>1. /\ m \in Seq(Byte) /\ \A i \in DOMAIN m : m[i] # NL
        /\ m # <<>> /\ Last(m) = CR /\ Text(m) = Front(m)
    BY <1>2 DEF Text, Plain
  <2>2. Len(m) \in Nat /\ Len(m) # 0 /\ \A i \in 1..Len(m) : m[i] \in Byte /\ m[i] # NL
    <3>1. Len(m) \in Nat /\ DOMAIN m = 1..Len(m)
      BY <2>1
    <3>2. Len(m) # 0
      BY <2>1, EmptySeq
    <3> QED BY <2>1, <3>1, <3>2, ElementOfSeq
  <2>3. n \in Nat /\ Len(m) = n + 1 /\ \A i \in 1..n : m[i] \in Byte
    BY <2>2
  <2>4. f \in Seq(Byte) /\ Len(f) = n /\ \A i \in 1..n : f[i] = m[i]
    <3> HIDE DEF n
    <3>1. /\ f \in Seq(Byte)
          /\ Len(f) = IF 1 <= n THEN n - 1 + 1 ELSE 0
          /\ \A i \in 1..(n - 1 + 1) : f[i] = m[1 + i - 1]
      BY <2>3, SubSeqProperties
    <3> HIDE DEF f
    <3> QED BY <2>3, <3>1
  <2> HIDE DEF n, f
  <2>5. f \in Plain
    <3>1. DOMAIN f = 1..n
      BY <2>4
    <3> QED BY <2>2, <2>3, <2>4, <3>1 DEF Plain
  <2>6. Text(m) = f
    BY <2>1 DEF Front, f, n
  <2>7. CR \in Byte /\ m[n + 1] = CR
    BY <2>1, <2>3 DEF Last, CR, Byte
  <2>8. /\ Append(f, CR) \in Seq(Byte) /\ Len(Append(f, CR)) = n + 1 /\ Append(f, CR)[n + 1] = CR
        /\ \A i \in 1..n : Append(f, CR)[i] = f[i]
    BY <2>4, <2>7, AppendProperties
  <2>9. m = Append(f, CR)
    BY <2>1, <2>3, <2>4, <2>7, <2>8, SeqEqual
  <2> QED BY <2>5, <2>6, <2>9
<1> QED BY <1>1, <1>2

LEMMA LinesAreBytes == \A s \in Seq(Plain) : s \in Seq(Seq(Byte))
BY DEF Plain

-----------------------------------------------------------------------------
(* Commands, from the client's send to the loop of handleClient *)

\* What handleClient makes of commands.
Outcomes(raws) == [i \in 1..Len(raws) |-> Outcome(raws[i])]

\* The commands taken so far, with the bytes under way, are the commands sent.  A client
\* that sends no newline never has a command taken.
CommandStream(raws) ==
  IF Newline THEN Joined(raws) \o (lineBuffer \o up) = Joined(sent)
  ELSE raws = <<>> /\ lineBuffer \o up \in Plain

CommandsInv ==
  /\ sent \in Seq(Plain) /\ up \in Seq(Byte) /\ lineBuffer \in Seq(Byte)
  /\ \E raws \in Seq(Plain) : handled = Outcomes(raws) /\ CommandStream(raws)

LEMMA OutcomesAppend ==
  ASSUME NEW raws \in Seq(Plain), NEW m \in Plain
  PROVE  Append(Outcomes(raws), Outcome(m)) = Outcomes(Append(raws, m))
<1> DEFINE R == {Outcome(x) : x \in Plain}
           a == Append(Outcomes(raws), Outcome(m))
           c == Outcomes(Append(raws, m))
<1>1. Outcomes(raws) \in Seq(R) /\ Outcome(m) \in R /\ Len(Outcomes(raws)) = Len(raws)
  BY DEF Outcomes
<1>2. /\ Append(raws, m) \in Seq(Plain) /\ Len(Append(raws, m)) = Len(raws) + 1
      /\ Append(raws, m)[Len(raws) + 1] = m /\ \A i \in 1..Len(raws) : Append(raws, m)[i] = raws[i]
  BY AppendProperties
<1>3. c \in Seq(R) /\ Len(c) = Len(raws) + 1
  BY <1>2 DEF Outcomes
<1>4. /\ a \in Seq(R) /\ Len(a) = Len(raws) + 1 /\ a[Len(raws) + 1] = Outcome(m)
      /\ \A i \in 1..Len(raws) : a[i] = Outcomes(raws)[i]
  <2> HIDE DEF R
  <2> QED BY <1>1, AppendProperties
<1>5. \A i \in 1..Len(a) : a[i] = c[i]
  <2> HIDE DEF a
  <2> QED BY <1>2, <1>4 DEF Outcomes
<1> HIDE DEF R, a, c
<1>6. a = c
  BY <1>3, <1>4, <1>5, SeqEqual
<1> QED BY <1>6 DEF a, c

LEMMA CommandsInit == Init => CommandsInv
<1> SUFFICES ASSUME Init PROVE CommandsInv
  OBVIOUS
<1>1. <<>> \in Seq(Plain) /\ <<>> \in Seq(Byte) /\ handled = Outcomes(<<>>)
  BY DEF Init, Outcomes
<1>2. <<>> \o <<>> = <<>> /\ <<>> \in Plain
  BY ConcatEmptySeq DEF Plain
<1>3. CommandStream(<<>>)
  BY <1>2, JoinedEmpty DEF CommandStream, Init
<1> QED BY <1>1, <1>3 DEF CommandsInv, Init

LEMMA PlainBytes ==
  ASSUME NEW s \in Seq(Byte), NEW n \in Nat, Len(s) = n
  PROVE  s \in Plain <=> \A i \in 1..n : s[i] # NL
<1>1. DOMAIN s = 1..n
  OBVIOUS
<1> QED BY <1>1 DEF Plain

LEMMA PlainConcat ==
  ASSUME NEW a \in Seq(Byte), NEW c \in Seq(Byte)
  PROVE  a \o c \in Plain <=> a \in Plain /\ c \in Plain
<1>0. Len(a) + Len(c) \in Nat
  OBVIOUS
<1>1. /\ a \o c \in Seq(Byte) /\ Len(a \o c) = Len(a) + Len(c) /\ Len(a) \in Nat /\ Len(c) \in Nat
      /\ \A i \in 1..(Len(a) + Len(c)) : (a \o c)[i] = IF i <= Len(a) THEN a[i] ELSE c[i - Len(a)]
  BY ConcatProperties
<1>2. ASSUME a \o c \in Plain
      PROVE  a \in Plain /\ c \in Plain
  <2>1. \A i \in 1..(Len(a) + Len(c)) : (a \o c)[i] # NL
    BY <1>0, <1>1, <1>2, PlainBytes
  <2>2. ASSUME NEW i \in 1..Len(a) PROVE a[i] # NL
    <3>1. i \in 1..(Len(a) + Len(c)) /\ i <= Len(a)
      BY <1>1
    <3> QED BY <1>1, <2>1, <3>1
  <2>3. ASSUME NEW i \in 1..Len(c) PROVE c[i] # NL
    <3>1. i + Len(a) \in 1..(Len(a) + Len(c)) /\ ~(i + Len(a) <= Len(a)) /\ i + Len(a) - Len(a) = i
      BY <1>1
    <3> QED BY <1>1, <2>1, <3>1
  <2> QED BY <2>2, <2>3 DEF Plain
<1>3. ASSUME a \in Plain, c \in Plain
      PROVE  a \o c \in Plain
  <2>1. ASSUME NEW i \in 1..(Len(a) + Len(c)) PROVE (a \o c)[i] # NL
    <3>1. CASE i <= Len(a)
      BY <1>1, <1>3, <3>1 DEF Plain
    <3>2. CASE ~(i <= Len(a))
      <4>1. i - Len(a) \in 1..Len(c)
        BY <1>1, <3>2
      <4>2. c[i - Len(a)] # NL
        BY <1>3, <4>1 DEF Plain
      <4> QED BY <1>1, <3>2, <4>2
    <3> QED BY <3>1, <3>2
  <2> QED BY <1>0, <1>1, <2>1, PlainBytes
<1> QED BY <1>2, <1>3

\* Bytes that move from one part of the stream to the next change nothing of it.
LEMMA RecvKeepsCommands ==
  ASSUME CommandsInv, ServerRecv
  PROVE  CommandsInv'
<1>1. PICK raws \in Seq(Plain) : handled = Outcomes(raws) /\ CommandStream(raws)
  BY DEF CommandsInv
<1>2. sent \in Seq(Plain) /\ up \in Seq(Byte) /\ lineBuffer \in Seq(Byte)
  BY DEF CommandsInv
<1>3. PICK got \in RecvOf(up) : up' = After(up, got) /\ lineBuffer' = lineBuffer \o got
  BY DEF ServerRecv, Extend
<1>4. sent' = sent /\ handled' = handled
  BY DEF ServerRecv, clientVars
<1>5. got \in Seq(Byte) /\ up' \in Seq(Byte) /\ up = got \o up'
  BY <1>2, <1>3, RecvSplits
<1>6. lineBuffer' \in Seq(Byte) /\ lineBuffer' \o up' = lineBuffer \o up
  <2>1. lineBuffer \o got \in Seq(Byte)
    BY <1>2, <1>5, ConcatProperties
  <2>2. (lineBuffer \o got) \o up' = lineBuffer \o (got \o up')
    BY <1>2, <1>5, BytesAssociate
  <2> QED BY <1>3, <1>5, <2>1, <2>2
<1>7. CommandStream(raws)'
  BY <1>1, <1>4, <1>6 DEF CommandStream
<1> QED BY <1>1, <1>2, <1>4, <1>5, <1>6, <1>7 DEF CommandsInv

\* The loop takes the next command of the stream.
LEMMA LineKeepsCommands ==
  ASSUME CommandsInv, ServerLine
  PROVE  CommandsInv'
<1>1. PICK raws \in Seq(Plain) : handled = Outcomes(raws) /\ CommandStream(raws)
  BY DEF CommandsInv
<1>2. sent \in Seq(Plain) /\ up \in Seq(Byte) /\ lineBuffer \in Seq(Byte)
  BY DEF CommandsInv
<1>0. PICK m, rest : m = FirstLine(lineBuffer) /\ rest = RestLines(lineBuffer)
  OBVIOUS
<1> DEFINE p == Append(m, NL)
<1>3. /\ Find(lineBuffer) > 0 /\ handled' = Append(handled, Outcome(m)) /\ lineBuffer' = rest
      /\ sent' = sent /\ up' = up
  BY <1>0 DEF ServerLine, clientVars
<1>4. m \in Plain /\ rest \in Seq(Byte) /\ lineBuffer = p \o rest
  BY <1>0, <1>2, <1>3, SplitLine
<1>5. p \in Seq(Byte) /\ p \notin Plain
  <2>1. m \in Seq(Byte) /\ NL \in Byte
    BY <1>4 DEF Plain, Byte
  <2>2. p \in Seq(Byte) /\ Len(m) + 1 \in 1..Len(p) /\ p[Len(m) + 1] = NL
    BY <2>1, AppendProperties
  <2>3. DOMAIN p = 1..Len(p)
    BY <2>2
  <2> QED BY <2>2, <2>3 DEF Plain
<1> HIDE DEF p
<1>6. Newline
  <2> SUFFICES ASSUME ~Newline PROVE FALSE
    OBVIOUS
  <2>1. lineBuffer \in Plain
    BY <1>1, <1>2, PlainConcat DEF CommandStream
  <2> QED BY <1>4, <1>5, <2>1, PlainConcat
<1>7. Append(raws, m) \in Seq(Plain) /\ handled' = Outcomes(Append(raws, m))
  BY <1>1, <1>3, <1>4, OutcomesAppend, AppendProperties
<1>8. CommandStream(Append(raws, m))'
  <2>1. raws \in Seq(Seq(Byte)) /\ m \in Seq(Byte) /\ Joined(raws) \in Seq(Byte)
    BY <1>4, LinesAreBytes, JoinedType DEF Plain
  <2> DEFINE j == Joined(raws)
  <2>2. Joined(Append(raws, m)) = j \o p
    BY <2>1, JoinedAppend DEF p
  <2> HIDE DEF j
  <2>3. j \in Seq(Byte)
    BY <2>1 DEF j
  <2>4. (j \o p) \o (rest \o up) = j \o (p \o (rest \o up))
    <3>1. rest \o up \in Seq(Byte)
      BY <1>2, <1>4, ConcatProperties
    <3> QED BY <1>5, <2>3, <3>1, BytesAssociate
  <2>5. (p \o rest) \o up = p \o (rest \o up)
    BY <1>2, <1>4, <1>5, BytesAssociate
  <2>6. j \o (lineBuffer \o up) = Joined(sent)
    BY <1>1, <1>6 DEF CommandStream, j
  <2>7. Joined(Append(raws, m)) \o (lineBuffer' \o up') = Joined(sent)
    BY <1>3, <1>4, <2>2, <2>4, <2>5, <2>6
  <2> QED BY <1>3, <1>6, <2>7 DEF CommandStream
<1>9. lineBuffer' \in Seq(Byte) /\ sent' \in Seq(Plain) /\ up' \in Seq(Byte)
  BY <1>2, <1>3, <1>4
<1> QED BY <1>7, <1>8, <1>9 DEF CommandsInv

\* The client's next command goes to the end of the stream.
LEMMA SendKeepsCommands ==
  ASSUME CommandsInv, NEW m \in Plain, ClientSend(m)
  PROVE  CommandsInv'
<1>1. PICK raws \in Seq(Plain) : handled = Outcomes(raws) /\ CommandStream(raws)
  BY DEF CommandsInv
<1>2. sent \in Seq(Plain) /\ up \in Seq(Byte) /\ lineBuffer \in Seq(Byte)
  BY DEF CommandsInv
<1>3. /\ sent' = Append(sent, m) /\ up' = up \o Wire(m)
      /\ lineBuffer' = lineBuffer /\ handled' = handled
  BY DEF ClientSend, handleVars
<1>4. Wire(m) \in Seq(Byte) /\ (~Newline => Wire(m) \in Plain)
  BY PlainIsBytes DEF Wire
<1>5. sent' \in Seq(Plain) /\ up' \in Seq(Byte)
  BY <1>2, <1>3, <1>4, AppendProperties, ConcatProperties
<1>6. lineBuffer' \o up' = (lineBuffer \o up) \o Wire(m) /\ lineBuffer \o up \in Seq(Byte)
  <2>1. (lineBuffer \o up) \o Wire(m) = lineBuffer \o (up \o Wire(m))
    BY <1>2, <1>4, BytesAssociate
  <2>2. lineBuffer \o up \in Seq(Byte)
    BY <1>2, ConcatProperties
  <2> QED BY <1>3, <2>1, <2>2
<1>7. CommandStream(raws)'
  <2>1. CASE Newline
    <3> DEFINE j == Joined(raws)
               b == lineBuffer \o up
               p == Append(m, NL)
    <3>1. j \in Seq(Byte) /\ b \in Seq(Byte) /\ p \in Seq(Byte) /\ m \in Seq(Byte)
      BY <1>6, LinesAreBytes, JoinedType, PlainIsBytes
    <3>2. Joined(sent') = Joined(sent) \o p
      BY <1>2, <1>3, <3>1, LinesAreBytes, JoinedAppend
    <3>3. j \o b = Joined(sent)
      BY <1>1, <2>1 DEF CommandStream
    <3>4. lineBuffer' \o up' = b \o p
      BY <1>6, <2>1 DEF Wire
    <3> HIDE DEF j, b, p
    <3>5. (j \o b) \o p = j \o (b \o p)
      BY <3>1, BytesAssociate
    <3>6. j \o (lineBuffer' \o up') = Joined(sent')
      BY <3>2, <3>3, <3>4, <3>5
    <3> QED BY <2>1, <3>6 DEF CommandStream, j
  <2>2. CASE ~Newline
    <3>1. raws = <<>> /\ lineBuffer \o up \in Plain
      BY <1>1, <2>2 DEF CommandStream
    <3>2. (lineBuffer \o up) \o Wire(m) \in Plain
      BY <1>4, <1>6, <2>2, <3>1, PlainConcat
    <3> QED BY <1>6, <2>2, <3>1, <3>2 DEF CommandStream
  <2> QED BY <2>1, <2>2
<1> QED BY <1>1, <1>2, <1>3, <1>5, <1>7 DEF CommandsInv

LEMMA CommandsStep == CommandsInv /\ [Next]_vars => CommandsInv'
<1> SUFFICES ASSUME CommandsInv, [Next]_vars PROVE CommandsInv'
  OBVIOUS
<1>1. CASE ServerRecv
  BY <1>1, RecvKeepsCommands
<1>2. CASE ServerLine
  BY <1>2, LineKeepsCommands
<1>3. CASE SendAuth
  BY <1>3, PlainTexts, SendKeepsCommands DEF SendAuth
<1>4. CASE SendCommand
  BY <1>4, PlainTexts, SendKeepsCommands DEF SendCommand
<1>5. CASE UNCHANGED <<sent, up, lineBuffer, handled>>
  BY <1>5 DEF CommandsInv, CommandStream
<1>6. CASE \/ ServerNoLine \/ \E t \in Threads : OtherLine(t) \/ SendSome(t)
           \/ AuthRecv \/ AuthTimesOut \/ ClientRecv \/ ClientLine \/ UNCHANGED vars
  <2>1. UNCHANGED <<sent, up, lineBuffer, handled>>
    BY <1>6 DEF ServerNoLine, OtherLine, SendSome, AuthRecv, AuthTimesOut, ClientRecv, ClientLine,
                vars, clientVars, handleVars
  <2> QED BY <1>5, <2>1
<1> QED BY <1>1, <1>2, <1>3, <1>4, <1>6 DEF Next, ServerStep

LEMMA CommandsInvImplies == CommandsInv => CommandsWhole
<1> SUFFICES ASSUME CommandsInv PROVE CommandsWhole
  OBVIOUS
<1>1. PICK raws \in Seq(Plain) : handled = Outcomes(raws) /\ CommandStream(raws)
  BY DEF CommandsInv
<1>2. sent \in Seq(Plain) /\ lineBuffer \o up \in Seq(Byte)
  BY ConcatProperties DEF CommandsInv
<1>3. PICK c \in Seq(Plain) : sent = raws \o c
  <2>1. CASE Newline
    BY <1>1, <1>2, <2>1, Decoding DEF CommandStream
  <2>2. CASE ~Newline
    <3>1. raws = <<>> /\ <<>> \o sent = sent
      BY <1>1, <1>2, <2>2, ConcatEmptySeq DEF CommandStream
    <3> QED BY <1>2, <3>1
  <2> QED BY <2>1, <2>2
<1> DEFINE o == [i \in DOMAIN sent |-> Outcome(sent[i])]
<1>4. /\ Len(sent) = Len(raws) + Len(c) /\ Len(raws) \in Nat /\ Len(c) \in Nat
      /\ \A i \in 1..Len(raws) : sent[i] = raws[i]
  BY <1>3, ConcatProperties
<1>5. /\ Len(handled) = Len(raws) /\ DOMAIN sent = 1..Len(sent) /\ Len(o) = Len(sent)
      /\ \A i \in 1..Len(raws) : handled[i] = Outcome(raws[i])
      /\ \A i \in 1..Len(sent) : o[i] = Outcome(sent[i])
  BY <1>1, <1>2 DEF Outcomes
<1> HIDE DEF o
<1>6. Len(handled) <= Len(o)
  BY <1>4, <1>5
<1>7. SubSeq(handled, 1, Len(handled)) = SubSeq(o, 1, Len(handled))
  <2> DEFINE n == Len(raws)
             R == {Outcome(x) : x \in Plain}
  <2>1. \A i \in 1..n : handled[i] = o[i] /\ handled[i] \in R /\ o[i] \in R
    BY <1>4, <1>5
  <2>2. n \in Nat
    OBVIOUS
  <2> HIDE DEF n, R
  <2>3. /\ SubSeq(handled, 1, n) \in Seq(R) /\ SubSeq(o, 1, n) \in Seq(R)
        /\ Len(SubSeq(handled, 1, n)) = n /\ Len(SubSeq(o, 1, n)) = n
        /\ \A i \in 1..n : SubSeq(handled, 1, n)[i] = handled[i]
        /\ \A i \in 1..n : SubSeq(o, 1, n)[i] = o[i]
    BY <2>1, <2>2, SubSeqProperties
  <2>4. \A i \in 1..n : SubSeq(handled, 1, n)[i] = SubSeq(o, 1, n)[i]
    BY <2>1, <2>3
  <2>5. SubSeq(handled, 1, n) = SubSeq(o, 1, n)
    BY <2>3, <2>4, SeqEqual
  <2> QED BY <1>5, <2>5 DEF n
<1>8. IsPrefix(handled, o)
  BY <1>6, <1>7 DEF IsPrefix
<1> QED BY <1>8 DEF CommandsWhole, o

\* handleClient handles each command of the client once, in order and whole, however many
\* bytes recv returns, whatever the commands are and however many are sent.
THEOREM CommandsTaken == Spec => []CommandsWhole
<1>1. Spec => []CommandsInv
  BY CommandsInit, CommandsStep, PTL DEF Spec
<1> QED BY <1>1, CommandsInvImplies, PTL

-----------------------------------------------------------------------------
(* Lines, from send_line of several threads to receiveMessages *)

\* A thread has sent a part of its line.
Partial(t) == left[t] > 0 /\ left[t] # Len(line[t])

\* What is left of its line.
Rest(t) == SubSeq(line[t], Len(line[t]) - left[t] + 1, Len(line[t]))

\* Only receiveMessages, which runs once sendAUTH has succeeded, takes lines; what is left
\* to send is the end of a text with its newline.
WireType ==
  /\ line \in [Threads -> Seq(Byte)] /\ left \in [Threads -> Nat]
  /\ \A t \in Threads : left[t] \in 0..Len(line[t])
  /\ \A t \in Threads : left[t] > 0 => \E x \in Plain : line[t] = Append(x, NL)
  /\ begun \in Seq(Plain) /\ received \in Seq(Plain) /\ torn \in BOOLEAN
  /\ down \in Seq(Byte) /\ dropped \in Seq(Byte) /\ incomingBuffer \in Seq(Byte)
  /\ mode \in {"menu", "auth", "chat"}
  /\ mode # "chat" => received = <<>> /\ incomingBuffer = <<>>

LEMMA WireInit == Init => WireType
<1> SUFFICES ASSUME Init PROVE WireType
  OBVIOUS
<1>1. <<>> \in Seq(Byte) /\ <<>> \in Seq(Plain) /\ Len(<<>>) = 0
  OBVIOUS
<1>2. /\ line \in [Threads -> Seq(Byte)] /\ left \in [Threads -> Nat]
      /\ \A t \in Threads : left[t] = 0 /\ line[t] = <<>>
  BY <1>1 DEF Init
<1>3. /\ begun = <<>> /\ received = <<>> /\ torn = FALSE /\ down = <<>> /\ dropped = <<>>
      /\ incomingBuffer = <<>> /\ mode = "menu"
  BY DEF Init
<1>4. \A t \in Threads : left[t] \in 0..Len(line[t])
  BY <1>1, <1>2
<1>5. \A t \in Threads : ~(left[t] > 0)
  BY <1>2
<1>6. begun \in Seq(Plain) /\ received \in Seq(Plain) /\ torn \in BOOLEAN
  BY <1>1, <1>3
<1>7. down \in Seq(Byte) /\ dropped \in Seq(Byte) /\ incomingBuffer \in Seq(Byte)
  BY <1>1, <1>3
<1> QED BY <1>2, <1>3, <1>4, <1>5, <1>6, <1>7 DEF WireType

\* A send_line of t begins: nothing that was partly sent changes.
LEMMA StartLines ==
  ASSUME WireType, NEW t \in Threads, left[t] = 0, NEW x \in Plain, StartLine(t, x)
  PROVE  /\ line' \in [Threads -> Seq(Byte)] /\ left' \in [Threads -> Nat]
         /\ \A u \in Threads : left'[u] \in 0..Len(line'[u])
         /\ \A u \in Threads : left'[u] > 0 => \E y \in Plain : line'[u] = Append(y, NL)
         /\ ~Partial(t) /\ ~Partial(t)'
         /\ \A u \in Threads \ {t} : line'[u] = line[u] /\ left'[u] = left[u]
         /\ begun' = begun /\ torn' = torn
<1>1. Append(x, NL) \in Seq(Byte) /\ Len(Append(x, NL)) = Len(x) + 1 /\ Len(x) \in Nat
  BY PlainIsBytes DEF Plain
<1>2. /\ line' = [line EXCEPT ![t] = Append(x, NL)] /\ left' = [left EXCEPT ![t] = Len(x) + 1]
      /\ begun' = begun /\ torn' = torn
  BY DEF StartLine
<1>3. /\ line' \in [Threads -> Seq(Byte)] /\ left' \in [Threads -> Nat]
      /\ line'[t] = Append(x, NL) /\ left'[t] = Len(x) + 1
      /\ \A u \in Threads \ {t} : line'[u] = line[u] /\ left'[u] = left[u]
  BY <1>1, <1>2 DEF WireType
<1>4. ~Partial(t) /\ ~Partial(t)'
  BY <1>1, <1>3 DEF Partial
<1>5. \A u \in Threads : left'[u] \in 0..Len(line'[u])
  BY <1>1, <1>3 DEF WireType
<1>6. \A u \in Threads : left'[u] > 0 => \E y \in Plain : line'[u] = Append(y, NL)
  BY <1>3 DEF WireType
<1> QED BY <1>2, <1>3, <1>4, <1>5, <1>6

\* The rest of a line, of which n bytes are sent.
LEMMA RestSplits ==
  ASSUME NEW b \in Seq(Byte), NEW k \in 1..Len(b), NEW n \in 1..k
  PROVE  /\ SubSeq(b, Len(b) - k + 1, Len(b) - k + n) \in Seq(Byte)
         /\ SubSeq(b, Len(b) - (k - n) + 1, Len(b)) \in Seq(Byte)
         /\ SubSeq(b, Len(b) - k + 1, Len(b))
              = SubSeq(b, Len(b) - k + 1, Len(b) - k + n) \o SubSeq(b, Len(b) - (k - n) + 1, Len(b))
<1>1. Len(b) \in Nat /\ \A i \in 1..Len(b) : b[i] \in Byte
  BY ElementOfSeq
<1>2. /\ Len(b) - k + 1 \in 1..(Len(b) + 1) /\ Len(b) - k + n \in (Len(b) - k + 1 - 1)..Len(b)
      /\ Len(b) \in (Len(b) - k + n)..Len(b) /\ Len(b) - k + n + 1 = Len(b) - (k - n) + 1
      /\ Len(b) - (k - n) + 1 \in 1..(Len(b) + 1)
  BY <1>1
<1>3. \A m \in 1..(Len(b) + 1), p \in 0..Len(b) : SubSeq(b, m, p) \in Seq(Byte)
  BY <1>1, SubSeqProperties
<1> DEFINE m == Len(b) - k + 1
           p == Len(b) - k + n
           q == Len(b)
<1>4. m \in 1..(Len(b) + 1) /\ p \in (m - 1)..Len(b) /\ q \in p..Len(b) /\ p \in 0..Len(b) /\ q \in 0..Len(b)
  BY <1>1, <1>2
<1> HIDE DEF m, p, q
<1>5. SubSeq(b, m, p) \o SubSeq(b, p + 1, q) = SubSeq(b, m, q)
  BY <1>4, ConcatAdjacentSubSeq
<1>6. SubSeq(b, m, p) \in Seq(Byte)
  BY <1>3, <1>4
<1> QED BY <1>1, <1>2, <1>3, <1>4, <1>5, <1>6 DEF m, p, q

\* One send of thread t: the bytes it takes off what was left of the line.
LEMMA SendTakes ==
  ASSUME WireType, NEW t \in Threads, SendSome(t)
  PROVE  /\ left[t] > 0 /\ line' = line /\ left' \in [Threads -> Nat] /\ left'[t] < left[t]
         /\ \A u \in Threads \ {t} : left'[u] = left[u]
         /\ \E c \in Seq(Byte) : /\ down' = down \o c /\ down' \in Seq(Byte)
                                 /\ Rest(t)' \in Seq(Byte) /\ Rest(t) = c \o Rest(t)'
<1>1. PICK n \in 1..left[t] : down' = down \o Chunk(t, n) /\ left' = [left EXCEPT ![t] = @ - n]
  BY DEF SendSome
<1>2. line' = line
  BY DEF SendSome
<1>3. /\ line[t] \in Seq(Byte) /\ left[t] \in Nat /\ left[t] \in 0..Len(line[t]) /\ Len(line[t]) \in Nat
      /\ down \in Seq(Byte)
  BY DEF WireType
<1>4. left[t] > 0 /\ n \in Nat /\ left[t] - n \in Nat /\ left[t] - n < left[t] /\ left[t] \in 1..Len(line[t])
  BY <1>1, <1>3
<1>5. /\ left' \in [Threads -> Nat] /\ left'[t] = left[t] - n
      /\ \A u \in Threads \ {t} : left'[u] = left[u]
  BY <1>1, <1>4 DEF WireType
<1>6. Chunk(t, n) \in Seq(Byte) /\ Rest(t)' \in Seq(Byte) /\ Rest(t) = Chunk(t, n) \o Rest(t)'
  <2>1. Rest(t)' = SubSeq(line[t], Len(line[t]) - (left[t] - n) + 1, Len(line[t]))
    BY <1>2, <1>5 DEF Rest
  <2> QED BY <1>1, <1>3, <1>4, <2>1, RestSplits DEF Rest, Chunk
<1>7. down' \in Seq(Byte)
  BY <1>1, <1>3, <1>6, ConcatProperties
<1> QED BY <1>1, <1>2, <1>4, <1>5, <1>6, <1>7

LEMMA FrontOfLine ==
  ASSUME NEW x \in Plain
  PROVE  Front(Append(x, NL)) = x
<1>1. x \in Seq(Byte) /\ NL \in Byte /\ Len(x) \in Nat
  BY DEF Plain, Byte
<1>2. /\ Append(x, NL) \in Seq(Byte) /\ Len(Append(x, NL)) = Len(x) + 1
      /\ \A i \in 1..Len(x) : Append(x, NL)[i] = x[i]
  BY <1>1, AppendProperties
<1> DEFINE p == Append(x, NL)
<1> HIDE DEF p
<1>3. Len(p) = Len(x) + 1 /\ \A i \in 1..Len(x) : p[i] = x[i] /\ x[i] \in Byte
  BY <1>1, <1>2 DEF p
<1>4. /\ SubSeq(p, 1, Len(x)) \in Seq(Byte) /\ Len(SubSeq(p, 1, Len(x))) = Len(x)
      /\ \A i \in 1..Len(x) : SubSeq(p, 1, Len(x))[i] = x[i]
  BY <1>1, <1>3, SubSeqProperties
<1>5. SubSeq(p, 1, Len(x)) = x
  BY <1>1, <1>4, SeqEqual
<1>6. Len(p) - 1 = Len(x)
  BY <1>1, <1>3
<1> QED BY <1>5, <1>6 DEF Front, p

LEMMA WireStep == WireType /\ [Next]_vars => WireType'
<1> SUFFICES ASSUME WireType, [Next]_vars PROVE WireType'
  OBVIOUS
<1> USE DEF WireType
<1>1. CASE ServerRecv \/ ServerNoLine \/ UNCHANGED vars
  BY <1>1 DEF ServerRecv, ServerNoLine, vars, clientVars, sendVars
<1>2. ASSUME NEW t \in Threads, NEW x \in Plain, left[t] = 0, StartLine(t, x), UNCHANGED <<clientVars, down>>
      PROVE  WireType'
  <2>1. UNCHANGED <<mode, dropped, incomingBuffer, received, down>>
    BY <1>2 DEF clientVars
  <2> QED BY <1>2, <2>1, StartLines
<1>3. CASE ServerLine
  <2>1. Handler \in Threads
    BY DEF Threads
  <2>2. PICK x \in Plain : StartLine(Handler, x)
    BY <1>3, PlainTexts DEF ServerLine, ReplyTo
  <2> QED BY <1>2, <1>3, <2>1, <2>2 DEF ServerLine
<1>4. ASSUME NEW t \in Threads, OtherLine(t)
      PROVE  WireType'
  BY <1>2, <1>4, PlainTexts DEF OtherLine
<1>5. ASSUME NEW t \in Threads, SendSome(t)
      PROVE  WireType'
  <2>1. /\ left[t] > 0 /\ line' = line /\ left' \in [Threads -> Nat] /\ left'[t] < left[t]
        /\ \A u \in Threads \ {t} : left'[u] = left[u]
        /\ down' \in Seq(Byte)
    BY <1>5, SendTakes
  <2>2. UNCHANGED <<mode, dropped, incomingBuffer, received>>
    BY <1>5 DEF SendSome, clientVars
  <2>3. begun' \in Seq(Plain) /\ torn' \in BOOLEAN
    <3>1. PICK x \in Plain : line[t] = Append(x, NL)
      BY <2>1
    <3>2. Front(line[t]) \in Plain
      BY <3>1, FrontOfLine
    <3>3. Append(begun, Front(line[t])) \in Seq(Plain)
      BY <3>2, AppendProperties
    <3> QED BY <1>5, <3>3 DEF SendSome
  <2>4. \A u \in Threads : left'[u] \in 0..Len(line'[u])
    <3> SUFFICES ASSUME NEW u \in Threads
                 PROVE  left'[u] \in 0..Len(line'[u])
      OBVIOUS
    <3>1. left[u] \in 0..Len(line[u]) /\ line[u] \in Seq(Byte) /\ left[u] \in Nat
      OBVIOUS
    <3>2. left'[u] \in Nat /\ left'[u] <= left[u]
      <4>1. CASE u = t
        BY <2>1, <4>1
      <4>2. CASE u # t
        BY <2>1, <3>1, <4>2
      <4> QED BY <4>1, <4>2
    <3> QED BY <2>1, <3>1, <3>2
  <2>5. \A u \in Threads : left'[u] > 0 => \E x \in Plain : line'[u] = Append(x, NL)
    <3> SUFFICES ASSUME NEW u \in Threads, left'[u] > 0
                 PROVE  \E x \in Plain : line'[u] = Append(x, NL)
      OBVIOUS
    <3>1. left[u] > 0
      BY <2>1
    <3> QED BY <2>1, <3>1
  <2> QED BY <2>1, <2>2, <2>3, <2>4, <2>5
<1>6. ASSUME NEW m, ClientSend(m), mode' \in {"menu", "auth", "chat"}, mode' # "chat" => mode # "chat"
      PROVE  WireType'
  BY <1>6 DEF ClientSend, sendVars
<1>7. CASE SendAuth \/ SendCommand
  <2>1. CASE SendAuth
    BY <1>6, <2>1 DEF SendAuth
  <2>2. CASE SendCommand
    BY <1>6, <2>2 DEF SendCommand
  <2> QED BY <1>7, <2>1, <2>2
<1>8. CASE AuthRecv
  <2>1. PICK got \in RecvOf(down) : down' = After(down, got) /\ dropped' = dropped \o got
    BY <1>8 DEF AuthRecv
  <2>2. down' \in Seq(Byte) /\ dropped' \in Seq(Byte)
    BY <2>1, RecvSplits, ConcatProperties
  <2>3. mode = "auth" /\ mode' \in {"menu", "chat"} /\ UNCHANGED <<incomingBuffer, received, line, left, begun, torn>>
    BY <1>8 DEF AuthRecv, sendVars
  <2> QED BY <2>2, <2>3
<1>9. CASE AuthTimesOut
  BY <1>9 DEF AuthTimesOut, sendVars
<1>10. CASE ClientRecv
  <2>1. PICK got \in RecvOf(down) : down' = After(down, got) /\ incomingBuffer' = incomingBuffer \o got
    BY <1>10 DEF ClientRecv
  <2>2. down' \in Seq(Byte) /\ incomingBuffer' \in Seq(Byte)
    BY <2>1, RecvSplits, ConcatProperties
  <2>3. mode = "chat" /\ UNCHANGED <<mode, dropped, received, line, left, begun, torn>>
    BY <1>10 DEF ClientRecv, sendVars
  <2> QED BY <2>2, <2>3
<1>11. CASE ClientLine
  <2>1. /\ Find(incomingBuffer) > 0 /\ received' = Append(received, Text(FirstLine(incomingBuffer)))
        /\ incomingBuffer' = RestLines(incomingBuffer)
        /\ UNCHANGED <<mode, dropped, line, left, begun, torn, down>>
    BY <1>11 DEF ClientLine, sendVars
  <2>2. mode = "chat"
    <3> SUFFICES ASSUME mode # "chat" PROVE FALSE
      OBVIOUS
    <3>1. incomingBuffer = <<>>
      OBVIOUS
    <3>2. Find(incomingBuffer) \in 1..Len(incomingBuffer)
      <4>1. incomingBuffer \in Seq(Byte) /\ Find(incomingBuffer) # 0
        BY <2>1
      <4> QED BY <4>1, FindIs
    <3>3. Len(incomingBuffer) = 0
      BY <3>1
    <3> QED BY <3>2, <3>3
  <2>3. received' \in Seq(Plain) /\ incomingBuffer' \in Seq(Byte)
    BY <2>1, SplitLine, TextOfLine, AppendProperties
  <2> QED BY <2>1, <2>2, <2>3
<1> QED BY <1>1, <1>3, <1>4, <1>5, <1>7, <1>8, <1>9, <1>10, <1>11 DEF Next, ServerStep

\* The texts of lines.
Texts(cut) == [i \in 1..Len(cut) |-> Text(cut[i])]

LEMMA TextsAppend ==
  ASSUME NEW cut \in Seq(Plain), NEW m \in Plain
  PROVE  Append(Texts(cut), Text(m)) = Texts(Append(cut, m))
<1> DEFINE a == Append(Texts(cut), Text(m))
           c == Texts(Append(cut, m))
<1>1. Texts(cut) \in Seq(Plain) /\ Text(m) \in Plain /\ Len(Texts(cut)) = Len(cut)
  BY TextOfLine DEF Texts
<1>2. /\ Append(cut, m) \in Seq(Plain) /\ Len(Append(cut, m)) = Len(cut) + 1
      /\ Append(cut, m)[Len(cut) + 1] = m /\ \A i \in 1..Len(cut) : Append(cut, m)[i] = cut[i]
  BY AppendProperties
<1>3. c \in Seq(Plain) /\ Len(c) = Len(cut) + 1
  BY <1>2, TextOfLine DEF Texts
<1>4. /\ a \in Seq(Plain) /\ Len(a) = Len(cut) + 1 /\ a[Len(cut) + 1] = Text(m)
      /\ \A i \in 1..Len(cut) : a[i] = Texts(cut)[i]
  BY <1>1, AppendProperties
<1>5. \A i \in 1..Len(a) : a[i] = c[i]
  <2> HIDE DEF a
  <2> QED BY <1>2, <1>4 DEF Texts
<1> HIDE DEF a, c
<1>6. a = c
  BY <1>3, <1>4, <1>5, SeqEqual
<1> QED BY <1>6 DEF a, c

\* All the client has got, with the bytes under way, if it cut its lines out as `cut`.
Seen(cut) == ((dropped \o Joined(cut)) \o incomingBuffer) \o down

\* The bytes on the wire are the lines that have begun, but for what is left of the one
\* that is partly sent, if any is.
LineStream(cut) ==
  ~torn =>
    \/ (\A t \in Threads : ~Partial(t)) /\ Seen(cut) = Joined(begun)
    \/ \E t \in Threads :
         /\ Partial(t) /\ \A u \in Threads \ {t} : ~Partial(u)
         /\ Seen(cut) \o Rest(t) = Joined(begun)

\* The lines taken are the texts of lines that were cut out of the stream.
StreamInv == \E cut \in Seq(Plain) : received = Texts(cut) /\ LineStream(cut)

LEMMA SeenType ==
  ASSUME WireType, NEW cut \in Seq(Plain)
  PROVE  /\ Joined(cut) \in Seq(Byte) /\ Joined(begun) \in Seq(Byte)
         /\ dropped \o Joined(cut) \in Seq(Byte)
         /\ (dropped \o Joined(cut)) \o incomingBuffer \in Seq(Byte)
         /\ Seen(cut) \in Seq(Byte)
<1>1. Joined(cut) \in Seq(Byte) /\ Joined(begun) \in Seq(Byte)
  BY LinesAreBytes, JoinedType DEF WireType
<1>2. dropped \o Joined(cut) \in Seq(Byte)
  BY <1>1, ConcatProperties DEF WireType
<1>3. (dropped \o Joined(cut)) \o incomingBuffer \in Seq(Byte)
  BY <1>2, ConcatProperties DEF WireType
<1>4. Seen(cut) \in Seq(Byte)
  BY <1>3, ConcatProperties DEF WireType, Seen
<1> QED BY <1>1, <1>2, <1>3, <1>4

LEMMA StreamInit == Init => StreamInv
<1> SUFFICES ASSUME Init PROVE StreamInv
  OBVIOUS
<1>1. <<>> \o <<>> = <<>>
  BY ConcatEmptySeq
<1>2. Seen(<<>>) = Joined(begun)
  BY <1>1, JoinedEmpty DEF Init, Seen
<1>3. \A t \in Threads : ~Partial(t)
  BY DEF Init, Partial
<1>4. received = Texts(<<>>) /\ <<>> \in Seq(Plain)
  BY DEF Init, Texts
<1> QED BY <1>2, <1>3, <1>4 DEF LineStream, StreamInv

\* A step that only starts a line, or only moves bytes on, keeps the stream.
LEMMA StreamKept ==
  ASSUME NEW cut, LineStream(cut), Seen(cut)' = Seen(cut), UNCHANGED <<begun, torn>>,
         \A u \in Threads : Partial(u)' <=> Partial(u),
         \A u \in Threads : Partial(u) => Rest(u)' = Rest(u)
  PROVE  LineStream(cut)'
BY DEF LineStream

\* A thread sends: it was the one that had begun its line, or it begins it now.
LEMMA SendKeepsStream ==
  ASSUME WireType, NEW cut \in Seq(Plain), LineStream(cut), NEW t \in Threads, SendSome(t)
  PROVE  LineStream(cut)'
<1> SUFFICES ASSUME ~torn' PROVE LineStream(cut)'
  BY DEF LineStream
<1>1. /\ left[t] > 0 /\ line' = line /\ left' \in [Threads -> Nat] /\ left'[t] < left[t]
      /\ \A u \in Threads \ {t} : left'[u] = left[u]
  BY SendTakes
<1>2. PICK c \in Seq(Byte) : /\ down' = down \o c /\ down' \in Seq(Byte)
                             /\ Rest(t)' \in Seq(Byte) /\ Rest(t) = c \o Rest(t)'
  BY SendTakes
<1>3. ~torn /\ \A u \in Threads \ {t} : ~Partial(u)
  BY DEF SendSome, Untouched, Partial
<1>4. begun' = IF Untouched(t) THEN Append(begun, Front(line[t])) ELSE begun
  BY DEF SendSome
<1>5. UNCHANGED <<dropped, received, incomingBuffer>>
  BY DEF SendSome, clientVars
<1>6. Joined(begun') = Seen(cut) \o Rest(t)
  <2>1. CASE Untouched(t)
    <3>1. ~Partial(t)
      BY <2>1 DEF Untouched, Partial
    <3>2. Seen(cut) = Joined(begun)
      BY <1>3, <3>1 DEF LineStream
    <3>3. PICK x \in Plain : line[t] = Append(x, NL)
      BY <1>1 DEF WireType
    <3>4. begun' = Append(begun, x)
      BY <1>4, <2>1, <3>3, FrontOfLine
    <3>5. Rest(t) = line[t]
      <4>1. line[t] \in Seq(Byte) /\ Len(line[t]) \in Nat
        BY DEF WireType
      <4>2. Rest(t) = SubSeq(line[t], 1, Len(line[t]))
        BY <2>1, <4>1 DEF Rest, Untouched
      <4> QED BY <4>1, <4>2, SubSeqFull
    <3>6. Joined(begun') = Joined(begun) \o Append(x, NL)
      <4>1. begun \in Seq(Seq(Byte)) /\ x \in Seq(Byte)
        BY LinesAreBytes DEF WireType, Plain
      <4> QED BY <3>4, <4>1, JoinedAppend
    <3> QED BY <3>2, <3>3, <3>5, <3>6
  <2>2. CASE ~Untouched(t)
    <3>1. Partial(t)
      BY <1>1, <2>2 DEF Untouched, Partial
    <3>2. Seen(cut) \o Rest(t) = Joined(begun)
      BY <1>3, <3>1 DEF LineStream
    <3> QED BY <1>4, <2>2, <3>2
  <2> QED BY <2>1, <2>2
<1>7. Seen(cut)' \o Rest(t)' = Joined(begun')
  <2> DEFINE g == (dropped \o Joined(cut)) \o incomingBuffer
             r == Rest(t)'
  <2>1. g \in Seq(Byte) /\ down \in Seq(Byte) /\ r \in Seq(Byte)
    BY <1>2, SeenType DEF WireType
  <2>2. Seen(cut) = g \o down /\ Seen(cut)' = g \o (down \o c)
    BY <1>2, <1>5 DEF Seen
  <2>3. Seen(cut) \o (c \o r) = Joined(begun')
    BY <1>2, <1>6
  <2> HIDE DEF g, r
  <2>4. down \o c \in Seq(Byte) /\ c \o r \in Seq(Byte)
    BY <1>2, <2>1, ConcatProperties
  <2>5. (g \o (down \o c)) \o r = g \o ((down \o c) \o r)
    BY <2>1, <2>4, BytesAssociate
  <2>6. (down \o c) \o r = down \o (c \o r)
    <3>1. down \in Seq(Byte) /\ c \in Seq(Byte) /\ r \in Seq(Byte)
      BY <2>1
    <3> QED BY <3>1, BytesAssociate
  <2>7. (g \o down) \o (c \o r) = g \o (down \o (c \o r))
    BY <2>1, <2>4, BytesAssociate
  <2>8. Seen(cut)' \o r = Joined(begun')
    BY <2>2, <2>3, <2>5, <2>6, <2>7
  <2> QED BY <2>8 DEF r
<1>8. \A u \in Threads \ {t} : ~Partial(u)'
  BY <1>1, <1>3 DEF Partial
<1>9. CASE left'[t] = 0
  <2>1. ~Partial(t)'
    BY <1>9 DEF Partial
  <2>2. Rest(t)' = <<>>
    <3>1. Len(line[t]) \in Nat /\ line[t] \in Seq(Byte)
      BY DEF WireType
    <3>2. Rest(t)' = SubSeq(line[t], Len(line[t]) + 1, Len(line[t]))
      BY <1>1, <1>9, <3>1 DEF Rest
    <3> QED BY <3>1, <3>2, SubSeqEmpty
  <2>3. Seen(cut)' \in Seq(Byte)
    <3>1. (dropped \o Joined(cut)) \o incomingBuffer \in Seq(Byte)
      BY SeenType
    <3>2. Seen(cut)' = ((dropped \o Joined(cut)) \o incomingBuffer) \o down'
      BY <1>5 DEF Seen
    <3> QED BY <1>2, <3>1, <3>2, ConcatProperties
  <2>4. Seen(cut)' \o Rest(t)' = Seen(cut)'
    BY <2>2, <2>3, ConcatEmptySeq
  <2> QED BY <1>7, <1>8, <2>1, <2>4 DEF LineStream
<1>10. CASE left'[t] # 0
  <2>1. Partial(t)'
    <3>1. left'[t] \in Nat /\ left[t] \in Nat /\ left[t] <= Len(line[t]) /\ Len(line[t]) \in Nat
      BY <1>1 DEF WireType
    <3>2. left'[t] > 0 /\ left'[t] # Len(line'[t])
      BY <1>1, <1>10, <3>1
    <3> QED BY <3>2 DEF Partial
  <2> QED BY <1>7, <1>8, <2>1 DEF LineStream
<1> QED BY <1>9, <1>10

LEMMA StreamStep == WireType /\ StreamInv /\ [Next]_vars => StreamInv'
<1> SUFFICES ASSUME WireType, StreamInv, [Next]_vars PROVE StreamInv'
  OBVIOUS
<1>0. PICK cut \in Seq(Plain) : received = Texts(cut) /\ LineStream(cut)
  BY DEF StreamInv
<1>a. ASSUME received' = received, LineStream(cut)'
      PROVE  StreamInv'
  BY <1>0, <1>a DEF StreamInv
<1>1. CASE UNCHANGED <<line, left, begun, torn, dropped, received, incomingBuffer, down>>
  BY <1>0, <1>1, <1>a DEF LineStream, Seen, Partial, Rest
<1>2. CASE ServerRecv \/ ServerNoLine \/ SendAuth \/ SendCommand \/ AuthTimesOut \/ UNCHANGED vars
  <2>1. UNCHANGED <<line, left, begun, torn, dropped, received, incomingBuffer, down>>
    BY <1>2 DEF ServerRecv, ServerNoLine, SendAuth, SendCommand, ClientSend, AuthTimesOut,
                vars, clientVars, sendVars
  <2> QED BY <1>1, <2>1
<1>3. ASSUME NEW t \in Threads, NEW x \in Plain, left[t] = 0, StartLine(t, x), UNCHANGED <<clientVars, down>>
      PROVE  StreamInv'
  <2>1. /\ ~Partial(t) /\ ~Partial(t)' /\ UNCHANGED <<begun, torn>>
        /\ \A u \in Threads \ {t} : line'[u] = line[u] /\ left'[u] = left[u]
    BY <1>3, StartLines
  <2>2. \A u \in Threads \ {t} : (Partial(u)' <=> Partial(u)) /\ Rest(u)' = Rest(u)
    BY <2>1 DEF Partial, Rest
  <2>3. Seen(cut)' = Seen(cut)
    BY <1>3 DEF Seen, clientVars
  <2>4. LineStream(cut)'
    BY <1>0, <2>1, <2>2, <2>3, StreamKept
  <2> QED BY <1>3, <1>a, <2>4 DEF clientVars
<1>4. CASE ServerLine
  <2>1. Handler \in Threads
    BY DEF Threads
  <2>2. PICK x \in Plain : StartLine(Handler, x)
    BY <1>4, PlainTexts DEF ServerLine, ReplyTo
  <2> QED BY <1>3, <1>4, <2>1, <2>2 DEF ServerLine
<1>5. ASSUME NEW t \in Threads, OtherLine(t)
      PROVE  StreamInv'
  BY <1>3, <1>5, PlainTexts DEF OtherLine
<1>6. ASSUME NEW t \in Threads, SendSome(t)
      PROVE  StreamInv'
  <2>1. LineStream(cut)'
    BY <1>0, <1>6, SendKeepsStream
  <2> QED BY <1>6, <1>a, <2>1 DEF SendSome, clientVars
<1> DEFINE d == dropped
           j == Joined(cut)
           i == incomingBuffer
<1>7. d \in Seq(Byte) /\ j \in Seq(Byte) /\ i \in Seq(Byte) /\ down \in Seq(Byte)
  BY <1>0, SeenType DEF WireType
<1>8. ASSUME NEW cut2 \in Seq(Plain), Seen(cut2)' = Seen(cut), UNCHANGED sendVars
      PROVE  LineStream(cut2)'
  BY <1>0, <1>8 DEF LineStream, Partial, Rest, sendVars
<1>9. CASE AuthRecv
  <2>1. PICK got \in RecvOf(down) : down' = After(down, got) /\ dropped' = dropped \o got
    BY <1>9 DEF AuthRecv
  <2>2. received = <<>> /\ incomingBuffer = <<>> /\ UNCHANGED <<incomingBuffer, received>> /\ UNCHANGED sendVars
    BY <1>9 DEF AuthRecv, WireType
  <2>9. cut = <<>>
    <3>1. Texts(cut) = <<>> /\ Len(cut) \in Nat
      BY <1>0, <2>2
    <3>2. Len(Texts(cut)) = Len(cut)
      BY <3>1 DEF Texts
    <3>3. Len(cut) = 0
      BY <3>1, <3>2
    <3> QED BY <1>0, <3>3, EmptySeq
  <2>3. got \in Seq(Byte) /\ down' \in Seq(Byte) /\ down = got \o down'
    BY <1>7, <2>1, RecvSplits
  <2>4. dropped' \in Seq(Byte)
    BY <1>7, <2>1, <2>3, ConcatProperties
  <2>5. Seen(cut) = dropped \o down
    <3>1. (dropped \o <<>>) \o <<>> = dropped
      BY <1>7, ConcatEmptySeq
    <3> QED BY <2>2, <2>9, <3>1, JoinedEmpty DEF Seen
  <2>6. Seen(cut)' = dropped' \o down'
    <3>1. (dropped' \o <<>>) \o <<>> = dropped'
      BY <2>4, ConcatEmptySeq
    <3> QED BY <2>2, <2>9, <3>1, JoinedEmpty DEF Seen
  <2>7. (dropped \o got) \o down' = dropped \o (got \o down')
    <3>1. dropped \in Seq(Byte) /\ got \in Seq(Byte) /\ down' \in Seq(Byte)
      BY <1>7, <2>3
    <3> HIDE DEF d, j, i
    <3> QED BY <3>1, BytesAssociate
  <2>8. Seen(cut)' = Seen(cut)
    BY <2>1, <2>3, <2>5, <2>6, <2>7
  <2> QED BY <1>0, <1>8, <1>a, <2>2, <2>8
<1>10. CASE ClientRecv
  <2>1. PICK got \in RecvOf(down) : down' = After(down, got) /\ incomingBuffer' = incomingBuffer \o got
    BY <1>10 DEF ClientRecv
  <2>2. UNCHANGED <<dropped, received>> /\ UNCHANGED sendVars
    BY <1>10 DEF ClientRecv
  <2>3. got \in Seq(Byte) /\ down' \in Seq(Byte) /\ down = got \o down'
    BY <1>7, <2>1, RecvSplits
  <2> DEFINE a == d \o j
             e == down'
  <2>4. a \in Seq(Byte) /\ a \o i \in Seq(Byte) /\ i \in Seq(Byte) /\ e \in Seq(Byte)
    BY <1>0, <2>3, SeenType DEF WireType
  <2>5. Seen(cut) = (a \o i) \o (got \o e) /\ Seen(cut)' = (a \o (i \o got)) \o e
    BY <2>1, <2>2, <2>3 DEF Seen
  <2> HIDE DEF a, i, e
  <2>6. (a \o i) \o (got \o e) = ((a \o i) \o got) \o e
    <3> DEFINE w == a \o i
    <3>1. w \in Seq(Byte) /\ got \in Seq(Byte) /\ e \in Seq(Byte)
      BY <2>3, <2>4
    <3> HIDE DEF w
    <3>2. (w \o got) \o e = w \o (got \o e)
      BY <3>1, BytesAssociate
    <3> QED BY <3>2 DEF w
  <2>7. (a \o i) \o got = a \o (i \o got)
    BY <2>3, <2>4, BytesAssociate
  <2>8. Seen(cut)' = Seen(cut)
    BY <2>5, <2>6, <2>7
  <2> QED BY <1>0, <1>8, <1>a, <2>2, <2>8
<1>11. CASE ClientLine
  <2>1. PICK m, rest : m = FirstLine(incomingBuffer) /\ rest = RestLines(incomingBuffer)
    OBVIOUS
  <2>2. /\ Find(incomingBuffer) > 0 /\ received' = Append(received, Text(m)) /\ incomingBuffer' = rest
        /\ UNCHANGED <<dropped, down>> /\ UNCHANGED sendVars
    BY <1>11, <2>1 DEF ClientLine
  <2> DEFINE p == Append(m, NL)
             cut2 == Append(cut, m)
  <2>3. m \in Plain /\ rest \in Seq(Byte) /\ incomingBuffer = p \o rest
    BY <1>7, <2>1, <2>2, SplitLine
  <2>4. p \in Seq(Byte) /\ m \in Seq(Byte) /\ cut \in Seq(Seq(Byte))
    BY <1>0, <2>3, PlainIsBytes, LinesAreBytes
  <2>5. Joined(cut2) = Joined(cut) \o p
    BY <2>4, JoinedAppend
  <2> DEFINE a == d \o j
  <2>6. a \in Seq(Byte)
    BY <1>0, SeenType
  <2>7. Seen(cut) = (a \o (p \o rest)) \o down /\ Seen(cut2)' = ((d \o (j \o p)) \o rest) \o down
    BY <2>2, <2>3, <2>5 DEF Seen
  <2>11. cut2 \in Seq(Plain) /\ received' = Texts(cut2)
    BY <1>0, <2>2, <2>3, TextsAppend, AppendProperties
  <2> HIDE DEF d, j, p, cut2
  <2>8. d \o (j \o p) = a \o p
    BY <1>7, <2>4, BytesAssociate
  <2> HIDE DEF a
  <2>9. a \o (p \o rest) = (a \o p) \o rest
    BY <2>3, <2>4, <2>6, BytesAssociate
  <2>10. Seen(cut2)' = Seen(cut)
    BY <2>7, <2>8, <2>9
  <2>12. LineStream(cut2)'
    BY <1>8, <2>2, <2>10, <2>11
  <2> QED BY <2>11, <2>12 DEF StreamInv
<1> QED BY <1>2, <1>4, <1>5, <1>6, <1>9, <1>10, <1>11 DEF Next, ServerStep

LEMMA PrefixOfConcat ==
  ASSUME NEW a \in Seq(Byte), NEW c \in Seq(Byte)
  PROVE  IsPrefix(a, a \o c)
<1>1. /\ a \o c \in Seq(Byte) /\ Len(a \o c) = Len(a) + Len(c) /\ Len(a) \in Nat /\ Len(c) \in Nat
      /\ \A i \in 1..Len(a) : (a \o c)[i] = a[i]
  BY ConcatProperties
<1> DEFINE w == a \o c
<1> HIDE DEF w
<1>2. \A i \in 1..Len(a) : w[i] = a[i] /\ a[i] \in Byte
  BY <1>1, ElementOfSeq DEF w
<1>3. /\ SubSeq(w, 1, Len(a)) \in Seq(Byte) /\ Len(SubSeq(w, 1, Len(a))) = Len(a)
      /\ \A i \in 1..Len(a) : SubSeq(w, 1, Len(a))[i] = a[i]
  BY <1>1, <1>2, SubSeqProperties
<1>4. SubSeq(w, 1, Len(a)) = a
  BY <1>3, SeqEqual
<1>5. SubSeq(a, 1, Len(a)) = a
  BY SubSeqFull
<1> QED BY <1>1, <1>4, <1>5 DEF IsPrefix, w

LEMMA StreamPrefix ==
  ASSUME WireType, NEW cut \in Seq(Plain), LineStream(cut), ~torn
  PROVE  IsPrefix(Seen(cut), Joined(begun))
<1>1. Seen(cut) \in Seq(Byte)
  BY SeenType
<1>2. CASE Seen(cut) = Joined(begun)
  <2>1. Seen(cut) \o <<>> = Seen(cut)
    BY <1>1, ConcatEmptySeq
  <2>2. <<>> \in Seq(Byte)
    OBVIOUS
  <2> QED BY <1>1, <1>2, <2>1, <2>2, PrefixOfConcat
<1>3. ASSUME NEW t \in Threads, Partial(t), Seen(cut) \o Rest(t) = Joined(begun)
      PROVE  IsPrefix(Seen(cut), Joined(begun))
  <2>1. Rest(t) \in Seq(Byte)
    <3>1. /\ line[t] \in Seq(Byte) /\ left[t] \in Nat /\ left[t] \in 0..Len(line[t]) /\ Len(line[t]) \in Nat
          /\ \A i \in 1..Len(line[t]) : line[t][i] \in Byte
      BY ElementOfSeq DEF WireType
    <3>2. Len(line[t]) - left[t] + 1 \in 1..(Len(line[t]) + 1)
      BY <3>1
    <3> QED BY <3>1, <3>2, SubSeqProperties DEF Rest
  <2> QED BY <1>1, <1>3, <2>1, PrefixOfConcat
<1> QED BY <1>2, <1>3 DEF LineStream

LEMMA StreamImplies == WireType /\ StreamInv => LinesWhole
<1> SUFFICES ASSUME WireType, StreamInv, ~torn
             PROVE  \E ended \in SUBSET DOMAIN received :
                      /\ \A i \in DOMAIN received : received[i] = Text(Cut(ended)[i])
                      /\ IsPrefix(dropped \o Joined(Cut(ended)) \o incomingBuffer \o down, Joined(begun))
  BY DEF LinesWhole
<1>1. PICK cut \in Seq(Plain) : received = Texts(cut) /\ LineStream(cut)
  BY DEF StreamInv
<1> DEFINE ended == {i \in DOMAIN received : received[i] # cut[i]}
<1>2. DOMAIN received = 1..Len(cut) /\ \A i \in 1..Len(cut) : received[i] = Text(cut[i]) /\ cut[i] \in Plain
  BY <1>1, ElementOfSeq DEF Texts
<1>3. Cut(ended) = cut
  <2>1. \A i \in 1..Len(cut) : Cut(ended)[i] = cut[i]
    <3> SUFFICES ASSUME NEW i \in 1..Len(cut)
                 PROVE  (IF i \in ended THEN Append(received[i], CR) ELSE received[i]) = cut[i]
      BY <1>2 DEF Cut
    <3> QED BY <1>2, TextOfLine
  <2>2. Cut(ended) = [i \in 1..Len(cut) |-> Cut(ended)[i]]
    BY <1>2 DEF Cut
  <2>3. cut = [i \in 1..Len(cut) |-> cut[i]]
    BY <1>1
  <2> HIDE DEF ended
  <2> QED BY <2>1, <2>2, <2>3
<1>4. IsPrefix(Seen(cut), Joined(begun))
  BY <1>1, StreamPrefix
<1> HIDE DEF ended
<1>5. IsPrefix(dropped \o Joined(Cut(ended)) \o incomingBuffer \o down, Joined(begun))
  BY <1>3, <1>4 DEF Seen
<1> QED BY <1>2, <1>3, <1>5 DEF ended

\* Unless two send_line overlapped, the client takes each line as it was sent, less the
\* carriage return it may end in, in the order of their first bytes, from where sendAUTH
\* stopped reading: however many threads send, however few bytes each send takes and each
\* recv returns, whatever the lines are.
THEOREM LinesTaken == Spec => []LinesWhole
<1>1. Init => WireType /\ StreamInv
  BY WireInit, StreamInit
<1>2. WireType /\ StreamInv /\ [Next]_vars => (WireType /\ StreamInv)'
  BY WireStep, StreamStep
<1>3. Spec => [](WireType /\ StreamInv)
  BY <1>1, <1>2, PTL DEF Spec
<1> QED BY <1>3, StreamImplies, PTL

-----------------------------------------------------------------------------
(* The client takes no more lines than have begun, even when they are torn *)

Newlines(b) == Cardinality({i \in 1..Len(b) : b[i] = NL})

LEMMA NewlinesType ==
  ASSUME NEW b \in Seq(Byte)
  PROVE  IsFiniteSet({i \in 1..Len(b) : b[i] = NL}) /\ Newlines(b) \in Nat
<1> DEFINE S == {i \in 1..Len(b) : b[i] = NL}
<1>1. Len(b) \in Int /\ 1 \in Int /\ S \in SUBSET (1..Len(b))
  OBVIOUS
<1> HIDE DEF S
<1>2. IsFiniteSet(1..Len(b))
  BY <1>1, FS_Interval
<1>3. IsFiniteSet(S)
  BY <1>1, <1>2, FS_Subset
<1>4. Cardinality(S) \in Nat
  BY <1>3, FS_CardinalityType
<1> QED BY <1>3, <1>4 DEF S, Newlines

LEMMA NewlinesConcat ==
  ASSUME NEW a \in Seq(Byte), NEW c \in Seq(Byte)
  PROVE  Newlines(a \o c) = Newlines(a) + Newlines(c)
<1> DEFINE w == a \o c
           S == {i \in 1..Len(a) : a[i] = NL}
           T == {i \in 1..Len(c) : c[i] = NL}
           U == {i \in 1..Len(w) : w[i] = NL}
           V == {i \in (Len(a) + 1)..Len(w) : w[i] = NL}
           f == [i \in T |-> i + Len(a)]
<1>1. /\ w \in Seq(Byte) /\ Len(w) = Len(a) + Len(c) /\ Len(a) \in Nat /\ Len(c) \in Nat
      /\ \A i \in 1..(Len(a) + Len(c)) : w[i] = IF i <= Len(a) THEN a[i] ELSE c[i - Len(a)]
  BY ConcatProperties
<1> HIDE DEF w
<1>2. U = S \cup V /\ S \cap V = {}
  <2>1. \A i \in 1..Len(a) : i \in 1..Len(w) /\ w[i] = a[i]
    BY <1>1
  <2>2. 1..Len(w) = 1..Len(a) \cup (Len(a) + 1)..Len(w)
    BY <1>1
  <2>3. \A i \in 1..Len(a) : i \notin (Len(a) + 1)..Len(w)
    BY <1>1
  <2> QED BY <2>1, <2>2, <2>3
<1>3. ExistsBijection(T, V)
  <2>1. \A i \in T : f[i] \in V
    <3> SUFFICES ASSUME NEW i \in T PROVE i + Len(a) \in V
      OBVIOUS
    <3>1. /\ i + Len(a) \in (Len(a) + 1)..Len(w) /\ i + Len(a) \in 1..(Len(a) + Len(c))
          /\ ~(i + Len(a) <= Len(a)) /\ i + Len(a) - Len(a) = i
      BY <1>1
    <3> QED BY <1>1, <3>1
  <2>2. \A k \in V : \E i \in T : f[i] = k
    <3> SUFFICES ASSUME NEW k \in V PROVE \E i \in T : f[i] = k
      OBVIOUS
    <3>1. /\ k - Len(a) \in 1..Len(c) /\ k \in 1..(Len(a) + Len(c)) /\ ~(k <= Len(a))
          /\ k - Len(a) + Len(a) = k
      BY <1>1
    <3>2. k - Len(a) \in T
      BY <1>1, <3>1
    <3> QED BY <3>1, <3>2
  <2>3. \A i, k \in T : f[i] = f[k] => i = k
    BY <1>1
  <2>4. f \in [T -> V]
    BY <2>1
  <2> HIDE DEF f, T, V
  <2> QED BY <2>2, <2>3, <2>4 DEF ExistsBijection, Bijection, Injection, Surjection, IsInjective
<1>4. IsFiniteSet(S) /\ IsFiniteSet(T)
  BY NewlinesType
<1> HIDE DEF S, T, U, V
<1>5. IsFiniteSet(V) /\ Cardinality(V) = Cardinality(T)
  BY <1>3, <1>4, FS_Bijection
<1>6. Cardinality(U) = Cardinality(S) + Cardinality(V) - Cardinality({})
  BY <1>2, <1>4, <1>5, FS_Union
<1>7. Cardinality(U) = Cardinality(S) + Cardinality(T)
  BY <1>4, <1>5, <1>6, FS_EmptySet, FS_CardinalityType
<1> QED BY <1>7 DEF Newlines, S, T, U, w

LEMMA NewlinesEmpty == Newlines(<<>>) = 0
<1>1. {i \in 1..Len(<<>>) : <<>>[i] = NL} = {}
  OBVIOUS
<1> QED BY <1>1, FS_EmptySet DEF Newlines

\* The end of a line has one newline.
LEMMA NewlinesOfEnd ==
  ASSUME NEW x \in Plain, NEW k \in 1..(Len(x) + 1), NEW b, b = Append(x, NL)
  PROVE  Newlines(SubSeq(b, Len(b) - k + 1, Len(b))) = 1
<1>1. x \in Seq(Byte) /\ NL \in Byte /\ Len(x) \in Nat
  BY DEF Plain, Byte
<1>2. /\ b \in Seq(Byte) /\ Len(b) = Len(x) + 1 /\ b[Len(x) + 1] = NL
      /\ \A i \in 1..Len(x) : b[i] = x[i]
  BY <1>1, AppendProperties
<1>3. \A i \in 1..Len(x) : x[i] # NL
  BY <1>1, PlainBytes
<1> DEFINE m == Len(b) - k + 1
           r == SubSeq(b, m, Len(b))
<1>4. m \in 1..Len(b) /\ Len(b) \in Nat /\ Len(b) - m + 1 = k /\ m <= Len(b) /\ \A i \in 1..Len(b) : b[i] \in Byte
  BY <1>1, <1>2, ElementOfSeq
<1>5. r \in Seq(Byte) /\ Len(r) = k /\ \A i \in 1..k : r[i] = b[m + i - 1]
  <2> HIDE DEF m
  <2>1. m \in Int /\ Len(b) \in Int /\ \A i \in m..Len(b) : b[i] \in Byte
    BY <1>4
  <2> QED BY <1>4, <2>1, SubSeqProperties
<1> HIDE DEF r
<1>6. {i \in 1..Len(r) : r[i] = NL} = {k}
  <2>1. r[k] = NL
    BY <1>1, <1>2, <1>5
  <2>2. ASSUME NEW i \in 1..k, i # k PROVE r[i] # NL
    <3>1. m + i - 1 \in 1..Len(x)
      BY <1>1, <1>2, <2>2
    <3> QED BY <1>2, <1>3, <1>5, <3>1
  <2> QED BY <1>5, <2>1, <2>2
<1> QED BY <1>6, FS_Singleton DEF Newlines, r

PartialThreads == {t \in Threads : Partial(t)}

\* Each newline under way, and each line that is partly sent, belongs to a line that has
\* begun and that the client has not taken.
LineCount ==
  Len(received) + Newlines(incomingBuffer) + Newlines(down) + Cardinality(PartialThreads) <= Len(begun)

LEMMA PartialType ==
  /\ IsFiniteSet(PartialThreads) /\ Cardinality(PartialThreads) \in Nat
  /\ IsFiniteSet(PartialThreads') /\ Cardinality(PartialThreads') \in Nat
<1>1. IsFiniteSet(Others \cup {Handler})
  BY WireAssumption, FS_AddElement
<1>2. PartialThreads \in SUBSET (Others \cup {Handler}) /\ PartialThreads' \in SUBSET (Others \cup {Handler})
  BY DEF PartialThreads, Threads
<1>3. IsFiniteSet(PartialThreads) /\ IsFiniteSet(PartialThreads')
  BY <1>1, <1>2, FS_Subset
<1> QED BY <1>3, FS_CardinalityType

LEMMA CountInit == Init => LineCount
<1> SUFFICES ASSUME Init PROVE LineCount
  OBVIOUS
<1>1. PartialThreads = {}
  BY DEF Init, PartialThreads, Partial
<1>2. Cardinality(PartialThreads) = 0
  BY <1>1, FS_EmptySet
<1> QED BY <1>2, NewlinesEmpty DEF Init, LineCount

LEMMA SendKeepsCount ==
  ASSUME WireType, LineCount, NEW t \in Threads, SendSome(t)
  PROVE  LineCount'
<1>1. /\ left[t] > 0 /\ line' = line /\ left' \in [Threads -> Nat] /\ left'[t] < left[t]
      /\ \A u \in Threads \ {t} : left'[u] = left[u]
  BY SendTakes
<1>2. PICK c \in Seq(Byte) : /\ down' = down \o c /\ down' \in Seq(Byte)
                             /\ Rest(t)' \in Seq(Byte) /\ Rest(t) = c \o Rest(t)'
  BY SendTakes
<1>3. UNCHANGED <<received, incomingBuffer>>
  BY DEF SendSome, clientVars
<1>4. begun' = IF Untouched(t) THEN Append(begun, Front(line[t])) ELSE begun
  BY DEF SendSome
<1> DEFINE r == Rest(t)'
           P == PartialThreads
           Q == PartialThreads'
           more == left'[t] > 0
<1>5. PICK x \in Plain : line[t] = Append(x, NL)
  BY <1>1 DEF WireType
<1>6. /\ Len(line[t]) = Len(x) + 1 /\ Len(x) \in Nat /\ left[t] \in 0..Len(line[t]) /\ left[t] \in Nat
      /\ left'[t] \in Nat
  BY <1>1, <1>5, PlainIsBytes DEF WireType, Plain
<1>7. Newlines(Rest(t)) = 1
  <2>1. left[t] \in 1..(Len(x) + 1)
    BY <1>1, <1>6
  <2> QED BY <1>5, <2>1, NewlinesOfEnd DEF Rest
<1>8. Newlines(r) = IF more THEN 1 ELSE 0
  <2>1. r = SubSeq(line[t], Len(line[t]) - left'[t] + 1, Len(line[t]))
    BY <1>1 DEF Rest
  <2>2. CASE more
    <3>1. left'[t] \in 1..(Len(x) + 1)
      BY <1>1, <1>6, <2>2
    <3> QED BY <1>5, <2>1, <2>2, <3>1, NewlinesOfEnd
  <2>3. CASE ~more
    <3>1. left'[t] = 0
      BY <1>6, <2>3
    <3>2. r = SubSeq(line[t], Len(line[t]) + 1, Len(line[t]))
      BY <1>6, <2>1, <3>1
    <3>3. r = <<>>
      BY <1>6, <3>2, SubSeqEmpty
    <3> QED BY <2>3, <3>3, NewlinesEmpty
  <2> QED BY <2>2, <2>3
<1>9. Newlines(c) + Newlines(r) = 1 /\ Newlines(c) \in Nat
  BY <1>2, <1>7, NewlinesConcat, NewlinesType
<1>10. Newlines(down') = Newlines(down) + Newlines(c) /\ Newlines(down) \in Nat
  <2>1. down \in Seq(Byte)
    BY DEF WireType
  <2> QED BY <1>2, <2>1, NewlinesConcat, NewlinesType
<1>11. Len(begun') = Len(begun) + IF Untouched(t) THEN 1 ELSE 0
  <2>1. begun \in Seq(Plain) /\ Front(line[t]) \in Plain
    BY <1>5, FrontOfLine DEF WireType
  <2>2. Len(Append(begun, Front(line[t]))) = Len(begun) + 1 /\ Len(begun) \in Nat
    BY <2>1, AppendProperties
  <2> QED BY <1>4, <2>2
<1>12. Cardinality(Q) + (IF Untouched(t) THEN 0 ELSE 1) = Cardinality(P) + IF more THEN 1 ELSE 0
  <2>1. t \in P <=> ~Untouched(t)
    BY <1>1 DEF PartialThreads, Partial, Untouched
  <2>2. t \in Q <=> more
    BY <1>1, <1>6 DEF PartialThreads, Partial
  <2>3. \A u \in Threads \ {t} : u \in Q <=> u \in P
    BY <1>1 DEF PartialThreads, Partial
  <2>4. P \subseteq Threads /\ Q \subseteq Threads
    BY DEF PartialThreads
  <2> DEFINE O == P \ {t}
  <2> HIDE DEF more, P, Q
  <2>5. Q = IF more THEN O \cup {t} ELSE O
    BY <2>2, <2>3, <2>4
  <2>6. IsFiniteSet(P) /\ Cardinality(P) \in Nat
    BY PartialType DEF P
  <2>7. IsFiniteSet(O) /\ Cardinality(O) = IF t \in P THEN Cardinality(P) - 1 ELSE Cardinality(P)
    BY <2>6, FS_RemoveElement
  <2>8. t \notin O /\ Cardinality(O \cup {t}) = Cardinality(O) + 1 /\ Cardinality(O) \in Nat
    BY <2>7, FS_AddElement, FS_CardinalityType
  <2> HIDE DEF O
  <2> QED BY <2>1, <2>5, <2>6, <2>7, <2>8
<1>13. /\ Newlines(incomingBuffer) \in Nat /\ Len(received) \in Nat /\ Len(begun) \in Nat
       /\ Cardinality(P) \in Nat /\ Cardinality(Q) \in Nat
  <2>1. incomingBuffer \in Seq(Byte) /\ received \in Seq(Plain) /\ begun \in Seq(Plain)
    BY DEF WireType
  <2>2. Newlines(incomingBuffer) \in Nat /\ Len(received) \in Nat /\ Len(begun) \in Nat
    <3>1. Len(received) \in Nat /\ Len(begun) \in Nat
      BY <2>1
    <3>2. Newlines(incomingBuffer) \in Nat
      BY <2>1, NewlinesType
    <3> QED BY <3>1, <3>2
  <2> QED BY <2>2, PartialType
<1>14. Len(received) + Newlines(incomingBuffer) + Newlines(down) + Cardinality(P) <= Len(begun)
  BY DEF LineCount
<1> HIDE DEF r, P, Q, more
<1>15. Len(received) + Newlines(incomingBuffer) + Newlines(down') + Cardinality(Q) <= Len(begun')
  <2> DEFINE one == IF more THEN 1 ELSE 0
             new == IF Untouched(t) THEN 1 ELSE 0
  <2>1. one \in {0, 1} /\ new \in {0, 1} /\ (IF Untouched(t) THEN 0 ELSE 1) = 1 - new
    OBVIOUS
  <2>2. Newlines(r) = one /\ Len(begun') = Len(begun) + new /\ Cardinality(Q) + (1 - new) = Cardinality(P) + one
    BY <1>8, <1>11, <1>12, <2>1
  <2> DEFINE nc == Newlines(c)
             nd == Newlines(down)
             ne == Newlines(down')
             ni == Newlines(incomingBuffer)
             lr == Len(received)
             lb == Len(begun)
             lc == Len(begun')
             cp == Cardinality(P)
             cq == Cardinality(Q)
  <2>3. /\ nc \in Nat /\ nd \in Nat /\ ni \in Nat /\ lr \in Nat /\ lb \in Nat /\ cp \in Nat /\ cq \in Nat
        /\ nc + one = 1 /\ ne = nd + nc /\ lc = lb + new /\ cq + (1 - new) = cp + one
        /\ lr + ni + nd + cp <= lb
    BY <1>9, <1>10, <1>13, <1>14, <2>2
  <2> HIDE DEF one, new, nc, nd, ne, ni, lr, lb, lc, cp, cq
  <2>4. lr + ni + ne + cq <= lc
    BY <2>1, <2>3
  <2> QED BY <2>4 DEF lr, ni, ne, cq, lc
<1> QED BY <1>3, <1>15 DEF LineCount, Q

LEMMA CountStep == WireType /\ LineCount /\ [Next]_vars => LineCount'
<1> SUFFICES ASSUME WireType, LineCount, [Next]_vars PROVE LineCount'
  OBVIOUS
<1>1. CASE UNCHANGED <<line, left, begun, received, incomingBuffer, down>>
  <2>1. PartialThreads' = PartialThreads
    BY <1>1 DEF PartialThreads, Partial
  <2> QED BY <1>1, <2>1 DEF LineCount
<1>2. CASE ServerRecv \/ ServerNoLine \/ SendAuth \/ SendCommand \/ AuthTimesOut \/ UNCHANGED vars
  <2>1. UNCHANGED <<line, left, begun, received, incomingBuffer, down>>
    BY <1>2 DEF ServerRecv, ServerNoLine, SendAuth, SendCommand, ClientSend, AuthTimesOut,
                vars, clientVars, sendVars
  <2> QED BY <1>1, <2>1
<1>3. ASSUME NEW t \in Threads, NEW x \in Plain, left[t] = 0, StartLine(t, x), UNCHANGED <<clientVars, down>>
      PROVE  LineCount'
  <2>1. /\ ~Partial(t) /\ ~Partial(t)' /\ UNCHANGED <<begun, torn>>
        /\ \A u \in Threads \ {t} : line'[u] = line[u] /\ left'[u] = left[u]
    BY <1>3, StartLines
  <2>2. \A u \in Threads \ {t} : Partial(u)' <=> Partial(u)
    BY <2>1 DEF Partial
  <2>3. PartialThreads' = PartialThreads
    BY <2>1, <2>2 DEF PartialThreads
  <2>4. UNCHANGED <<received, incomingBuffer, down>>
    BY <1>3 DEF clientVars
  <2> QED BY <2>1, <2>3, <2>4 DEF LineCount
<1>4. CASE ServerLine
  <2>1. Handler \in Threads
    BY DEF Threads
  <2>2. PICK x \in Plain : StartLine(Handler, x)
    BY <1>4, PlainTexts DEF ServerLine, ReplyTo
  <2> QED BY <1>3, <1>4, <2>1, <2>2 DEF ServerLine
<1>5. ASSUME NEW t \in Threads, OtherLine(t)
      PROVE  LineCount'
  BY <1>3, <1>5, PlainTexts DEF OtherLine
<1>6. ASSUME NEW t \in Threads, SendSome(t)
      PROVE  LineCount'
  BY <1>6, SendKeepsCount
<1>7. /\ down \in Seq(Byte) /\ incomingBuffer \in Seq(Byte) /\ received \in Seq(Plain) /\ begun \in Seq(Plain)
  BY DEF WireType
<1> DEFINE lr == Len(received)
           lb == Len(begun)
           ni == Newlines(incomingBuffer)
           nd == Newlines(down)
           cp == Cardinality(PartialThreads)
<1>8. lr \in Nat /\ lb \in Nat
  BY <1>7
<1>9. ni \in Nat /\ nd \in Nat /\ cp \in Nat
  BY <1>7, NewlinesType, PartialType
<1>10. lr + ni + nd + cp <= lb
  BY DEF LineCount
<1>11. ASSUME NEW got \in RecvOf(down), down' = After(down, got)
       PROVE  /\ got \in Seq(Byte) /\ Newlines(got) \in Nat /\ Newlines(down') \in Nat
              /\ nd = Newlines(got) + Newlines(down')
  <2>1. got \in Seq(Byte) /\ down' \in Seq(Byte) /\ down = got \o down'
    BY <1>7, <1>11, RecvSplits
  <2>2. Newlines(got \o down') = Newlines(got) + Newlines(down')
    BY <2>1, NewlinesConcat
  <2> QED BY <2>1, <2>2, NewlinesType
<1>12. ASSUME UNCHANGED sendVars
       PROVE  PartialThreads' = PartialThreads /\ begun' = begun
  BY <1>12 DEF PartialThreads, Partial, sendVars
<1>13. CASE AuthRecv
  <2>1. PICK got \in RecvOf(down) : down' = After(down, got)
    BY <1>13 DEF AuthRecv
  <2>2. UNCHANGED <<received, incomingBuffer>> /\ UNCHANGED sendVars
    BY <1>13 DEF AuthRecv
  <2>3. Newlines(got) \in Nat /\ Newlines(down') \in Nat /\ nd = Newlines(got) + Newlines(down')
    BY <1>11, <2>1
  <2> HIDE DEF lr, lb, ni, nd, cp
  <2>4. lr + ni + Newlines(down') + cp <= lb
    BY <1>8, <1>9, <1>10, <2>3
  <2> QED BY <1>12, <2>2, <2>4 DEF LineCount, lr, lb, ni, cp
<1>14. CASE ClientRecv
  <2>1. PICK got \in RecvOf(down) : down' = After(down, got) /\ incomingBuffer' = incomingBuffer \o got
    BY <1>14 DEF ClientRecv
  <2>2. received' = received /\ UNCHANGED sendVars
    BY <1>14 DEF ClientRecv
  <2>3. /\ got \in Seq(Byte) /\ Newlines(got) \in Nat /\ Newlines(down') \in Nat
        /\ nd = Newlines(got) + Newlines(down')
    BY <1>11, <2>1
  <2>4. Newlines(incomingBuffer') = ni + Newlines(got)
    BY <1>7, <2>1, <2>3, NewlinesConcat
  <2> HIDE DEF lr, lb, ni, nd, cp
  <2>5. lr + Newlines(incomingBuffer') + Newlines(down') + cp <= lb
    BY <1>8, <1>9, <1>10, <2>3, <2>4
  <2> QED BY <1>12, <2>2, <2>5 DEF LineCount, lr, lb, cp
<1>15. CASE ClientLine
  <2>1. PICK m, rest : m = FirstLine(incomingBuffer) /\ rest = RestLines(incomingBuffer)
    OBVIOUS
  <2>2. /\ Find(incomingBuffer) > 0 /\ received' = Append(received, Text(m)) /\ incomingBuffer' = rest
        /\ down' = down /\ UNCHANGED sendVars
    BY <1>15, <2>1 DEF ClientLine
  <2>3. m \in Plain /\ rest \in Seq(Byte) /\ incomingBuffer = Append(m, NL) \o rest
    BY <1>7, <2>1, <2>2, SplitLine
  <2>4. Append(m, NL) \in Seq(Byte) /\ Newlines(rest) \in Nat
    BY <2>3, PlainIsBytes, NewlinesType
  <2>5. ni = Newlines(Append(m, NL)) + Newlines(rest)
    BY <2>3, <2>4, NewlinesConcat
  <2>6. Newlines(Append(m, NL)) = 1
    <3> DEFINE b == Append(m, NL)
    <3>1. Len(b) = Len(m) + 1 /\ Len(m) \in Nat /\ Len(m) + 1 \in 1..(Len(m) + 1)
      BY <2>3, PlainIsBytes DEF Plain
    <3>2. SubSeq(b, 1, Len(b)) = b
      BY <2>4, SubSeqFull
    <3> HIDE DEF b
    <3>3. Newlines(SubSeq(b, Len(b) - (Len(m) + 1) + 1, Len(b))) = 1
      BY <2>3, <3>1, NewlinesOfEnd DEF b
    <3>4. Len(b) - (Len(m) + 1) + 1 = 1
      BY <3>1
    <3> QED BY <3>2, <3>3, <3>4 DEF b
  <2>7. Len(received') = lr + 1
    BY <1>7, <2>2, <2>3, TextOfLine, AppendProperties
  <2> HIDE DEF lr, lb, ni, nd, cp
  <2>8. Len(received') + Newlines(rest) + nd + cp <= lb
    BY <1>8, <1>9, <1>10, <2>4, <2>5, <2>6, <2>7
  <2> QED BY <1>12, <2>2, <2>8 DEF LineCount, lb, nd, cp
<1> QED BY <1>2, <1>4, <1>5, <1>6, <1>13, <1>14, <1>15 DEF Next, ServerStep

\* The parts of the type that need no other.
LoopType == Len(sent) <= MaxSends /\ pc \in {"recv", "lines"} /\ authorized \in BOOLEAN

LEMMA LoopStep == LoopType /\ CommandsInv /\ [Next]_vars => LoopType'
<1> SUFFICES ASSUME LoopType, CommandsInv, [Next]_vars PROVE LoopType'
  OBVIOUS
<1>1. ASSUME NEW m \in Plain, ClientSend(m)
      PROVE  LoopType'
  <2>1. Len(sent) < MaxSends /\ sent' = Append(sent, m) /\ UNCHANGED <<pc, authorized>>
    BY <1>1 DEF ClientSend, handleVars
  <2>2. Len(Append(sent, m)) = Len(sent) + 1 /\ Len(sent) \in Nat
    BY AppendProperties DEF CommandsInv
  <2> QED BY <2>1, <2>2, WireAssumption DEF LoopType
<1>2. CASE SendAuth \/ SendCommand
  BY <1>1, <1>2, PlainTexts DEF SendAuth, SendCommand
<1>3. CASE ServerRecv \/ ServerNoLine
  BY <1>3 DEF ServerRecv, ServerNoLine, LoopType, clientVars
<1>4. CASE ServerLine
  <2>1. authorized' \in BOOLEAN
    BY <1>4, Zenon DEF ServerLine, LoopType
  <2>2. pc' = "lines" /\ sent' = sent
    BY <1>4 DEF ServerLine, AfterLine, clientVars
  <2> QED BY <2>1, <2>2 DEF LoopType
<1>5. CASE \/ \E t \in Threads : OtherLine(t) \/ SendSome(t)
           \/ AuthRecv \/ AuthTimesOut \/ ClientRecv \/ ClientLine \/ UNCHANGED vars
  <2>1. UNCHANGED <<sent, pc, authorized>>
    BY <1>5 DEF OtherLine, SendSome, AuthRecv, AuthTimesOut, ClientRecv, ClientLine, vars, clientVars, handleVars
  <2> QED BY <2>1 DEF LoopType
<1> QED BY <1>2, <1>3, <1>4, <1>5 DEF Next, ServerStep

\* The commands handled are never more than were sent, nor the lines taken more than have
\* begun, and no send_line has more left to send than its line is long.
THEOREM WireTypes == Spec => []TypeOK
<1> DEFINE Inv == WireType /\ CommandsInv /\ LineCount /\ LoopType
<1>1. Init => Inv
  <2>1. Init => LoopType
    <3> SUFFICES ASSUME Init PROVE LoopType
      OBVIOUS
    <3>1. Len(<<>>) = 0 /\ MaxSends \in Nat
      BY WireAssumption
    <3>2. sent = <<>> /\ pc = "recv" /\ authorized = FALSE
      BY DEF Init
    <3>3. Len(sent) <= MaxSends
      BY <3>1, <3>2
    <3> QED BY <3>2, <3>3 DEF LoopType
  <2> QED BY <2>1, WireInit, CommandsInit, CountInit
<1>2. Inv /\ [Next]_vars => Inv'
  BY WireStep, CommandsStep, CountStep, LoopStep
<1>3. Inv => TypeOK
  <2> SUFFICES ASSUME Inv PROVE TypeOK
    OBVIOUS
  <2>1. Len(handled) <= Len(sent)
    <3>1. Len(handled) <= Len([i \in DOMAIN sent |-> Outcome(sent[i])])
      BY CommandsInvImplies DEF CommandsWhole, IsPrefix
    <3>2. sent \in Seq(Plain)
      BY DEF CommandsInv
    <3> QED BY <3>1, <3>2
  <2>2. Len(received) <= Len(begun)
    <3>1. /\ incomingBuffer \in Seq(Byte) /\ down \in Seq(Byte)
          /\ received \in Seq(Plain) /\ begun \in Seq(Plain)
      BY DEF WireType
    <3>2. Newlines(incomingBuffer) \in Nat /\ Newlines(down) \in Nat /\ Cardinality(PartialThreads) \in Nat
      BY <3>1, NewlinesType, PartialType
    <3>3. Len(received) \in Nat /\ Len(begun) \in Nat
      BY <3>1
    <3>4. Len(received) + Newlines(incomingBuffer) + Newlines(down) + Cardinality(PartialThreads) <= Len(begun)
      BY DEF LineCount
    <3> QED BY <3>2, <3>3, <3>4
  <2> QED BY <2>1, <2>2 DEF WireType, LoopType, TypeOK
<1> HIDE DEF Inv
<1>4. Spec => []Inv
  BY <1>1, <1>2, PTL DEF Spec
<1> QED BY <1>3, <1>4, PTL

=============================================================================
