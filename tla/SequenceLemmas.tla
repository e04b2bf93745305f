--------------------------- MODULE SequenceLemmas ---------------------------
(***************************************************************************)
(* Facts about the operators on sequences that the models are built from:  *)
(* what FlattenSeq returns, what a least element is, and how prefixes and  *)
(* adjacent parts of a sequence fit together.                              *)
(***************************************************************************)
EXTENDS SequencesExt, Naturals, TLAPS, SequenceTheorems, WellFoundedInduction

\* A set of natural numbers that is not empty has a least element.  This is the
\* induction the lemmas below rest on: a least counterexample is impossible.
LEMMA LeastNatural ==
  ASSUME NEW T \in SUBSET Nat, T # {}
  PROVE  \E m \in T : \A k \in T : m <= k
<1>1. \E m \in T : \A k \in T : <<k, m>> \notin OpToRel(<, Nat)
  BY NatLessThanWellFounded, WFMin, Zenon
<1>2. PICK m \in T : \A k \in T : <<k, m>> \notin OpToRel(<, Nat)
  BY <1>1
<1>3. ASSUME NEW k \in T PROVE ~(k < m)
  BY <1>2 DEF OpToRel
<1> QED BY <1>3

\* Min of a set of natural numbers is one of them.
LEMMA MinInSet ==
  ASSUME NEW T \in SUBSET Nat, T # {}
  PROVE  Min(T) \in T
BY LeastNatural, Zenon DEF Min

\* FlattenSeq(ss) is the last value of a function on the places of ss, each value
\* of which is the one before with the next sequence appended.
LEMMA FlattenSteps ==
  ASSUME NEW S, NEW ss \in Seq(Seq(S)), Len(ss) # 0
  PROVE  \E f \in [1..Len(ss) -> Seq(S)] :
           /\ FlattenSeq(ss) = f[Len(ss)]
           /\ \A i \in 1..Len(ss) : f[i] = IF i = 1 THEN ss[i] ELSE f[i - 1] \o ss[i]
<1> DEFINE n == Len(ss)
           Step(f, i) == IF i = 1 THEN ss[i] ELSE f[i - 1] \o ss[i]
           Flattens(f, k) == \A i \in 1..k : f[i] = Step(f, i)
<1>1. n \in Nat /\ \A i \in 1..n : ss[i] \in Seq(S)
  BY LenProperties, ElementOfSeq
<1> HIDE DEF n
<1>2. \A k \in 1..n : \E f \in [1..k -> Seq(S)] : Flattens(f, k)
  <2> DEFINE T == {k \in 1..n : ~\E f \in [1..k -> Seq(S)] : Flattens(f, k)}
  <2>1. SUFFICES ASSUME T # {} PROVE FALSE
    OBVIOUS
  <2>2. PICK m \in T : \A k \in T : m <= k
    <3>1. T \in SUBSET Nat
      BY <1>1
    <3> QED BY <2>1, <3>1, LeastNatural, Zenon
  <2>3. m \in 1..n /\ ~\E f \in [1..m -> Seq(S)] : Flattens(f, m)
    OBVIOUS
  <2>4. CASE m = 1
    <3> DEFINE g == [i \in 1..1 |-> ss[1]]
    <3>1. g \in [1..1 -> Seq(S)]
      BY <1>1, <2>3, <2>4
    <3>2. Flattens(g, 1)
      OBVIOUS
    <3> QED BY <2>3, <2>4, <3>1, <3>2
  <2>5. CASE m # 1
    <3> DEFINE l == m - 1
    <3>1. l \in 1..n /\ l < m /\ m \in Nat /\ m = l + 1
      BY <1>1, <2>3, <2>5
    <3> HIDE DEF l
    <3>2. l \notin T
      <4> HIDE DEF T
      <4> QED BY <1>1, <2>2, <3>1
    <3>3. \E f \in [1..l -> Seq(S)] : Flattens(f, l)
      BY <3>1, <3>2
    <3>4. PICK f \in [1..l -> Seq(S)] : Flattens(f, l)
      BY <3>3
    <3> DEFINE g == [i \in 1..m |-> IF i = m THEN f[l] \o ss[m] ELSE f[i]]
    <3>5. g \in [1..m -> Seq(S)]
      <4>1. f[l] \o ss[m] \in Seq(S)
        BY <1>1, <2>3, <3>1, ConcatProperties
      <4> QED BY <1>1, <2>3, <3>1, <4>1
    <3>6. ASSUME NEW i \in 1..m
          PROVE  g[i] = Step(g, i)
      <4>1. CASE i = m
        <5>1. g[m - 1] = f[l] /\ g[m] = f[l] \o ss[m]
          <6>1. m \in 1..m /\ l \in 1..m /\ l # m /\ m - 1 = l
            BY <3>1
          <6> QED BY <6>1
        <5> QED BY <2>5, <4>1, <5>1
      <4>2. CASE i # m
        <5>1. i \in 1..l /\ g[i] = f[i]
          BY <1>1, <2>3, <3>1, <4>2
        <5>2. f[i] = Step(f, i)
          BY <3>4, <5>1
        <5>3. i # 1 => i - 1 \in 1..l /\ g[i - 1] = f[i - 1]
          BY <1>1, <2>3, <3>1, <5>1
        <5> QED BY <5>1, <5>2, <5>3
      <4> QED BY <4>1, <4>2
    <3> HIDE DEF g, Step
    <3>7. Flattens(g, m)
      BY <3>6
    <3> QED BY <2>3, <3>5, <3>7
  <2> QED BY <2>4, <2>5
<1>3. n # 0
  BY DEF n
<1> QED
  <2> DEFINE flatten == CHOOSE f : f = [i \in 1..n |-> Step(f, i)]
  <2>1. \E f : f = [i \in 1..n |-> Step(f, i)]
    <3>1. n \in 1..n
      BY <1>1, <1>3
    <3>2. PICK f \in [1..n -> Seq(S)] : Flattens(f, n)
      BY <1>2, <3>1, Zenon
    <3>3. f = [i \in 1..n |-> Step(f, i)]
      BY <3>2
    <3> QED BY <3>3
  <2>2. flatten = [i \in 1..n |-> Step(flatten, i)]
    BY <2>1
  <2>3. FlattenSeq(ss) = flatten[n]
    BY <1>1, <1>3, Zenon DEF FlattenSeq, n
  <2> HIDE DEF flatten
  <2>4. \A i \in 1..n : flatten[i] \in Seq(S)
    <3> DEFINE T == {i \in 1..n : flatten[i] \notin Seq(S)}
    <3>1. SUFFICES ASSUME T # {} PROVE FALSE
      OBVIOUS
    <3>2. PICK m \in T : \A k \in T : m <= k
      <4>1. T \in SUBSET Nat
        BY <1>1
      <4> QED BY <3>1, <4>1, LeastNatural, Zenon
    <3>3. flatten[m] = Step(flatten, m)
      BY <2>2
    <3>4. m # 1
      BY <1>1, <3>3
    <3>5. m - 1 \in 1..n /\ flatten[m - 1] \in Seq(S)
      BY <1>1, <3>2, <3>4
    <3> QED BY <1>1, <3>3, <3>4, <3>5, ConcatProperties
  <2>5. flatten \in [1..n -> Seq(S)]
    BY <2>2, <2>4
  <2> QED BY <2>2, <2>3, <2>5 DEF n

\* FlattenSeq joins sequences over S to a sequence over S.
LEMMA FlattenSeqType ==
  ASSUME NEW S, NEW ss \in Seq(Seq(S))
  PROVE  FlattenSeq(ss) \in Seq(S)
<1>1. CASE Len(ss) = 0
  BY <1>1, EmptySeq DEF FlattenSeq
<1>2. CASE Len(ss) # 0
  <2>1. Len(ss) \in 1..Len(ss)
    BY <1>2, LenProperties
  <2> QED BY <1>2, <2>1, FlattenSteps
<1> QED BY <1>1, <1>2

\* One more sequence comes after what was joined before.
LEMMA FlattenAppend ==
  ASSUME NEW S, NEW ss \in Seq(Seq(S)), NEW s \in Seq(S)
  PROVE  FlattenSeq(Append(ss, s)) = FlattenSeq(ss) \o s
<1> DEFINE n == Len(ss)
           tt == Append(ss, s)
<1>1. /\ n \in Nat /\ tt \in Seq(Seq(S)) /\ Len(tt) = n + 1 /\ tt[n + 1] = s
      /\ \A i \in 1..n : tt[i] = ss[i]
  BY LenProperties, AppendProperties
<1>2. PICK g \in [1..(n + 1) -> Seq(S)] :
        /\ FlattenSeq(tt) = g[n + 1]
        /\ \A i \in 1..(n + 1) : g[i] = IF i = 1 THEN tt[i] ELSE g[i - 1] \o tt[i]
  <2>1. Len(tt) # 0
    BY <1>1
  <2> HIDE DEF tt
  <2>2. \E g \in [1..Len(tt) -> Seq(S)] :
          /\ FlattenSeq(tt) = g[Len(tt)]
          /\ \A i \in 1..Len(tt) : g[i] = IF i = 1 THEN tt[i] ELSE g[i - 1] \o tt[i]
    BY <1>1, <2>1, FlattenSteps, Zenon
  <2> QED BY <1>1, <2>2
<1> HIDE DEF tt, n
<1>3. CASE n = 0
  <2>1. FlattenSeq(tt) = s
    BY <1>1, <1>2, <1>3
  <2>2. FlattenSeq(ss) = <<>>
    BY <1>3, EmptySeq DEF FlattenSeq, n
  <2> QED BY <2>1, <2>2, ConcatEmptySeq DEF tt
<1>4. CASE n # 0
  <2>1. PICK f \in [1..n -> Seq(S)] :
          /\ FlattenSeq(ss) = f[n]
          /\ \A i \in 1..n : f[i] = IF i = 1 THEN ss[i] ELSE f[i - 1] \o ss[i]
    BY <1>4, FlattenSteps, Zenon DEF n
  <2>2. \A i \in 1..n : f[i] = g[i]
    <3> DEFINE T == {i \in 1..n : f[i] # g[i]}
    <3>1. SUFFICES ASSUME T # {} PROVE FALSE
      OBVIOUS
    <3>2. PICK m \in T : \A k \in T : m <= k
      <4>1. T \in SUBSET Nat
        BY <1>1
      <4> QED BY <3>1, <4>1, LeastNatural, Zenon
    <3>3. m \in 1..n /\ m \in 1..(n + 1) /\ f[m] # g[m]
      BY <1>1, <3>2
    <3>4. CASE m = 1
      BY <1>1, <1>2, <2>1, <3>3, <3>4
    <3>5. CASE m # 1
      <4>1. m - 1 \in 1..n /\ m - 1 \notin T
        <5>1. m - 1 \in 1..n /\ ~(m <= m - 1)
          BY <1>1, <3>3, <3>5
        <5> QED BY <3>2, <5>1, Zenon
      <4>2. f[m - 1] = g[m - 1]
        BY <4>1
      <4>3. f[m] = f[m - 1] \o ss[m]
        BY <2>1, <3>3, <3>5
      <4>4. g[m] = g[m - 1] \o tt[m]
        BY <1>2, <3>3, <3>5
      <4>5. tt[m] = ss[m]
        BY <1>1, <3>3
      <4> QED BY <3>3, <4>2, <4>3, <4>4, <4>5, Zenon
    <3> QED BY <3>4, <3>5
  <2>3. g[n + 1] = g[n] \o s
    <3>1. n + 1 \in 1..(n + 1) /\ n + 1 # 1 /\ n + 1 - 1 = n
      BY <1>1, <1>4
    <3> DEFINE m == n + 1
    <3>2. m \in 1..(n + 1) /\ m # 1
      BY <3>1
    <3> HIDE DEF m
    <3>3. g[m] = g[m - 1] \o tt[m]
      BY <1>2, <3>2
    <3>4. m - 1 = n /\ tt[m] = s
      BY <1>1, <3>1 DEF m
    <3> QED BY <3>3, <3>4, Zenon DEF m
  <2>4. f[n] = g[n]
    BY <1>1, <1>4, <2>2
  <2> QED BY <1>2, <2>1, <2>3, <2>4 DEF tt
<1> QED BY <1>3, <1>4


\* One sequence alone is joined to itself.
LEMMA FlattenOne ==
  ASSUME NEW S, NEW s \in Seq(S)
  PROVE  FlattenSeq(<<s>>) = s
<1>1. <<>> \in Seq(Seq(S)) /\ <<>> \in Seq(S) /\ FlattenSeq(<<>>) = <<>>
  BY EmptySeq DEF FlattenSeq
<1>2. FlattenSeq(Append(<<>>, s)) = <<>> \o s
  BY <1>1, FlattenAppend
<1>3. Append(<<>>, s) = <<s>> /\ <<>> \o s = s
  BY <1>1, ConcatEmptySeq, AppendProperties
<1> QED BY <1>2, <1>3

-----------------------------------------------------------------------------
\* A function on 1..n is a sequence of n elements.
LEMMA FunctionIsSeq ==
  ASSUME NEW S, NEW n \in Nat, NEW f \in [1..n -> S]
  PROVE  f \in Seq(S)
BY SeqDef, Zenon

\* A sequence of one element.
LEMMA SingletonSeq ==
  ASSUME NEW S, NEW e \in S
  PROVE  <<e>> \in Seq(S) /\ Len(<<e>>) = 1 /\ <<e>>[1] = e
OBVIOUS

\* A sequence of two elements.
LEMMA PairSeq ==
  ASSUME NEW S, NEW x \in S, NEW y \in S
  PROVE  <<x>> \o <<y>> = <<x, y>> /\ <<x, y>> \in Seq(S)
<1> DEFINE p == <<x>> \o <<y>>
<1>1. <<x>> \in Seq(S) /\ Len(<<x>>) = 1 /\ <<x>>[1] = x /\ <<y>> \in Seq(S) /\ Len(<<y>>) = 1 /\ <<y>>[1] = y
  BY SingletonSeq
<1>2. /\ p \in Seq(S) /\ Len(p) = 2
      /\ \A k \in 1..2 : p[k] = IF k <= 1 THEN <<x>>[k] ELSE <<y>>[k - 1]
  BY <1>1, ConcatProperties
<1> HIDE DEF p
<1>3. p[1] = x /\ p[2] = y
  BY <1>1, <1>2
<1>4. <<x, y>> \in Seq(S) /\ Len(<<x, y>>) = 2 /\ <<x, y>>[1] = x /\ <<x, y>>[2] = y
  OBVIOUS
<1>5. \A k \in 1..2 : p[k] = <<x, y>>[k]
  BY <1>3, <1>4
<1>6. p = <<x, y>>
  BY <1>2, <1>4, <1>5, SeqEqual
<1> QED BY <1>4, <1>6 DEF p

\* What lies between two places of a sequence continues what lies before.
LEMMA ReadOn ==
  ASSUME NEW S, NEW s \in Seq(S), NEW i \in 0..Len(s), NEW k \in i..Len(s)
  PROVE  /\ SubSeq(s, 1, i) \in Seq(S) /\ Len(SubSeq(s, 1, i)) = i
         /\ SubSeq(s, i + 1, k) \in Seq(S)
         /\ SubSeq(s, 1, i) \o SubSeq(s, i + 1, k) = SubSeq(s, 1, k)
<1>1. /\ Len(s) \in Nat /\ i \in Int /\ i + 1 \in Int /\ k \in Int /\ 1 \in Int
      /\ 1 \in 1..Len(s) + 1 /\ i \in 1 - 1..Len(s)
      /\ 0 <= i /\ i - 1 + 1 = i
  BY LenProperties
<1>2. \A j \in 1..Len(s) : s[j] \in S
  BY ElementOfSeq
<1>3. (\A j \in 1..i : s[j] \in S) /\ (\A j \in i + 1..k : s[j] \in S)
  BY <1>1, <1>2
<1>4. SubSeq(s, i + 1, k) \in Seq(S)
  BY <1>1, <1>3, SubSeqProperties, Zenon
<1>5. SubSeq(s, 1, i) \in Seq(S) /\ Len(SubSeq(s, 1, i)) = IF 1 <= i THEN i - 1 + 1 ELSE 0
  <2>1. 1 \in Int /\ i \in Int /\ \A j \in 1..i : s[j] \in S
    BY <1>1, <1>3
  <2> QED BY <2>1, SubSeqProperties
<1>6. SubSeq(s, 1, i) \o SubSeq(s, i + 1, k) = SubSeq(s, 1, k)
  BY <1>1, ConcatAdjacentSubSeq, Zenon
<1> QED BY <1>1, <1>4, <1>5, <1>6

\* One element further on.
LEMMA ReadOne ==
  ASSUME NEW S, NEW s \in Seq(S), NEW i \in 0..Len(s), i < Len(s)
  PROVE  s[i + 1] \in S /\ SubSeq(s, i + 1, i + 1) = <<s[i + 1]>>
<1>1. Len(s) \in Nat /\ i + 1 \in 1..Len(s) /\ i + 1 \in Int
  BY LenProperties
<1>2. s[i + 1] \in S
  BY <1>1, ElementOfSeq
<1>3. i + 1 <= i + 1 /\ (i + 1) - (i + 1) + 1 = 1 /\ i + 1 + 1 - 1 = i + 1
      /\ \A j \in i + 1..i + 1 : j = i + 1
  BY <1>1
<1>4. /\ SubSeq(s, i + 1, i + 1) \in Seq(S)
      /\ Len(SubSeq(s, i + 1, i + 1)) = IF i + 1 <= i + 1 THEN (i + 1) - (i + 1) + 1 ELSE 0
      /\ \A j \in 1..(i + 1) - (i + 1) + 1 : SubSeq(s, i + 1, i + 1)[j] = s[i + 1 + j - 1]
  BY <1>1, <1>2, <1>3, SubSeqProperties
<1>5. Len(SubSeq(s, i + 1, i + 1)) = 1 /\ SubSeq(s, i + 1, i + 1)[1] = s[i + 1]
  BY <1>3, <1>4
<1>6. /\ <<s[i + 1]>> \in Seq(S) /\ Len(<<s[i + 1]>>) = 1
      /\ \A j \in 1..1 : SubSeq(s, i + 1, i + 1)[j] = <<s[i + 1]>>[j]
  BY <1>2, <1>5, SingletonSeq
<1>7. SubSeq(s, i + 1, i + 1) = <<s[i + 1]>>
  BY <1>4, <1>5, <1>6, SeqEqual
<1> QED BY <1>2, <1>7

\* Sequences that agree up to a place have the same first part.
LEMMA SamePart ==
  ASSUME NEW S, NEW s \in Seq(S), NEW t \in Seq(S), NEW i \in 0..Len(s), i \in 0..Len(t),
         \A k \in 1..i : s[k] = t[k]
  PROVE  SubSeq(s, 1, i) = SubSeq(t, 1, i)
<1>1. /\ SubSeq(s, 1, i) \in Seq(S) /\ Len(SubSeq(s, 1, i)) = i
      /\ SubSeq(t, 1, i) \in Seq(S) /\ Len(SubSeq(t, 1, i)) = i
  BY LenProperties, ReadOn
<1>2. ASSUME NEW k \in 1..i PROVE SubSeq(s, 1, i)[k] = SubSeq(t, 1, i)[k]
  <2>1. 1 \in Int /\ i \in Int /\ k \in 1..(i - 1 + 1) /\ 1 + k - 1 = k
    BY LenProperties
  <2>2. (\A l \in 1..i : s[l] \in S) /\ (\A l \in 1..i : t[l] \in S)
    BY LenProperties, ElementOfSeq
  <2>3. SubSeq(s, 1, i)[k] = s[1 + k - 1]
    BY <2>1, <2>2, SubSeqProperties
  <2>4. SubSeq(t, 1, i)[k] = t[1 + k - 1]
    BY <2>1, <2>2, SubSeqProperties
  <2> QED BY <2>1, <2>3, <2>4
<1> QED BY <1>1, <1>2, SeqEqual

\* The first part of a part from the start is a prefix.
LEMMA PartIsPrefix ==
  ASSUME NEW S, NEW a \in Seq(S), NEW b \in Seq(S), NEW s \in Seq(S),
         NEW i \in 0..Len(s), a \o b = SubSeq(s, 1, i)
  PROVE  IsPrefix(a, s)
<1>1. Len(a) \in Nat /\ Len(b) \in Nat /\ Len(s) \in Nat
  BY LenProperties
<1>2. Len(SubSeq(s, 1, i)) = i
  BY <1>1, ReadOn
<1>3. Len(a \o b) = Len(a) + Len(b) /\ Len(a) + Len(b) = i /\ Len(a) <= Len(s)
  BY <1>1, <1>2, ConcatProperties
<1>4. SubSeq(a, 1, Len(a)) = a
  BY SubSeqFull
<1>5. SubSeq(s, 1, Len(a)) \in Seq(S) /\ Len(SubSeq(s, 1, Len(a))) = Len(a)
  BY <1>1, <1>3, ReadOn
<1>6. \A j \in 1..Len(a) : SubSeq(s, 1, Len(a))[j] = a[j]
  <2>1. SUFFICES ASSUME NEW j \in 1..Len(a) PROVE SubSeq(s, 1, Len(a))[j] = a[j]
    OBVIOUS
  <2>2. (a \o b)[j] = a[j]
    BY <1>1, ConcatProperties
  <2>3. SubSeq(s, 1, i)[j] = s[j] /\ SubSeq(s, 1, Len(a))[j] = s[j]
    <3>1. j \in 1..i /\ \A l \in 1..Len(s) : s[l] \in S
      BY <1>1, <1>3, ElementOfSeq
    <3> QED BY <1>1, <1>3, <3>1, SubSeqProperties
  <2> QED BY <2>2, <2>3
<1>7. SubSeq(s, 1, Len(a)) = a
  BY <1>5, <1>6, SeqEqual
<1> QED BY <1>3, <1>4, <1>7 DEF IsPrefix

\* A sequence is a prefix of what begins with it.
LEMMA PrefixOfConcat ==
  ASSUME NEW S, NEW a \in Seq(S), NEW b \in Seq(S)
  PROVE  IsPrefix(a, a \o b)
<1>1. a \o b \in Seq(S) /\ Len(a \o b) \in Nat
  BY ConcatProperties, LenProperties
<1>2. SubSeq(a \o b, 1, Len(a \o b)) = a \o b
  BY <1>1, SubSeqFull, Zenon
<1>3. Len(a \o b) \in 0..Len(a \o b)
  BY <1>1
<1> QED BY <1>1, <1>2, <1>3, PartIsPrefix, Zenon

\* Where a prefix is, there is its element.
LEMMA PrefixAt ==
  ASSUME NEW S, NEW a \in Seq(S), NEW b \in Seq(S), IsPrefix(a, b), NEW k \in 1..Len(a)
  PROVE  b[k] = a[k] /\ k \in 1..Len(b)
<1>1. /\ Len(a) \in Nat /\ Len(b) \in Nat /\ Len(a) <= Len(b)
      /\ SubSeq(a, 1, Len(a)) = SubSeq(b, 1, Len(a))
  BY LenProperties DEF IsPrefix
<1>2. \A l \in 1..Len(a) : a[l] \in S /\ b[l] \in S
  BY <1>1, ElementOfSeq
<1>3. SubSeq(a, 1, Len(a))[k] = a[k]
  BY SubSeqFull
<1>4. SubSeq(b, 1, Len(a))[k] = b[k]
  BY <1>1, <1>2, SubSeqProperties
<1> QED BY <1>1, <1>3, <1>4

\* A prefix of a prefix is one.
LEMMA PrefixOfPrefix ==
  ASSUME NEW S, NEW a \in Seq(S), NEW b \in Seq(S), NEW c \in Seq(S),
         IsPrefix(a, b), IsPrefix(b, c)
  PROVE  IsPrefix(a, c)
<1>1. /\ Len(a) \in Nat /\ Len(b) \in Nat /\ Len(c) \in Nat
      /\ Len(a) <= Len(b) /\ Len(b) <= Len(c)
  BY LenProperties DEF IsPrefix
<1>2. ASSUME NEW k \in 1..Len(a) PROVE c[k] = a[k]
  <2>1. k \in 1..Len(b) /\ b[k] = a[k]
    BY <1>2, PrefixAt
  <2> QED BY <2>1, PrefixAt
<1>3. SubSeq(c, 1, Len(a)) \in Seq(S) /\ Len(SubSeq(c, 1, Len(a))) = Len(a)
  <2>1. 0 \in 0..Len(c) /\ Len(a) \in 0..Len(c) /\ Len(a) \in Len(a)..Len(c)
    BY <1>1
  <2> QED BY <2>1, ReadOn
<1>4. ASSUME NEW k \in 1..Len(a) PROVE SubSeq(c, 1, Len(a))[k] = a[k]
  <2>1. \A l \in 1..Len(a) : c[l] \in S
    BY <1>1, ElementOfSeq
  <2>2. SubSeq(c, 1, Len(a))[k] = c[k]
    BY <1>1, <2>1, SubSeqProperties
  <2> QED BY <1>2, <2>2
<1>5. SubSeq(c, 1, Len(a)) = a
  BY <1>3, <1>4, SeqEqual
<1>6. SubSeq(a, 1, Len(a)) = a
  BY SubSeqFull
<1> QED BY <1>1, <1>5, <1>6 DEF IsPrefix

\* It does not matter in which order parts are put together.
LEMMA Regroup ==
  ASSUME NEW S, NEW s \in Seq(S), NEW t \in Seq(S), NEW u \in Seq(S)
  PROVE  (s \o t) \o u = s \o (t \o u)
BY ConcatAssociative

\* A prefix stays one behind the same beginning.
LEMMA PrefixAfter ==
  ASSUME NEW S, NEW a \in Seq(S), NEW b \in Seq(S), NEW c \in Seq(S), IsPrefix(b, c)
  PROVE  IsPrefix(a \o b, a \o c)
<1> DEFINE n == Len(b)
           rest == SubSeq(c, n + 1, Len(c))
<1>1. n \in Nat /\ Len(c) \in Nat /\ n <= Len(c)
  BY LenProperties DEF IsPrefix
<1>2. SubSeq(c, 1, n) = b
  <2>1. SubSeq(b, 1, n) = b
    BY SubSeqFull
  <2> QED BY <2>1 DEF IsPrefix
<1>3. rest \in Seq(S) /\ b \o rest = c
  <2>1. n \in 0..Len(c) /\ Len(c) \in n..Len(c)
    BY <1>1
  <2> HIDE DEF n
  <2>2. rest \in Seq(S) /\ SubSeq(c, 1, n) \o rest = SubSeq(c, 1, Len(c))
    BY <2>1, ReadOn
  <2> QED BY <1>2, <2>2, SubSeqFull
<1> HIDE DEF rest
<1>4. PICK r \in Seq(S) : b \o r = c
  BY <1>3
<1>5. (a \o b) \o r = a \o (b \o r) /\ a \o b \in Seq(S)
  BY Regroup, ConcatProperties
<1> QED BY <1>4, <1>5, PrefixOfConcat

\* The part of a sequence up to a place, and up to the next.
LEMMA PartAppend ==
  ASSUME NEW S, NEW s \in Seq(S), NEW i \in 0..Len(s), i < Len(s)
  PROVE  /\ SubSeq(s, 1, i + 1) = SubSeq(s, 1, i) \o <<s[i + 1]>>
         /\ SubSeq(s, 1, i + 1) = Append(SubSeq(s, 1, i), s[i + 1])
<1>1. Len(s) \in Nat /\ i + 1 \in i..Len(s)
  BY LenProperties
<1>2. /\ SubSeq(s, 1, i) \in Seq(S) /\ Len(SubSeq(s, 1, i)) = i
      /\ SubSeq(s, 1, i) \o SubSeq(s, i + 1, i + 1) = SubSeq(s, 1, i + 1)
  BY <1>1, ReadOn
<1>3. s[i + 1] \in S /\ SubSeq(s, i + 1, i + 1) = <<s[i + 1]>>
  BY ReadOne
<1>4. Append(SubSeq(s, 1, i), s[i + 1]) = SubSeq(s, 1, i) \o <<s[i + 1]>>
  BY <1>2, <1>3, AppendIsConcat
<1> QED BY <1>2, <1>3, <1>4

\* Places in three sequences put together.
LEMMA InThree ==
  ASSUME NEW S, NEW a \in Seq(S), NEW b \in Seq(S), NEW c \in Seq(S)
  PROVE  /\ (a \o b) \o c = a \o (b \o c)
         /\ a \o (b \o c) \in Seq(S)
         /\ Len(a \o (b \o c)) = Len(a) + Len(b) + Len(c)
         /\ \A k \in 1..Len(a) : (a \o (b \o c))[k] = a[k]
         /\ \A k \in 1..Len(b) : (a \o (b \o c))[Len(a) + k] = b[k]
         /\ \A k \in 1..Len(c) : (a \o (b \o c))[Len(a) + Len(b) + k] = c[k]
<1>1. Len(a) \in Nat /\ Len(b) \in Nat /\ Len(c) \in Nat
  BY LenProperties
<1>2. /\ b \o c \in Seq(S) /\ Len(b \o c) = Len(b) + Len(c)
      /\ \A k \in 1..Len(b) + Len(c) : (b \o c)[k] = IF k <= Len(b) THEN b[k] ELSE c[k - Len(b)]
  BY ConcatProperties
<1> DEFINE d == b \o c
<1> HIDE DEF d
<1>3. /\ a \o d \in Seq(S) /\ Len(a \o d) = Len(a) + Len(d)
      /\ \A k \in 1..Len(a) + Len(d) : (a \o d)[k] = IF k <= Len(a) THEN a[k] ELSE d[k - Len(a)]
  BY <1>2, ConcatProperties DEF d
<1>4. \A k \in 1..Len(a) : (a \o d)[k] = a[k]
  BY <1>1, <1>2, <1>3 DEF d
<1>5. ASSUME NEW k \in 1..Len(d)
      PROVE  (a \o d)[Len(a) + k] = d[k]
  <2> DEFINE l == Len(a) + k
  <2>1. l \in 1..Len(a) + Len(d) /\ ~(l <= Len(a)) /\ l - Len(a) = k
    BY <1>1, <1>2 DEF d
  <2> HIDE DEF l
  <2>2. (a \o d)[l] = d[l - Len(a)]
    BY <1>3, <2>1
  <2> QED BY <2>1, <2>2 DEF l
<1>6. ASSUME NEW k \in 1..Len(b)
      PROVE  (a \o d)[Len(a) + k] = b[k]
  <2>1. k \in 1..Len(d) /\ k \in 1..Len(b) + Len(c) /\ k <= Len(b)
    BY <1>1, <1>2 DEF d
  <2> QED BY <1>2, <1>5, <2>1 DEF d
<1>7. ASSUME NEW k \in 1..Len(c)
      PROVE  (a \o d)[Len(a) + Len(b) + k] = c[k]
  <2>1. /\ Len(b) + k \in 1..Len(d) /\ Len(b) + k \in 1..Len(b) + Len(c)
        /\ ~(Len(b) + k <= Len(b)) /\ Len(b) + k - Len(b) = k
        /\ Len(a) + (Len(b) + k) = Len(a) + Len(b) + k
    BY <1>1, <1>2 DEF d
  <2>2. (b \o c)[Len(b) + k] = c[k]
    BY <1>2, <2>1
  <2> QED BY <1>5, <2>1, <2>2 DEF d
<1>8. (a \o b) \o c = a \o (b \o c)
  BY Regroup
<1> QED BY <1>1, <1>2, <1>3, <1>4, <1>6, <1>7, <1>8 DEF d

-----------------------------------------------------------------------------
(* Sequences joined one after the other.                                   *)

\* The first i of them.
Joined(ss, i) == FlattenSeq(SubSeq(ss, 1, i))

\* None of them, one more, and all of them.
LEMMA JoinedParts ==
  ASSUME NEW S, NEW ss \in Seq(Seq(S))
  PROVE  /\ Joined(ss, 0) = <<>>
         /\ \A i \in 0..Len(ss) : Joined(ss, i) \in Seq(S) /\ Len(Joined(ss, i)) \in Nat
         /\ \A i \in 0..Len(ss) : i < Len(ss) =>
              /\ ss[i + 1] \in Seq(S)
              /\ Joined(ss, i + 1) = Joined(ss, i) \o ss[i + 1]
              /\ Len(Joined(ss, i + 1)) = Len(Joined(ss, i)) + Len(ss[i + 1])
         /\ Joined(ss, Len(ss)) = FlattenSeq(ss)
<1>1. Len(ss) \in Nat
  BY LenProperties
<1>2. ASSUME NEW i \in 0..Len(ss)
      PROVE  SubSeq(ss, 1, i) \in Seq(Seq(S))
  BY <1>1, ReadOn
<1>3. ASSUME NEW i \in 0..Len(ss)
      PROVE  Joined(ss, i) \in Seq(S) /\ Len(Joined(ss, i)) \in Nat
  BY <1>2, FlattenSeqType, LenProperties DEF Joined
<1>4. Joined(ss, 0) = <<>>
  <2>1. SubSeq(ss, 1, 0) = <<>>
    BY SubSeqEmpty
  <2>2. FlattenSeq(<<>>) = <<>>
    BY DEF FlattenSeq
  <2> QED BY <2>1, <2>2 DEF Joined
<1>5. ASSUME NEW i \in 0..Len(ss), i < Len(ss)
      PROVE  /\ ss[i + 1] \in Seq(S)
             /\ Joined(ss, i + 1) = Joined(ss, i) \o ss[i + 1]
             /\ Len(Joined(ss, i + 1)) = Len(Joined(ss, i)) + Len(ss[i + 1])
  <2>1. ss[i + 1] \in Seq(S) /\ SubSeq(ss, 1, i + 1) = Append(SubSeq(ss, 1, i), ss[i + 1])
    <3>1. i + 1 \in 1..Len(ss)
      BY <1>1, <1>5
    <3> QED BY <1>5, <3>1, PartAppend, ElementOfSeq
  <2>2. Joined(ss, i + 1) = Joined(ss, i) \o ss[i + 1]
    BY <1>2, <2>1, FlattenAppend, Zenon DEF Joined
  <2>3. Joined(ss, i) \in Seq(S)
    BY <1>3
  <2>4. Len(Joined(ss, i) \o ss[i + 1]) = Len(Joined(ss, i)) + Len(ss[i + 1])
    BY <2>1, <2>3, ConcatProperties, Zenon
  <2> QED BY <2>1, <2>2, <2>4, Zenon
<1>6. Joined(ss, Len(ss)) = FlattenSeq(ss)
  <2>1. SubSeq(ss, 1, Len(ss)) = ss
    BY SubSeqFull
  <2> QED BY <2>1, Zenon DEF Joined
<1> QED BY <1>3, <1>4, <1>5, <1>6

\* The first i of them begin the whole.
LEMMA JoinedIsPrefix ==
  ASSUME NEW S, NEW ss \in Seq(Seq(S)), NEW i \in 0..Len(ss)
  PROVE  IsPrefix(Joined(ss, i), FlattenSeq(ss))
<1> DEFINE n == Len(ss)
           T == {m \in 0..n : ~IsPrefix(Joined(ss, n - m), FlattenSeq(ss))}
<1>1. n \in Nat
  BY LenProperties
<1>2. \A j \in 0..n : Joined(ss, j) \in Seq(S)
  BY JoinedParts
<1>3. FlattenSeq(ss) \in Seq(S)
  BY FlattenSeqType
<1> HIDE DEF n
<1>4. T = {}
  <2>1. SUFFICES ASSUME T # {} PROVE FALSE
    OBVIOUS
  <2>2. PICK m \in T : \A k \in T : m <= k
    <3>1. T \in SUBSET Nat
      BY <1>1
    <3> QED BY <2>1, <3>1, LeastNatural, Zenon
  <2>3. m \in 0..n /\ ~IsPrefix(Joined(ss, n - m), FlattenSeq(ss))
    OBVIOUS
  <2>4. CASE m = 0
    <3>1. n - m = n
      BY <1>1, <2>4
    <3>2. Joined(ss, n) = FlattenSeq(ss)
      BY JoinedParts DEF n
    <3>3. IsPrefix(FlattenSeq(ss), FlattenSeq(ss))
      BY <1>3, LenProperties DEF IsPrefix
    <3> QED BY <2>3, <3>1, <3>2, <3>3
  <2>5. CASE m # 0
    <3>1. m - 1 \in 0..n /\ ~(m <= m - 1)
          /\ n - m \in 0..n /\ n - m < n /\ n - (m - 1) = n - m + 1 /\ n - m + 1 \in 0..n
      BY <1>1, <2>3, <2>5
    <3>2. IsPrefix(Joined(ss, n - (m - 1)), FlattenSeq(ss))
      BY <2>2, <3>1, Zenon
    <3>3. ss[n - m + 1] \in Seq(S) /\ Joined(ss, n - m + 1) = Joined(ss, n - m) \o ss[n - m + 1]
      BY <3>1, JoinedParts, Zenon DEF n
    <3>4. IsPrefix(Joined(ss, n - m), Joined(ss, n - m + 1))
      BY <1>2, <3>1, <3>3, PrefixOfConcat, Zenon
    <3>5. IsPrefix(Joined(ss, n - m), FlattenSeq(ss))
      <4> HIDE DEF T
      <4> QED BY <1>2, <1>3, <3>1, <3>2, <3>4, PrefixOfPrefix, Zenon
    <3> QED BY <2>3, <3>5
  <2> QED BY <2>4, <2>5
<1>5. n - i \in 0..n /\ n - (n - i) = i
  BY <1>1 DEF n
<1> QED BY <1>4, <1>5

\* In the whole the elements of each are found behind those before it.
LEMMA JoinedAt ==
  ASSUME NEW S, NEW ss \in Seq(Seq(S)), NEW i \in 0..Len(ss), i < Len(ss),
         NEW k \in 1..Len(ss[i + 1])
  PROVE  /\ FlattenSeq(ss)[Len(Joined(ss, i)) + k] = ss[i + 1][k]
         /\ Len(Joined(ss, i)) + k \in 1..Len(FlattenSeq(ss))
<1>1. /\ Len(ss) \in Nat /\ i + 1 \in 0..Len(ss)
      /\ Joined(ss, i) \in Seq(S) /\ ss[i + 1] \in Seq(S)
      /\ Joined(ss, i + 1) \in Seq(S) /\ FlattenSeq(ss) \in Seq(S)
      /\ Len(Joined(ss, i)) \in Nat /\ Len(ss[i + 1]) \in Nat
  <2>1. Len(ss) \in Nat /\ i + 1 \in 0..Len(ss)
    BY LenProperties
  <2> QED BY <2>1, JoinedParts, FlattenSeqType, LenProperties
<1>2. /\ Joined(ss, i + 1) = Joined(ss, i) \o ss[i + 1]
      /\ Len(Joined(ss, i + 1)) = Len(Joined(ss, i)) + Len(ss[i + 1])
  BY JoinedParts
<1> DEFINE at == Len(Joined(ss, i)) + k
<1>3. at \in 1..Len(Joined(ss, i + 1)) /\ Joined(ss, i + 1)[at] = ss[i + 1][k]
  <2>1. at \in Len(Joined(ss, i)) + 1..Len(Joined(ss, i)) + Len(ss[i + 1])
        /\ at - Len(Joined(ss, i)) = k
    BY <1>1
  <2>2. at \in 1..Len(Joined(ss, i + 1)) /\ at > Len(Joined(ss, i))
    <3>1. \A p, q \in Nat : \A r \in p + 1..p + q : r \in 1..p + q /\ r > p
      OBVIOUS
    <3> QED BY <1>1, <1>2, <2>1, <3>1, Zenon
  <2>3. (Joined(ss, i) \o ss[i + 1])[at] = ss[i + 1][at - Len(Joined(ss, i))]
    BY <1>1, <1>2, <2>1, <2>2, ConcatProperties
  <2> QED BY <1>2, <2>1, <2>2, <2>3
<1>4. IsPrefix(Joined(ss, i + 1), FlattenSeq(ss))
  BY <1>1, JoinedIsPrefix
<1> HIDE DEF at
<1>5. FlattenSeq(ss)[at] = Joined(ss, i + 1)[at] /\ at \in 1..Len(FlattenSeq(ss))
  BY <1>1, <1>3, <1>4, PrefixAt
<1> QED BY <1>3, <1>5 DEF at
=============================================================================
