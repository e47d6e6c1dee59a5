------------------------ MODULE SaObservationProofs ------------------------
(***************************************************************************)
(* That the listing is understood, that the events are the transitions of  *)
(* what the collector knows, and that an outage in them is one in the      *)
(* listing, for every number of SAs and children.                          *)
(***************************************************************************)
EXTENDS SaObservation, FiniteSetTheorems, SequenceTheorems, WellFoundedInduction, TLAPS

-----------------------------------------------------------------------------
(***************************************************************************)
(* Induction without an operator as parameter: what is not true of every   *)
(* number is false of a least one.                                         *)
(***************************************************************************)
LEMMA LeastNat ==
  ASSUME NEW T, T \subseteq Nat, T # {}
  PROVE  \E n \in T : \A m \in T : n <= m
<1>1. PICK n \in T : \A m \in T : ~ (<<m, n>> \in OpToRel(<, Nat))
  BY NatLessThanWellFounded, WFMin
<1>2. ASSUME NEW m \in T
      PROVE  n <= m
  <2>1. ~ (<<m, n>> \in OpToRel(<, Nat))
    BY <1>1
  <2>2. m \in Nat /\ n \in Nat
    BY <1>1
  <2>3. ~ (m < n)
    <3>1. ASSUME m < n
          PROVE  <<m, n>> \in {ss \in Nat \X Nat : ss[1] < ss[2]}
      BY <2>2, <3>1
    <3> QED
      BY <2>1, <3>1 DEF OpToRel
  <2> QED
    BY <2>2, <2>3
<1> QED
  BY <1>1, <1>2

\* A function that is defined by what it is further on exists.
Ahead(n, stop, next) == \A p \in 1 .. n : ~ stop[p] => next[p] \in p + 1 .. n

Gathers(n, stop, id, next, f) ==
  f = [p \in 1 .. n |-> IF stop[p] THEN {} ELSE {id[p]} \cup f[next[p]]]

LEMMA DownwardFunction ==
  ASSUME NEW n \in Nat, NEW stop, NEW id, NEW next, Ahead(n, stop, next)
  PROVE  \E f : Gathers(n, stop, id, next, f)
<1> USE DEF Ahead, Gathers
<1> DEFINE From(k) == n + 1 - k .. n
           Good(k) == \E f : f = [p \in From(k) |-> IF stop[p] THEN {}
                                                    ELSE {id[p]} \cup f[next[p]]]
           Bad == {k \in 0 .. n : ~ Good(k)}
<1>1. Good(0)
  <2>1. From(0) = {}
    OBVIOUS
  <2>2. [p \in From(0) |-> 0] = [p \in From(0) |-> IF stop[p] THEN {}
                                       ELSE {id[p]} \cup [q \in From(0) |-> 0][next[p]]]
    BY <2>1
  <2> QED
    BY <2>2
<1>2. ASSUME NEW k \in 1 .. n, Good(k - 1)
      PROVE  Good(k)
  <2>1. PICK f : f = [p \in From(k - 1) |-> IF stop[p] THEN {} ELSE {id[p]} \cup f[next[p]]]
    BY <1>2
  <2> DEFINE a == n + 1 - k
             g == [p \in From(k) |-> IF p = a
                                     THEN IF stop[a] THEN {} ELSE {id[a]} \cup f[next[a]]
                                     ELSE f[p]]
  <2>2. /\ From(k) = From(k - 1) \cup {a}
        /\ a \notin From(k - 1)
        /\ a \in 1 .. n
        /\ \A p \in From(k) : p \in 1 .. n /\ p + 1 .. n \subseteq From(k - 1)
    OBVIOUS
  <2>3. ASSUME NEW p \in From(k)
        PROVE  g[p] = IF stop[p] THEN {} ELSE {id[p]} \cup g[next[p]]
    <3>1. CASE stop[p]
      BY <2>1, <2>2, <3>1
    <3>2. CASE ~ stop[p]
      <4>1. next[p] \in From(k - 1)
        BY <2>2, <3>2
      <4>2. g[next[p]] = f[next[p]]
        BY <4>1, <2>2
      <4>3. CASE p = a
        BY <4>2, <4>3, <3>2
      <4>4. CASE p # a
        <5>1. p \in From(k - 1)
          BY <4>4, <2>2
        <5>2. f[p] = {id[p]} \cup f[next[p]]
          BY <5>1, <2>1, <3>2
        <5> QED
          BY <5>2, <4>2, <4>4, <3>2
      <4> QED
        BY <4>3, <4>4
    <3> QED
      BY <3>1, <3>2
  <2>4. g = [p \in From(k) |-> IF stop[p] THEN {} ELSE {id[p]} \cup g[next[p]]]
    <3> HIDE DEF From
    <3> QED
      BY <2>3
  <2> QED
    BY <2>4
<1>3. Bad = {}
  <2> SUFFICES ASSUME Bad # {}
               PROVE  FALSE
    OBVIOUS
  <2>1. PICK k \in Bad : \A m \in Bad : k <= m
    <3>1. Bad \subseteq Nat
      OBVIOUS
    <3> HIDE DEF Bad
    <3> QED
      BY <3>1, LeastNat
  <2>2. k # 0
    BY <1>1, <2>1
  <2>3. Good(k - 1)
    <3> HIDE DEF Good
    <3> QED
      BY <2>1, <2>2
  <2> HIDE DEF Good
  <2> QED
    BY <1>2, <2>1, <2>2, <2>3
<1>4. Good(n)
  <2> HIDE DEF Good
  <2> QED
    BY <1>3
<1>5. From(n) = 1 .. n
  OBVIOUS
<1> QED
  BY <1>4, <1>5

-----------------------------------------------------------------------------
(***************************************************************************)
(* Sequences of sequences put together: what is in the parts, and nothing  *)
(* else, is in the whole, and what is together in a part stays together.   *)
(***************************************************************************)
LEMMA FlattenFunction ==
  ASSUME NEW s, Len(s) \in Nat
  PROVE  \E f : f = [i \in 1 .. Len(s) |-> IF i = 1 THEN s[i] ELSE f[i - 1] \o s[i]]
<1> DEFINE Good(k) == \E f : f = [i \in 1 .. k |-> IF i = 1 THEN s[i] ELSE f[i - 1] \o s[i]]
           Bad == {k \in 0 .. Len(s) : ~ Good(k)}
<1>1. Good(0)
  <2>1. [i \in 1 .. 0 |-> <<>>] = [i \in 1 .. 0 |-> IF i = 1 THEN s[i]
                                                   ELSE [q \in 1 .. 0 |-> <<>>][i - 1] \o s[i]]
    OBVIOUS
  <2> QED
    BY <2>1
<1>2. ASSUME NEW k \in 1 .. Len(s), Good(k - 1)
      PROVE  Good(k)
  <2>1. PICK f : f = [i \in 1 .. k - 1 |-> IF i = 1 THEN s[i] ELSE f[i - 1] \o s[i]]
    BY <1>2
  <2> DEFINE g == [i \in 1 .. k |-> IF i = k THEN IF k = 1 THEN s[k] ELSE f[k - 1] \o s[k]
                                    ELSE f[i]]
  <2>2. ASSUME NEW i \in 1 .. k
        PROVE  g[i] = IF i = 1 THEN s[i] ELSE g[i - 1] \o s[i]
    <3>1. CASE i = 1
      BY <3>1, <2>1
    <3>2. CASE i # 1
      <4>1. g[i - 1] = f[i - 1]
        BY <3>2
      <4>2. CASE i = k
        BY <4>1, <4>2, <3>2
      <4>3. CASE i # k
        <5>1. g[i] = f[i]
          BY <4>3
        <5>2. f[i] = f[i - 1] \o s[i]
          <6>1. i \in 1 .. k - 1
            BY <4>3
          <6> QED
            BY <6>1, <3>2, <2>1
        <5> QED
          BY <5>1, <5>2, <4>1, <3>2
      <4> QED
        BY <4>2, <4>3
    <3> QED
      BY <3>1, <3>2
  <2>3. g = [i \in 1 .. k |-> IF i = 1 THEN s[i] ELSE g[i - 1] \o s[i]]
    BY <2>2
  <2> QED
    BY <2>3
<1>3. Bad = {}
  <2> SUFFICES ASSUME Bad # {}
               PROVE  FALSE
    OBVIOUS
  <2>1. PICK k \in Bad : \A m \in Bad : k <= m
    <3> HIDE DEF Good
    <3>1. Bad \subseteq Nat
      OBVIOUS
    <3> HIDE DEF Bad
    <3> QED
      BY <3>1, LeastNat
  <2> HIDE DEF Good
  <2>2. k # 0
    BY <1>1, <2>1
  <2>3. Good(k - 1)
    BY <2>1, <2>2
  <2> QED
    BY <1>2, <2>1, <2>2, <2>3
<1> HIDE DEF Good
<1>4. Good(Len(s))
  BY <1>3
<1> QED
  BY <1>4 DEF Good

\* f[i] is what the first i parts make.
FlattenedBy(s, f) ==
  /\ f[1] = s[1]
  /\ \A i \in 2 .. Len(s) : f[i] = f[i - 1] \o s[i]
  /\ FlattenSeq(s) = f[Len(s)]

LEMMA FlattenIs ==
  ASSUME NEW s, Len(s) \in Nat \ {0}
  PROVE  \E f : FlattenedBy(s, f)
<1> DEFINE flatten[i \in 1 .. Len(s)] == IF i = 1 THEN s[i] ELSE flatten[i - 1] \o s[i]
<1>1. \E f : f = [i \in 1 .. Len(s) |-> IF i = 1 THEN s[i] ELSE f[i - 1] \o s[i]]
  BY FlattenFunction
<1>2. flatten = [i \in 1 .. Len(s) |-> IF i = 1 THEN s[i] ELSE flatten[i - 1] \o s[i]]
  BY <1>1
<1>3. FlattenSeq(s) = flatten[Len(s)]
  BY DEF FlattenSeq
<1> HIDE DEF flatten
<1>4. ASSUME NEW i \in 1 .. Len(s)
      PROVE  flatten[i] = IF i = 1 THEN s[i] ELSE flatten[i - 1] \o s[i]
  BY <1>2
<1>5. flatten[1] = s[1]
  BY <1>4
<1>6. ASSUME NEW i \in 2 .. Len(s)
      PROVE  flatten[i] = flatten[i - 1] \o s[i]
  <2>1. i \in 1 .. Len(s) /\ i # 1
    OBVIOUS
  <2> QED
    BY <2>1, <1>4
<1>7. FlattenedBy(s, flatten)
  BY <1>3, <1>5, <1>6 DEF FlattenedBy
<1> QED
  BY <1>7

LEMMA ConcatAt ==
  ASSUME NEW S, NEW a \in Seq(S), NEW b \in Seq(S)
  PROVE  /\ Len(a \o b) = Len(a) + Len(b)
         /\ Len(a) \in Nat
         /\ Len(b) \in Nat
         /\ \A q \in 1 .. Len(a) : (a \o b)[q] = a[q]
         /\ \A j \in 1 .. Len(b) : (a \o b)[Len(a) + j] = b[j]
OBVIOUS

LEMMA ConcatOne ==
  ASSUME NEW S, NEW s \in Seq(S), NEW e \in S
  PROVE  s \o <<e>> = Append(s, e)
<1> DEFINE one == <<e>>
           w == s \o one
           n == Len(s)
<1>1. one \in Seq(S) /\ Len(one) = 1 /\ one[1] = e
  OBVIOUS
<1>2. n \in Nat
  OBVIOUS
<1> HIDE DEF one
<1>3. w \in Seq(S)
  BY <1>1, ConcatProperties
<1>4. /\ Len(w) = n + 1
      /\ \A q \in 1 .. n : w[q] = s[q]
      /\ w[n + 1] = e
  <2>1. /\ Len(w) = Len(s) + Len(one)
        /\ \A q \in 1 .. Len(s) : w[q] = s[q]
        /\ \A j \in 1 .. Len(one) : w[Len(s) + j] = one[j]
    <3>1. s \in Seq(S) /\ one \in Seq(S)
      BY <1>1
    <3> QED
      BY ONLY <3>1, ConcatAt
  <2> HIDE DEF w
  <2>2. w[Len(s) + 1] = one[1]
    <3>1. 1 \in 1 .. Len(one)
      BY <1>1
    <3> QED
      BY <2>1, <3>1
  <2> QED
    BY <2>1, <2>2, <1>1
<1> HIDE DEF w
<1>5. /\ Append(s, e) \in Seq(S)
      /\ Len(Append(s, e)) = n + 1
      /\ \A q \in 1 .. n : Append(s, e)[q] = s[q]
      /\ Append(s, e)[n + 1] = e
  OBVIOUS
<1>6. w = Append(s, e)
  <2> DEFINE a == Append(s, e)
  <2> HIDE DEF a, n
  <2>1. \A i \in 1 .. n + 1 : w[i] = a[i]
    BY <1>2, <1>4, <1>5 DEF a
  <2>2. w = a
    BY <1>3, <1>4, <1>5, <2>1, SeqEqual DEF a
  <2> QED
    BY <2>2 DEF a
<1> QED
  BY <1>6 DEF w, one

LEMMA ExceptType ==
  ASSUME NEW S, NEW s \in Seq(S), NEW i \in 1 .. Len(s), NEW x \in S
  PROVE  [s EXCEPT ![i] = x] \in Seq(S)
OBVIOUS

LEMMA RemoveAtType ==
  ASSUME NEW S, NEW s \in Seq(S), NEW i \in 1 .. Len(s)
  PROVE  RemoveAt(s, i) \in Seq(S)
<1>1. SubSeq(s, 1, i - 1) \in Seq(S) /\ SubSeq(s, i + 1, Len(s)) \in Seq(S)
  OBVIOUS
<1> QED
  BY <1>1, ConcatProperties DEF RemoveAt

\* Where the first n parts are in the whole: part k begins behind `at[k]'.
Parts(n, s, whole, at) ==
  /\ \A k \in 1 .. n :
       /\ at[k] \in Nat
       /\ \A j \in 1 .. Len(s[k]) : /\ at[k] + j \in 1 .. Len(whole)
                                    /\ whole[at[k] + j] = s[k][j]
  /\ \A q \in 1 .. Len(whole) :
       \E k \in 1 .. n : \E j \in 1 .. Len(s[k]) : q = at[k] + j

LEMMA OnePart ==
  ASSUME NEW S, NEW s, NEW at, s[1] \in Seq(S), at[1] = 0
  PROVE  Parts(1, s, s[1], at)
BY DEF Parts

LEMMA OneMorePart ==
  ASSUME NEW S, NEW s, NEW at, NEW n \in Nat \ {0}, NEW whole \in Seq(S),
         Parts(n, s, whole, at), NEW part \in Seq(S), s[n + 1] = part,
         at[n + 1] = Len(whole)
  PROVE  Parts(n + 1, s, whole \o part, at)
<1>1. /\ Len(whole \o part) = Len(whole) + Len(part)
      /\ Len(whole) \in Nat
      /\ Len(part) \in Nat
      /\ \A q \in 1 .. Len(whole) : (whole \o part)[q] = whole[q]
      /\ \A j \in 1 .. Len(part) : (whole \o part)[Len(whole) + j] = part[j]
  BY ConcatAt
<1> DEFINE more == whole \o part
<1> HIDE DEF more
<1>2. ASSUME NEW k \in 1 .. n + 1
      PROVE  /\ at[k] \in Nat
             /\ \A j \in 1 .. Len(s[k]) : /\ at[k] + j \in 1 .. Len(more)
                                          /\ more[at[k] + j] = s[k][j]
  <2>1. CASE k = n + 1
    BY <2>1, <1>1 DEF more
  <2>2. CASE k # n + 1
    <3>1. k \in 1 .. n
      BY <2>2
    <3>2. /\ at[k] \in Nat
          /\ \A j \in 1 .. Len(s[k]) : /\ at[k] + j \in 1 .. Len(whole)
                                       /\ whole[at[k] + j] = s[k][j]
      BY <3>1 DEF Parts
    <3> QED
      BY <3>2, <1>1 DEF more
  <2> QED
    BY <2>1, <2>2
<1>3. ASSUME NEW q \in 1 .. Len(more)
      PROVE  \E k \in 1 .. n + 1 : \E j \in 1 .. Len(s[k]) : q = at[k] + j
  <2>1. CASE q > Len(whole)
    <3> DEFINE k == n + 1
               j == q - Len(whole)
    <3>1. k \in 1 .. n + 1 /\ j \in 1 .. Len(s[k]) /\ q = at[k] + j
      BY <2>1, <1>1 DEF more
    <3> HIDE DEF k, j
    <3> QED
      BY <3>1
  <2>2. CASE ~ (q > Len(whole))
    <3>1. q \in 1 .. Len(whole)
      BY <2>2, <1>1
    <3>2. PICK k \in 1 .. n : \E j \in 1 .. Len(s[k]) : q = at[k] + j
      BY <3>1 DEF Parts
    <3> QED
      BY <3>2
  <2> QED
    BY <2>1, <2>2
<1>4. Parts(n + 1, s, more, at)
  BY <1>2, <1>3 DEF Parts
<1> QED
  BY <1>4 DEF more

LEMMA FlattenParts ==
  ASSUME NEW S, NEW s \in Seq(Seq(S))
  PROVE  /\ FlattenSeq(s) \in Seq(S)
         /\ \E at : Parts(Len(s), s, FlattenSeq(s), at)
         /\ Len(s) = 1 => FlattenSeq(s) = s[1]
<1>1. Len(s) \in Nat /\ \A k \in 1 .. Len(s) : s[k] \in Seq(S)
  OBVIOUS
<1>2. CASE Len(s) = 0
  <2>1. FlattenSeq(s) = <<>>
    BY <1>2 DEF FlattenSeq
  <2>2. Parts(0, s, <<>>, <<>>)
    BY DEF Parts
  <2> QED
    BY <1>2, <2>1, <2>2
<1>3. CASE Len(s) # 0
  <2>1. Len(s) \in Nat \ {0}
    BY <1>1, <1>3
  <2>2. PICK f : FlattenedBy(s, f)
    BY <2>1, FlattenIs
  <2>3. /\ f[1] = s[1]
        /\ \A i \in 2 .. Len(s) : f[i] = f[i - 1] \o s[i]
        /\ FlattenSeq(s) = f[Len(s)]
    BY <2>2 DEF FlattenedBy
  <2> DEFINE at == [k \in 1 .. Len(s) |-> IF k = 1 THEN 0 ELSE Len(f[k - 1])]
             Good(i) == f[i] \in Seq(S) /\ Parts(i, s, f[i], at)
             Bad == {i \in 1 .. Len(s) : ~ Good(i)}
  <2>4. at[1] = 0 /\ \A i \in 2 .. Len(s) : at[i] = Len(f[i - 1])
    BY <2>1
  <2> HIDE DEF at
  <2>5. Good(1)
    BY <1>1, <2>1, <2>3, <2>4, OnePart
  <2>6. ASSUME NEW i \in 2 .. Len(s), Good(i - 1)
        PROVE  Good(i)
    <3>1. i - 1 \in Nat \ {0} /\ (i - 1) + 1 = i /\ i \in 1 .. Len(s)
      BY <1>1
    <3>2. f[i - 1] \in Seq(S) /\ s[i] \in Seq(S)
      BY <3>1, <1>1, <2>6
    <3>3. f[i] = f[i - 1] \o s[i] /\ at[i] = Len(f[i - 1])
      BY <2>3, <2>4
    <3>4. Parts(i - 1, s, f[i - 1], at)
      BY <2>6
    <3>5. Parts((i - 1) + 1, s, f[i - 1] \o s[i], at)
      <4>1. s[(i - 1) + 1] = s[i] /\ at[(i - 1) + 1] = Len(f[i - 1])
        BY <3>1, <3>3
      <4> QED
        BY ONLY <3>1, <3>2, <3>4, <4>1, OneMorePart
    <3>6. f[i - 1] \o s[i] \in Seq(S)
      BY <3>2, ConcatProperties
    <3> QED
      BY <3>1, <3>3, <3>5, <3>6
  <2> HIDE DEF Good
  <2>7. Bad = {}
    <3> SUFFICES ASSUME Bad # {}
                 PROVE  FALSE
      OBVIOUS
    <3>1. PICK i \in Bad : \A m \in Bad : i <= m
      <4>1. Bad \subseteq Nat
        OBVIOUS
      <4> HIDE DEF Bad
      <4> QED
        BY <4>1, LeastNat
    <3>2. i # 1
      BY <2>5, <3>1
    <3>3. i \in 2 .. Len(s) /\ i - 1 \in 1 .. Len(s)
      BY <3>1, <3>2
    <3>4. Good(i - 1)
      BY <3>1, <3>3
    <3> QED
      BY <2>6, <3>1, <3>3, <3>4
  <2>8. Good(Len(s))
    BY <2>1, <2>7
  <2> QED
    BY <2>3, <2>8 DEF Good
<1> QED
  BY <1>1, <1>2, <1>3

-----------------------------------------------------------------------------
(***************************************************************************)
(* What is in a listing, and in what order.                                *)
(***************************************************************************)
Uid == {"uniqueid"} \X Id
KidToken == Uid \cup {<<"INSTALLED", 0>>}
Token == KidToken \cup {<<"ESTABLISHED", 0>>, <<"child-sas", 0>>}

KidTexts(sa) == [i \in 1 .. Len(sa.children) |-> ChildText(sa.children[i])]
Kids(sa) == FlattenSeq(KidTexts(sa))

\* Where the list of children begins in an SA's text.
ListAt(sa) == IF sa.established THEN 3 ELSE 2

LEMMA ChildTextIs ==
  ASSUME NEW c \in Child
  PROVE  /\ ChildText(c) \in Seq(KidToken)
         /\ ChildText(c)[1] = <<"uniqueid", c.id>>
         /\ c.installed => Len(ChildText(c)) = 2 /\ ChildText(c)[2] = <<"INSTALLED", 0>>
         /\ ~ c.installed => Len(ChildText(c)) = 1
<1>1. <<"uniqueid", c.id>> \in KidToken /\ <<"INSTALLED", 0>> \in KidToken
  BY DEF KidToken, Uid, Child
<1>2. CASE c.installed
  <2>1. ChildText(c) = <<<<"uniqueid", c.id>>>> \o <<<<"INSTALLED", 0>>>>
    BY <1>2 DEF ChildText, If
  <2>2. ChildText(c) = Append(<<<<"uniqueid", c.id>>>>, <<"INSTALLED", 0>>)
    <3> DEFINE u == <<"uniqueid", c.id>>
               e == <<"INSTALLED", 0>>
    <3> HIDE DEF u, e
    <3>1. <<u>> \o <<e>> = Append(<<u>>, e)
      <4>1. u \in KidToken /\ e \in KidToken
        BY <1>1 DEF u, e
      <4>2. <<u>> \in Seq(KidToken)
        BY <4>1
      <4> QED
        BY <4>1, <4>2, ConcatOne
    <3> QED
      BY <2>1, <3>1 DEF u, e
  <2> QED
    BY <1>1, <1>2, <2>2
<1>3. CASE ~ c.installed
  <2>1. ChildText(c) = <<<<"uniqueid", c.id>>>> \o <<>>
    BY <1>3 DEF ChildText, If
  <2>2. <<<<"uniqueid", c.id>>>> \in Seq(KidToken)
    BY <1>1
  <2>3. ChildText(c) = <<<<"uniqueid", c.id>>>>
    BY <2>1, <2>2, ConcatEmptySeq
  <2> QED
    BY <1>1, <1>3, <2>2, <2>3
<1> QED
  BY <1>2, <1>3

LEMMA KidsAre ==
  ASSUME NEW sa \in Sa
  PROVE  /\ Kids(sa) \in Seq(KidToken)
         /\ \A q \in 1 .. Len(Kids(sa)) :
              Kids(sa)[q][1] = "uniqueid" =>
                \E i \in 1 .. Len(sa.children) : Kids(sa)[q][2] = sa.children[i].id
         /\ \A q \in 1 .. Len(Kids(sa)) :
              Kids(sa)[q][1] = "INSTALLED" =>
                \E i \in 1 .. Len(sa.children) : sa.children[i].installed
         /\ \A i \in 1 .. Len(sa.children) :
              sa.children[i].installed =>
                \E q \in 1 .. Len(Kids(sa)) : /\ q + 1 \in 1 .. Len(Kids(sa))
                                             /\ Kids(sa)[q][1] = "uniqueid"
                                             /\ Kids(sa)[q + 1][1] = "INSTALLED"
<1> DEFINE n == Len(sa.children)
           texts == KidTexts(sa)
           kids == Kids(sa)
<1>1. n \in Nat /\ \A i \in 1 .. n : sa.children[i] \in Child
  BY DEF Sa
<1>2. Len(texts) = n /\ \A i \in 1 .. n : texts[i] = ChildText(sa.children[i])
  BY <1>1 DEF KidTexts
<1>3. texts \in Seq(Seq(KidToken))
  BY <1>1, ChildTextIs DEF KidTexts
<1>4. kids \in Seq(KidToken)
  BY <1>3, FlattenParts DEF Kids
<1>5. PICK at : Parts(n, texts, kids, at)
  BY <1>2, <1>3, FlattenParts DEF Kids
<1> HIDE DEF texts, kids
<1>6. ASSUME NEW q \in 1 .. Len(kids)
      PROVE  \E i \in 1 .. n : \E j \in 1 .. Len(ChildText(sa.children[i])) :
               kids[q] = ChildText(sa.children[i])[j]
  <2>1. PICK i \in 1 .. n : \E j \in 1 .. Len(texts[i]) : q = at[i] + j
    BY <1>5 DEF Parts
  <2>2. PICK j \in 1 .. Len(texts[i]) : q = at[i] + j
    BY <2>1
  <2>3. kids[q] = texts[i][j]
    BY <2>2, <1>5 DEF Parts
  <2> QED
    BY <2>2, <2>3, <1>2
<1>7. ASSUME NEW q \in 1 .. Len(kids)
      PROVE  \E i \in 1 .. n :
               \/ kids[q] = <<"uniqueid", sa.children[i].id>>
               \/ kids[q] = <<"INSTALLED", 0>> /\ sa.children[i].installed
  <2>1. PICK i \in 1 .. n : \E j \in 1 .. Len(ChildText(sa.children[i])) :
                               kids[q] = ChildText(sa.children[i])[j]
    BY <1>6
  <2>2. PICK j \in 1 .. Len(ChildText(sa.children[i])) : kids[q] = ChildText(sa.children[i])[j]
    BY <2>1
  <2>3. sa.children[i] \in Child
    BY <1>1
  <2>4. CASE sa.children[i].installed
    <3>1. j = 1 \/ j = 2
      BY <2>2, <2>3, <2>4, ChildTextIs
    <3> QED
      BY <3>1, <2>2, <2>3, <2>4, ChildTextIs
  <2>5. CASE ~ sa.children[i].installed
    <3>1. j = 1
      BY <2>2, <2>3, <2>5, ChildTextIs
    <3> QED
      BY <3>1, <2>2, <2>3, ChildTextIs
  <2> QED
    BY <2>4, <2>5
<1>8. ASSUME NEW q \in 1 .. Len(kids), kids[q][1] = "uniqueid"
      PROVE  \E i \in 1 .. n : kids[q][2] = sa.children[i].id
  BY <1>7, <1>8
<1>9. ASSUME NEW q \in 1 .. Len(kids), kids[q][1] = "INSTALLED"
      PROVE  \E i \in 1 .. n : sa.children[i].installed
  BY <1>7, <1>9
<1>10. ASSUME NEW i \in 1 .. n, sa.children[i].installed
       PROVE  \E q \in 1 .. Len(kids) : /\ q + 1 \in 1 .. Len(kids)
                                        /\ kids[q][1] = "uniqueid"
                                        /\ kids[q + 1][1] = "INSTALLED"
  <2>1. /\ Len(texts[i]) = 2
        /\ texts[i][1] = <<"uniqueid", sa.children[i].id>>
        /\ texts[i][2] = <<"INSTALLED", 0>>
    BY <1>1, <1>2, <1>10, ChildTextIs
  <2>2. /\ at[i] \in Nat
        /\ at[i] + 1 \in 1 .. Len(kids) /\ kids[at[i] + 1] = texts[i][1]
        /\ at[i] + 2 \in 1 .. Len(kids) /\ kids[at[i] + 2] = texts[i][2]
    <3>1. /\ at[i] \in Nat
          /\ \A j \in 1 .. Len(texts[i]) :
               at[i] + j \in 1 .. Len(kids) /\ kids[at[i] + j] = texts[i][j]
      BY <1>5 DEF Parts
    <3>2. 1 \in 1 .. Len(texts[i]) /\ 2 \in 1 .. Len(texts[i])
      BY <2>1
    <3> HIDE DEF n
    <3> QED
      BY <3>1, <3>2
  <2> DEFINE q == at[i] + 1
  <2>3. /\ q \in 1 .. Len(kids)
        /\ q + 1 \in 1 .. Len(kids)
        /\ kids[q][1] = "uniqueid"
        /\ kids[q + 1][1] = "INSTALLED"
    <3>1. q + 1 = at[i] + 2
      BY <2>2
    <3>2. kids[q] = <<"uniqueid", sa.children[i].id>> /\ kids[q + 1] = <<"INSTALLED", 0>>
      BY <3>1, <2>1, <2>2
    <3> QED
      BY <3>1, <3>2, <2>2
  <2> HIDE DEF q
  <2> QED
    BY <2>3
<1> QED
  BY <1>4, <1>8, <1>9, <1>10 DEF kids

LEMMA SaTextIs ==
  ASSUME NEW sa \in Sa
  PROVE  /\ SaText(sa) \in Seq(Token)
         /\ Len(SaText(sa)) = ListAt(sa) + Len(Kids(sa))
         /\ SaText(sa)[1] = <<"uniqueid", sa.id>>
         /\ sa.established => SaText(sa)[2] = <<"ESTABLISHED", 0>>
         /\ SaText(sa)[ListAt(sa)] = <<"child-sas", 0>>
         /\ \A q \in 1 .. Len(Kids(sa)) : SaText(sa)[ListAt(sa) + q] = Kids(sa)[q]
<1> DEFINE u == <<"uniqueid", sa.id>>
           e == <<"ESTABLISHED", 0>>
           c == <<"child-sas", 0>>
           kids == Kids(sa)
<1>1. u \in Token /\ e \in Token /\ c \in Token
  BY DEF Token, KidToken, Uid, Sa
<1>2. kids \in Seq(Token)
  BY KidsAre DEF Token
<1> DEFINE head == <<u>> \o If(sa.established, e) \o <<c>>
<1>3. SaText(sa) = head \o kids
  BY DEF SaText, Kids, KidTexts
<1> HIDE DEF u, e, c, kids, head
<1>4. /\ head \in Seq(Token)
      /\ Len(head) = ListAt(sa)
      /\ head[1] = u
      /\ sa.established => head[2] = e
      /\ head[ListAt(sa)] = c
  <2>1. <<u>> \in Seq(Token)
    BY <1>1
  <2>2. CASE sa.established
    <3>1. <<u>> \o <<e>> = Append(<<u>>, e) /\ Append(<<u>>, e) \in Seq(Token)
      BY <1>1, <2>1, ConcatOne
    <3>2. Append(<<u>>, e) \o <<c>> = Append(Append(<<u>>, e), c)
      BY <1>1, <3>1, ConcatOne
    <3>3. head = Append(Append(<<u>>, e), c)
      BY <3>1, <3>2, <2>2 DEF If, head
    <3> QED
      BY <1>1, <2>2, <3>3 DEF ListAt
  <2>3. CASE ~ sa.established
    <3>1. <<u>> \o <<>> = <<u>>
      BY <2>1, ConcatEmptySeq
    <3>2. <<u>> \o <<c>> = Append(<<u>>, c)
      BY <1>1, <2>1, ConcatOne
    <3>3. head = Append(<<u>>, c)
      BY <3>1, <3>2, <2>3 DEF If, head
    <3> QED
      BY <1>1, <2>3, <3>3 DEF ListAt
  <2> QED
    BY <2>2, <2>3
<1>5. ListAt(sa) \in {2, 3}
  BY DEF ListAt
<1>6. \A q \in 1 .. ListAt(sa) : (head \o kids)[q] = head[q]
  BY <1>2, <1>4, ConcatAt
<1>7. /\ head \o kids \in Seq(Token)
      /\ Len(head \o kids) = ListAt(sa) + Len(kids)
      /\ \A q \in 1 .. Len(kids) : (head \o kids)[ListAt(sa) + q] = kids[q]
  <2>1. head \in Seq(Token) /\ kids \in Seq(Token)
    BY <1>2, <1>4
  <2>2. /\ Len(head \o kids) = Len(head) + Len(kids)
        /\ \A q \in 1 .. Len(kids) : (head \o kids)[Len(head) + q] = kids[q]
    BY ONLY <2>1, ConcatAt
  <2>3. head \o kids \in Seq(Token)
    BY <1>2, <1>4, ConcatProperties
  <2> QED
    BY <2>2, <2>3, <1>4
<1>8. /\ (head \o kids)[1] = u
      /\ sa.established => (head \o kids)[2] = e
      /\ (head \o kids)[ListAt(sa)] = c
  BY <1>4, <1>5, <1>6
<1> QED
  BY <1>3, <1>7, <1>8 DEF u, e, c, kids

\* An IKE SA's text says of it and of its children what is the case.
LEMMA SaTextSays ==
  ASSUME NEW sa \in Sa
  PROVE  LET text == SaText(sa) IN
         /\ \A q \in 1 .. Len(text) :
              text[q][1] = "ESTABLISHED" => q = 2 /\ sa.established
         /\ \A q \in 1 .. Len(text) :
              text[q][1] = "INSTALLED" =>
                \E i \in 1 .. Len(sa.children) : sa.children[i].installed
         /\ \A p, q \in 1 .. Len(text) :
              /\ p < q
              /\ text[p][1] = "child-sas"
              /\ text[q][1] = "uniqueid"
              => \E i \in 1 .. Len(sa.children) : text[q][2] = sa.children[i].id
         /\ sa.established => /\ 2 \in 1 .. Len(text)
                             /\ text[1][1] = "uniqueid"
                             /\ text[2][1] = "ESTABLISHED"
         /\ \A i \in 1 .. Len(sa.children) :
              sa.children[i].installed =>
                \E p, q \in 1 .. Len(text) : /\ p < q
                                            /\ q + 1 \in 1 .. Len(text)
                                            /\ text[p][1] = "child-sas"
                                            /\ text[q][1] = "uniqueid"
                                            /\ text[q + 1][1] = "INSTALLED"
<1> DEFINE text == SaText(sa)
           kids == Kids(sa)
           n == Len(sa.children)
           h == ListAt(sa)
<1>1. /\ text \in Seq(Token)
      /\ Len(text) = h + Len(kids)
      /\ text[1][1] = "uniqueid"
      /\ sa.established => text[2][1] = "ESTABLISHED"
      /\ text[h][1] = "child-sas"
      /\ \A q \in 1 .. Len(kids) : text[h + q] = kids[q]
  <2>1. /\ text \in Seq(Token)
        /\ Len(text) = h + Len(kids)
        /\ text[1] = <<"uniqueid", sa.id>>
        /\ sa.established => text[2] = <<"ESTABLISHED", 0>>
        /\ text[h] = <<"child-sas", 0>>
        /\ \A q \in 1 .. Len(kids) : text[h + q] = kids[q]
    BY SaTextIs, Zenon
  <2> HIDE DEF text, kids, h
  <2> QED
    BY ONLY <2>1
<1>2. /\ kids \in Seq(KidToken)
      /\ \A q \in 1 .. Len(kids) :
           kids[q][1] = "uniqueid" => \E i \in 1 .. n : kids[q][2] = sa.children[i].id
      /\ \A q \in 1 .. Len(kids) :
           kids[q][1] = "INSTALLED" => \E i \in 1 .. n : sa.children[i].installed
      /\ \A i \in 1 .. n :
           sa.children[i].installed =>
             \E q \in 1 .. Len(kids) : /\ q + 1 \in 1 .. Len(kids)
                                      /\ kids[q][1] = "uniqueid"
                                      /\ kids[q + 1][1] = "INSTALLED"
  BY KidsAre
<1>3. h \in Nat /\ ((h = 3 /\ sa.established) \/ (h = 2 /\ ~ sa.established))
  <2>1. CASE sa.established
    <3>1. h = 3
      BY <2>1 DEF ListAt
    <3> HIDE DEF h
    <3> QED
      BY <2>1, <3>1
  <2>2. CASE ~ sa.established
    <3>1. h = 2
      BY <2>2 DEF ListAt
    <3> HIDE DEF h
    <3> QED
      BY <2>2, <3>1
  <2> QED
    BY <2>1, <2>2
<1>4. Len(kids) \in Nat /\ \A q \in 1 .. Len(kids) : kids[q][1] \in {"uniqueid", "INSTALLED"}
  <2>1. \A t \in KidToken : t[1] \in {"uniqueid", "INSTALLED"}
    BY DEF KidToken, Uid
  <2> HIDE DEF kids
  <2> QED
    BY <1>2, <2>1
<1> HIDE DEF text, kids, h
<1>5. ASSUME NEW q \in 1 .. Len(text)
      PROVE  \/ q = 1
             \/ q = 2 /\ sa.established
             \/ q = h
             \/ \E r \in 1 .. Len(kids) : q = h + r
  <2>1. CASE q > h
    <3> DEFINE r == q - h
    <3>1. r \in 1 .. Len(kids) /\ q = h + r
      BY <2>1, <1>1, <1>3, <1>4
    <3> HIDE DEF r
    <3> QED
      BY <3>1
  <2>2. CASE ~ (q > h)
    BY <2>2, <1>3
  <2> QED
    BY <2>1, <2>2
<1>6. ASSUME NEW q \in 1 .. Len(text), text[q][1] = "ESTABLISHED"
      PROVE  q = 2 /\ sa.established
  <2>1. q # 1 /\ q # h
    BY <1>1, <1>6
  <2>2. ASSUME NEW r \in 1 .. Len(kids), q = h + r
        PROVE  FALSE
    <3>1. text[q] = kids[r] /\ kids[r][1] \in {"uniqueid", "INSTALLED"}
      BY <2>2, <1>1, <1>4
    <3> QED
      BY <3>1, <1>6
  <2> QED
    BY <2>1, <2>2, <1>5
<1>7. ASSUME NEW q \in 1 .. Len(text), text[q][1] = "INSTALLED"
      PROVE  \E i \in 1 .. n : sa.children[i].installed
  <2>1. q # 1 /\ q # h /\ ~ (q = 2 /\ sa.established)
    BY <1>1, <1>7
  <2>2. PICK r \in 1 .. Len(kids) : q = h + r
    BY <2>1, <1>5
  <2>3. kids[r][1] = "INSTALLED"
    BY <2>2, <1>1, <1>7
  <2> QED
    BY <2>3, <1>2
<1>8. ASSUME NEW p \in 1 .. Len(text), NEW q \in 1 .. Len(text), p < q,
             text[p][1] = "child-sas", text[q][1] = "uniqueid"
      PROVE  \E i \in 1 .. n : text[q][2] = sa.children[i].id
  <2>1. q # 1 /\ q # h /\ ~ (q = 2 /\ sa.established)
    BY <1>1, <1>8
  <2>2. PICK r \in 1 .. Len(kids) : q = h + r
    BY <2>1, <1>5
  <2>3. text[q] = kids[r]
    BY <2>2, <1>1
  <2> QED
    BY <2>3, <1>2, <1>8
<1>9. ASSUME sa.established
      PROVE  2 \in 1 .. Len(text) /\ text[1][1] = "uniqueid" /\ text[2][1] = "ESTABLISHED"
  BY <1>1, <1>3, <1>4, <1>9
<1>10. ASSUME NEW i \in 1 .. n, sa.children[i].installed
       PROVE  \E p, q \in 1 .. Len(text) : /\ p < q
                                           /\ q + 1 \in 1 .. Len(text)
                                           /\ text[p][1] = "child-sas"
                                           /\ text[q][1] = "uniqueid"
                                           /\ text[q + 1][1] = "INSTALLED"
  <2>1. PICK r \in 1 .. Len(kids) : /\ r + 1 \in 1 .. Len(kids)
                                    /\ kids[r][1] = "uniqueid"
                                    /\ kids[r + 1][1] = "INSTALLED"
    BY <1>2, <1>10
  <2> DEFINE q == h + r
  <2>2. h \in 1 .. Len(text) /\ q \in 1 .. Len(text) /\ h < q /\ q + 1 \in 1 .. Len(text)
    BY <2>1, <1>1, <1>3, <1>4
  <2>3. text[q] = kids[r] /\ text[q + 1] = kids[r + 1]
    <3>1. q + 1 = h + (r + 1)
      BY <1>3
    <3> QED
      BY <2>1, <3>1, <1>1
  <2> HIDE DEF q
  <2> QED
    BY <2>1, <2>2, <2>3, <1>1
<1> QED
  BY <1>6, <1>7, <1>8, <1>9, <1>10 DEF text

LEMMA ListingSays ==
  ASSUME NEW list \in Seq(Sa)
  PROVE  LET text == Listing(list) IN
         /\ text \in Seq(Token)
         /\ \A q \in 1 .. Len(text) :
              text[q][1] = "ESTABLISHED" => \E k \in 1 .. Len(list) : list[k].established
         /\ \A q \in 1 .. Len(text) :
              text[q][1] = "INSTALLED" =>
                \E k \in 1 .. Len(list) : \E i \in 1 .. Len(list[k].children) :
                  list[k].children[i].installed
         /\ \A k \in 1 .. Len(list) :
              list[k].established =>
                \E q \in 1 .. Len(text) : /\ q + 1 \in 1 .. Len(text)
                                         /\ text[q][1] = "uniqueid"
                                         /\ text[q + 1][1] = "ESTABLISHED"
         /\ \A k \in 1 .. Len(list) : \A i \in 1 .. Len(list[k].children) :
              list[k].children[i].installed =>
                \E p, q \in 1 .. Len(text) : /\ p < q
                                            /\ q + 1 \in 1 .. Len(text)
                                            /\ text[p][1] = "child-sas"
                                            /\ text[q][1] = "uniqueid"
                                            /\ text[q + 1][1] = "INSTALLED"
         /\ Len(list) = 1 => text = SaText(list[1])
<1> DEFINE text == Listing(list)
           n == Len(list)
           texts == [k \in 1 .. n |-> SaText(list[k])]
<1>1. n \in Nat /\ \A k \in 1 .. n : list[k] \in Sa
  OBVIOUS
<1>2. Len(texts) = n /\ \A k \in 1 .. n : texts[k] = SaText(list[k])
  BY <1>1
<1>3. \A k \in 1 .. n : SaText(list[k]) \in Seq(Token)
  BY <1>1, SaTextIs
<1>4. texts \in Seq(Seq(Token))
  BY <1>1, <1>3
<1>5. text = FlattenSeq(texts)
  BY DEF Listing
<1> HIDE DEF text, texts, n
<1>6. text \in Seq(Token) /\ (n = 1 => text = SaText(list[1]))
  <2>1. text \in Seq(Token) /\ (Len(texts) = 1 => text = texts[1])
    BY <1>4, <1>5, FlattenParts
  <2> QED
    BY <2>1, <1>2
<1>7. PICK at : Parts(n, texts, text, at)
  BY <1>2, <1>4, <1>5, FlattenParts
<1>8. ASSUME NEW q \in 1 .. Len(text)
      PROVE  \E k \in 1 .. n : \E j \in 1 .. Len(SaText(list[k])) : text[q] = SaText(list[k])[j]
  <2>1. PICK k \in 1 .. n : \E j \in 1 .. Len(texts[k]) : q = at[k] + j
    BY <1>7 DEF Parts
  <2>2. PICK j \in 1 .. Len(texts[k]) : q = at[k] + j
    BY <2>1
  <2>3. text[q] = texts[k][j]
    BY <2>2, <1>7 DEF Parts
  <2> QED
    BY <2>2, <2>3, <1>2
<1>9. ASSUME NEW k \in 1 .. n
      PROVE  /\ at[k] \in Nat
             /\ \A j \in 1 .. Len(SaText(list[k])) : /\ at[k] + j \in 1 .. Len(text)
                                                     /\ text[at[k] + j] = SaText(list[k])[j]
  BY <1>2, <1>7 DEF Parts
<1>10. ASSUME NEW q \in 1 .. Len(text), text[q][1] = "ESTABLISHED"
       PROVE  \E k \in 1 .. n : list[k].established
  <2>1. PICK k \in 1 .. n : \E j \in 1 .. Len(SaText(list[k])) : text[q] = SaText(list[k])[j]
    BY <1>8
  <2> QED
    BY <2>1, <1>1, <1>10, SaTextSays
<1>11. ASSUME NEW q \in 1 .. Len(text), text[q][1] = "INSTALLED"
       PROVE  \E k \in 1 .. n : \E i \in 1 .. Len(list[k].children) : list[k].children[i].installed
  <2>1. PICK k \in 1 .. n : \E j \in 1 .. Len(SaText(list[k])) : text[q] = SaText(list[k])[j]
    BY <1>8
  <2>2. PICK j \in 1 .. Len(SaText(list[k])) : text[q] = SaText(list[k])[j]
    BY <2>1
  <2>3. SaText(list[k])[j][1] = "INSTALLED"
    BY <2>2, <1>11
  <2>4. \E i \in 1 .. Len(list[k].children) : list[k].children[i].installed
    <3> DEFINE sa == list[k]
    <3>1. sa \in Sa
      BY <1>1
    <3> HIDE DEF sa
    <3>2. \A r \in 1 .. Len(SaText(sa)) :
            SaText(sa)[r][1] = "INSTALLED" =>
              \E i \in 1 .. Len(sa.children) : sa.children[i].installed
      BY <3>1, SaTextSays
    <3> QED
      BY <2>2, <2>3, <3>2 DEF sa
  <2> QED
    BY <2>4
<1>12. ASSUME NEW k \in 1 .. n, list[k].established
       PROVE  \E q \in 1 .. Len(text) : /\ q + 1 \in 1 .. Len(text)
                                        /\ text[q][1] = "uniqueid"
                                        /\ text[q + 1][1] = "ESTABLISHED"
  <2> DEFINE one == SaText(list[k])
  <2>1. 2 \in 1 .. Len(one) /\ one[1][1] = "uniqueid" /\ one[2][1] = "ESTABLISHED"
    BY <1>1, <1>12, SaTextSays
  <2>2. Len(one) \in Nat
    BY <1>3
  <2> HIDE DEF one
  <2>3. /\ at[k] \in Nat
        /\ at[k] + 1 \in 1 .. Len(text) /\ text[at[k] + 1] = one[1]
        /\ at[k] + 2 \in 1 .. Len(text) /\ text[at[k] + 2] = one[2]
    BY <2>1, <2>2, <1>9 DEF one
  <2> DEFINE q == at[k] + 1
  <2>4. q + 1 = at[k] + 2
    BY <2>3
  <2>5. /\ q \in 1 .. Len(text) /\ text[q] = one[1]
        /\ q + 1 \in 1 .. Len(text) /\ text[q + 1] = one[2]
    BY <2>3, <2>4
  <2> HIDE DEF q
  <2> QED
    BY <2>1, <2>5
<1>13. ASSUME NEW k \in 1 .. n, NEW i \in 1 .. Len(list[k].children), list[k].children[i].installed
       PROVE  \E p, q \in 1 .. Len(text) : /\ p < q
                                           /\ q + 1 \in 1 .. Len(text)
                                           /\ text[p][1] = "child-sas"
                                           /\ text[q][1] = "uniqueid"
                                           /\ text[q + 1][1] = "INSTALLED"
  <2> DEFINE one == SaText(list[k])
  <2>1. \E p, q \in 1 .. Len(one) : /\ p < q
                                   /\ q + 1 \in 1 .. Len(one)
                                   /\ one[p][1] = "child-sas"
                                   /\ one[q][1] = "uniqueid"
                                   /\ one[q + 1][1] = "INSTALLED"
    BY <1>1, <1>13, SaTextSays
  <2>2. /\ at[k] \in Nat
        /\ \A j \in 1 .. Len(one) : at[k] + j \in 1 .. Len(text) /\ text[at[k] + j] = one[j]
    BY <1>9
  <2> HIDE DEF one
  <2>3. PICK p \in 1 .. Len(one), q \in 1 .. Len(one) : /\ p < q
                                                      /\ q + 1 \in 1 .. Len(one)
                                                      /\ one[p][1] = "child-sas"
                                                      /\ one[q][1] = "uniqueid"
                                                      /\ one[q + 1][1] = "INSTALLED"
    BY <2>1
  <2> DEFINE pp == at[k] + p
             qq == at[k] + q
  <2>4. /\ pp \in 1 .. Len(text) /\ text[pp] = one[p]
        /\ qq \in 1 .. Len(text) /\ text[qq] = one[q]
    <3> HIDE DEF text
    <3> QED
      BY <2>2, <2>3
  <2>5. qq + 1 \in 1 .. Len(text) /\ text[qq + 1] = one[q + 1]
    <3>1. qq + 1 = at[k] + (q + 1)
      <4>1. at[k] \in Nat /\ q \in Int
        BY <2>2
      <4> QED
        BY ONLY <4>1
    <3> QED
      BY <3>1, <2>2, <2>3
  <2>6. pp < qq
    BY <2>2, <2>3
  <2> HIDE DEF pp, qq
  <2> QED
    BY <2>3, <2>4, <2>5, <2>6
<1> QED
  BY <1>6, <1>10, <1>11, <1>12, <1>13 DEF text, n

-----------------------------------------------------------------------------
(***************************************************************************)
(* What the regular expressions find.                                      *)
(***************************************************************************)
LEMMA FindIs ==
  ASSUME NEW text \in Seq(Token), NEW p \in 1 .. Len(text) + 1, NEW place
  PROVE  /\ Find(text, p, place) \in p .. Len(text) + 1
         /\ Find(text, p, place) <= Len(text) => text[Find(text, p, place)][1] = place
         /\ \A q \in p .. Len(text) : text[q][1] = place => Find(text, p, place) <= q
<1> DEFINE n == Len(text)
           Places == {q \in p .. n : text[q][1] = place} \cup {n + 1}
<1>1. n \in Nat
  OBVIOUS
<1> HIDE DEF n
<1>2. Places \subseteq Nat /\ n + 1 \in Places
  BY <1>1
<1>3. \E m \in Places : \A q \in Places : m <= q
  <2>1. Places # {}
    BY <1>2
  <2> HIDE DEF Places
  <2> QED
    BY <2>1, <1>2, LeastNat
<1>4. Find(text, p, place) \in Places /\ \A q \in Places : Find(text, p, place) <= q
  <2> HIDE DEF Places
  <2>1. Min(Places) \in Places /\ \A q \in Places : Min(Places) <= q
    BY <1>3 DEF Min
  <2>2. Find(text, p, place) = Min(Places)
    BY DEF Find, Places, n
  <2> QED
    BY <2>1, <2>2
<1> DEFINE f == Find(text, p, place)
<1> HIDE DEF f
<1>5. f \in Places /\ \A q \in Places : f <= q
  BY <1>4 DEF f
<1>6. p \in 1 .. n + 1
  BY DEF n
<1>7. /\ f \in p .. n + 1
      /\ f <= n => text[f][1] = place
      /\ \A q \in p .. n : text[q][1] = place => f <= q
  BY <1>1, <1>5, <1>6
<1> QED
  BY <1>7 DEF f, n

Collects(n, stop, id, next, f) ==
  \A p \in 1 .. n : f[p] = IF stop[p] THEN {} ELSE {id[p]} \cup f[next[p]]

\* Whatever is found from p on is the identifier of a place not before p.
LEMMA DownwardSubset ==
  ASSUME NEW n \in Nat, NEW stop, NEW id, NEW next, Ahead(n, stop, next),
         NEW f, Collects(n, stop, id, next, f)
  PROVE  \A p \in 1 .. n : \A x \in f[p] : \E q \in 1 .. n : ~ stop[q] /\ x = id[q]
<1> DEFINE Good(p) == \A x \in f[p] : \E q \in 1 .. n : ~ stop[q] /\ x = id[q]
           Bad == {k \in 0 .. n - 1 : ~ Good(n - k)}
<1>1. ASSUME NEW p \in 1 .. n, \A q \in p + 1 .. n : Good(q)
      PROVE  Good(p)
  <2>1. CASE stop[p]
    BY <2>1 DEF Collects
  <2>2. CASE ~ stop[p]
    <3>1. f[p] = {id[p]} \cup f[next[p]]
      BY <2>2 DEF Collects
    <3>2. Good(next[p])
      BY <2>2, <1>1 DEF Ahead
    <3> QED
      BY <3>1, <3>2, <2>2
  <2> QED
    BY <2>1, <2>2
<1> HIDE DEF Good
<1>2. Bad = {}
  <2> SUFFICES ASSUME Bad # {}
               PROVE  FALSE
    OBVIOUS
  <2>1. PICK k \in Bad : \A m \in Bad : k <= m
    <3>1. Bad \subseteq Nat
      OBVIOUS
    <3> HIDE DEF Bad
    <3> QED
      BY <3>1, LeastNat
  <2>2. n - k \in 1 .. n
    BY <2>1
  <2>3. ASSUME NEW q \in (n - k) + 1 .. n
        PROVE  Good(q)
    <3> DEFINE m == n - q
    <3>1. m \in 0 .. n - 1 /\ n - m = q /\ ~ (k <= m)
      BY <2>1
    <3> HIDE DEF m
    <3>2. m \notin Bad
      BY <3>1, <2>1
    <3> QED
      BY <3>1, <3>2
  <2>4. Good(n - k)
    BY <1>1, <2>2, <2>3
  <2> QED
    BY <2>1, <2>4
<1>3. ASSUME NEW p \in 1 .. n
      PROVE  Good(p)
  <2> DEFINE k == n - p
  <2>1. k \in 0 .. n - 1 /\ n - k = p
    OBVIOUS
  <2> HIDE DEF k
  <2> QED
    BY <2>1, <1>2
<1> QED
  BY <1>3 DEF Good

\* The identifier that is tried at p, and the end of that match.
IkeAt(text, p) == Find(text, p, "uniqueid")
IkeEnd(text, p) == Find(text, IkeAt(text, p), "ESTABLISHED")

IkeFrom(text, f) ==
  /\ IkeFound(text) = f[1]
  /\ \A p \in 1 .. Len(text) + 1 :
       f[p] = IF IkeEnd(text, p) > Len(text) THEN {}
              ELSE {text[IkeAt(text, p)][2]} \cup f[IkeEnd(text, p) + 1]

LEMMA IkePlaces ==
  ASSUME NEW text \in Seq(Token), NEW p \in 1 .. Len(text) + 1
  PROVE  /\ Len(text) \in Nat
         /\ IkeAt(text, p) \in p .. Len(text) + 1
         /\ IkeEnd(text, p) \in p .. Len(text) + 1
         /\ IkeEnd(text, p) <= Len(text) =>
              /\ IkeAt(text, p) <= Len(text)
              /\ text[IkeAt(text, p)][1] = "uniqueid"
              /\ text[IkeEnd(text, p)][1] = "ESTABLISHED"
         /\ \A q, r \in p .. Len(text) :
              /\ q < r
              /\ text[q][1] = "uniqueid"
              /\ text[r][1] = "ESTABLISHED"
              => IkeEnd(text, p) <= Len(text)
<1> DEFINE i == IkeAt(text, p)
           e == IkeEnd(text, p)
           n == Len(text)
<1>1. n \in Nat
  OBVIOUS
<1>2. /\ i \in p .. n + 1
      /\ i <= n => text[i][1] = "uniqueid"
      /\ \A q \in p .. n : text[q][1] = "uniqueid" => i <= q
  BY FindIs DEF IkeAt
<1>3. i \in 1 .. n + 1
  BY <1>1, <1>2
<1> HIDE DEF i
<1>4. /\ Find(text, i, "ESTABLISHED") \in i .. n + 1
      /\ Find(text, i, "ESTABLISHED") <= n => text[Find(text, i, "ESTABLISHED")][1] = "ESTABLISHED"
      /\ \A q \in i .. n : text[q][1] = "ESTABLISHED" => Find(text, i, "ESTABLISHED") <= q
  BY <1>3, FindIs
<1>5. e = Find(text, i, "ESTABLISHED")
  BY DEF IkeEnd, i
<1> HIDE DEF e, n
<1>6. /\ e \in i .. n + 1
      /\ e \in p .. n + 1
      /\ e <= n => i <= n /\ text[i][1] = "uniqueid" /\ text[e][1] = "ESTABLISHED"
  BY <1>1, <1>2, <1>4, <1>5
<1>7. ASSUME NEW q \in p .. n, NEW r \in p .. n, q < r,
             text[q][1] = "uniqueid", text[r][1] = "ESTABLISHED"
      PROVE  e <= n
  <2>1. i <= q
    BY <1>2, <1>7
  <2>2. r \in i .. n
    BY <1>1, <1>3, <1>7, <2>1
  <2>3. e <= r
    BY <1>4, <1>5, <1>7, <2>2
  <2> QED
    BY <1>1, <1>3, <1>6, <2>2, <2>3
<1> QED
  BY <1>1, <1>2, <1>6, <1>7 DEF i, e, n

LEMMA IkeFoundFrom ==
  ASSUME NEW text \in Seq(Token)
  PROVE  \E f : IkeFrom(text, f)
<1> DEFINE n == Len(text) + 1
           stop == [p \in 1 .. n |-> IkeEnd(text, p) > Len(text)]
           id == [p \in 1 .. n |-> text[IkeAt(text, p)][2]]
           next == [p \in 1 .. n |-> IkeEnd(text, p) + 1]
           from[p \in 1 .. n] ==
             LET i == Find(text, p, "uniqueid")
                 e == Find(text, i, "ESTABLISHED")
             IN  IF e > Len(text) THEN {} ELSE {text[i][2]} \cup from[e + 1]
<1>1. n \in Nat
  OBVIOUS
<1>2. Ahead(n, stop, next)
  <2>1. ASSUME NEW p \in 1 .. n, ~ stop[p]
        PROVE  next[p] \in p + 1 .. n
    <3>1. IkeEnd(text, p) \in p .. Len(text) + 1 /\ Len(text) \in Nat
      BY IkePlaces
    <3>2. ~ (IkeEnd(text, p) > Len(text)) /\ next[p] = IkeEnd(text, p) + 1
      BY <2>1
    <3> QED
      BY ONLY <3>1, <3>2, p \in 1 .. n
  <2> QED
    BY <2>1 DEF Ahead
<1>3. \E f : Gathers(n, stop, id, next, f)
  <2> HIDE DEF n, stop, id, next
  <2> QED
    BY <1>1, <1>2, DownwardFunction
<1>4. PICK f : Gathers(n, stop, id, next, f)
  BY <1>3
<1>5. f = [p \in 1 .. n |->
             LET i == Find(text, p, "uniqueid")
                 e == Find(text, i, "ESTABLISHED")
             IN  IF e > Len(text) THEN {} ELSE {text[i][2]} \cup f[e + 1]]
  BY <1>4 DEF Gathers, IkeAt, IkeEnd
<1>6. from = [p \in 1 .. n |->
             LET i == Find(text, p, "uniqueid")
                 e == Find(text, i, "ESTABLISHED")
             IN  IF e > Len(text) THEN {} ELSE {text[i][2]} \cup from[e + 1]]
  BY <1>5
<1>7. IkeFound(text) = from[1]
  BY DEF IkeFound
<1> HIDE DEF from
<1>8. ASSUME NEW p \in 1 .. n
      PROVE  from[p] = IF IkeEnd(text, p) > Len(text) THEN {}
                       ELSE {text[IkeAt(text, p)][2]} \cup from[IkeEnd(text, p) + 1]
  BY <1>6 DEF IkeAt, IkeEnd
<1>9. IkeFrom(text, from)
  BY <1>7, <1>8 DEF IkeFrom
<1> QED
  BY <1>9

LEMMA IkeFoundIs ==
  ASSUME NEW text \in Seq(Token)
  PROVE  /\ \A x \in IkeFound(text) : \E q \in 1 .. Len(text) :
              text[q][1] = "uniqueid" /\ x = text[q][2]
         /\ IkeFound(text) # {} <=> IkeEnd(text, 1) <= Len(text)
<1> DEFINE n == Len(text) + 1
           stop == [p \in 1 .. n |-> IkeEnd(text, p) > Len(text)]
           id == [p \in 1 .. n |-> text[IkeAt(text, p)][2]]
           next == [p \in 1 .. n |-> IkeEnd(text, p) + 1]
<1>1. PICK f : IkeFrom(text, f)
  BY IkeFoundFrom
<1>2. n \in Nat /\ 1 \in 1 .. n /\ Len(text) \in Nat
  OBVIOUS
<1>3. Ahead(n, stop, next)
  <2>1. ASSUME NEW p \in 1 .. n, ~ stop[p]
        PROVE  next[p] \in p + 1 .. n
    <3>1. IkeEnd(text, p) \in p .. Len(text) + 1
      BY IkePlaces
    <3>2. ~ (IkeEnd(text, p) > Len(text)) /\ next[p] = IkeEnd(text, p) + 1
      BY <2>1
    <3> QED
      BY ONLY <1>2, <3>1, <3>2, p \in 1 .. n
  <2> QED
    BY <2>1 DEF Ahead
<1>4. Collects(n, stop, id, next, f)
  BY <1>1 DEF IkeFrom, Collects
<1>5. \A p \in 1 .. n : \A x \in f[p] : \E q \in 1 .. n : ~ stop[q] /\ x = id[q]
  <2> HIDE DEF n, stop, id, next
  <2> QED
    BY <1>2, <1>3, <1>4, DownwardSubset
<1>6. ASSUME NEW x \in IkeFound(text)
      PROVE  \E q \in 1 .. Len(text) : text[q][1] = "uniqueid" /\ x = text[q][2]
  <2>1. PICK q \in 1 .. n : ~ stop[q] /\ x = id[q]
    <3> HIDE DEF n, stop, id
    <3> QED
      BY <1>1, <1>2, <1>5, <1>6 DEF IkeFrom
  <2>2. /\ IkeAt(text, q) \in 1 .. Len(text)
        /\ text[IkeAt(text, q)][1] = "uniqueid"
    <3>1. /\ IkeAt(text, q) \in q .. Len(text) + 1
          /\ IkeEnd(text, q) \in q .. Len(text) + 1
          /\ IkeEnd(text, q) <= Len(text) =>
               IkeAt(text, q) <= Len(text) /\ text[IkeAt(text, q)][1] = "uniqueid"
      BY IkePlaces
    <3>2. IkeEnd(text, q) <= Len(text)
      <4>1. ~ (IkeEnd(text, q) > Len(text))
        BY <2>1
      <4> QED
        BY ONLY <4>1, <3>1, <1>2, q \in 1 .. n
    <3> QED
      BY <3>1, <3>2, <1>2
  <2> QED
    BY <2>1, <2>2
<1>7. IkeFound(text) = IF IkeEnd(text, 1) > Len(text) THEN {}
                       ELSE {text[IkeAt(text, 1)][2]} \cup f[IkeEnd(text, 1) + 1]
  BY <1>1, <1>2 DEF IkeFrom
<1>8. IkeEnd(text, 1) \in Int
  BY <1>2, IkePlaces
<1> HIDE DEF n, stop, id, next
<1>9. IkeFound(text) # {} <=> IkeEnd(text, 1) <= Len(text)
  BY <1>2, <1>7, <1>8
<1> QED
  BY <1>6, <1>9

\* The list of children a match from p on begins with, the identifier that is
\* tried there, and the end of that match.
ChildList(text, p) == Find(text, p, "child-sas")
ChildAt(text, p) == Find(text, ChildList(text, p), "uniqueid")
ChildEnd(text, p) == Find(text, ChildAt(text, p), "INSTALLED")

ChildFrom(text, f) ==
  /\ ChildFound(text) = f[1]
  /\ \A p \in 1 .. Len(text) + 1 :
       f[p] = IF ChildEnd(text, p) > Len(text) THEN {}
              ELSE {text[ChildAt(text, p)][2]} \cup f[ChildEnd(text, p) + 1]

LEMMA ChildPlaces ==
  ASSUME NEW text \in Seq(Token), NEW p \in 1 .. Len(text) + 1
  PROVE  /\ Len(text) \in Nat
         /\ ChildList(text, p) \in p .. Len(text) + 1
         /\ ChildAt(text, p) \in p .. Len(text) + 1
         /\ ChildEnd(text, p) \in p .. Len(text) + 1
         /\ ChildEnd(text, p) <= Len(text) =>
              /\ ChildList(text, p) < ChildAt(text, p)
              /\ ChildAt(text, p) <= Len(text)
              /\ text[ChildList(text, p)][1] = "child-sas"
              /\ text[ChildAt(text, p)][1] = "uniqueid"
              /\ text[ChildEnd(text, p)][1] = "INSTALLED"
         /\ \A c, q, r \in p .. Len(text) :
              /\ c < q /\ q < r
              /\ text[c][1] = "child-sas"
              /\ text[q][1] = "uniqueid"
              /\ text[r][1] = "INSTALLED"
              => ChildEnd(text, p) <= Len(text)
<1> DEFINE l == ChildList(text, p)
           i == ChildAt(text, p)
           e == ChildEnd(text, p)
           n == Len(text)
<1>1. n \in Nat
  OBVIOUS
<1>2. /\ l \in p .. n + 1
      /\ l <= n => text[l][1] = "child-sas"
      /\ \A q \in p .. n : text[q][1] = "child-sas" => l <= q
  BY FindIs DEF ChildList
<1>3. l \in 1 .. n + 1
  BY <1>1, <1>2
<1> HIDE DEF l
<1>4. /\ i \in l .. n + 1
      /\ i <= n => text[i][1] = "uniqueid"
      /\ \A q \in l .. n : text[q][1] = "uniqueid" => i <= q
  <2>1. i = Find(text, l, "uniqueid")
    BY DEF ChildAt, l
  <2> HIDE DEF i
  <2> QED
    BY <1>3, <2>1, FindIs
<1>5. i \in 1 .. n + 1
  BY <1>1, <1>3, <1>4
<1> HIDE DEF i
<1>6. /\ e \in i .. n + 1
      /\ e <= n => text[e][1] = "INSTALLED"
      /\ \A q \in i .. n : text[q][1] = "INSTALLED" => e <= q
  <2>1. e = Find(text, i, "INSTALLED")
    BY DEF ChildEnd, i
  <2> HIDE DEF e
  <2> QED
    BY <1>5, <2>1, FindIs
<1> HIDE DEF e, n
<1>7. i \in p .. n + 1 /\ e \in p .. n + 1
  BY <1>1, <1>2, <1>4, <1>6
<1>8. e <= n => /\ l < i
                /\ i <= n
                /\ text[l][1] = "child-sas"
                /\ text[i][1] = "uniqueid"
                /\ text[e][1] = "INSTALLED"
  BY <1>1, <1>2, <1>4, <1>6
<1>9. ASSUME NEW c \in p .. n, NEW q \in p .. n, NEW r \in p .. n, c < q, q < r,
             text[c][1] = "child-sas", text[q][1] = "uniqueid", text[r][1] = "INSTALLED"
      PROVE  e <= n
  <2>1. l <= c
    BY <1>2, <1>9
  <2>2. q \in l .. n
    BY <1>1, <1>3, <1>9, <2>1
  <2>3. i <= q
    BY <1>4, <1>9, <2>2
  <2>4. r \in i .. n
    BY <1>1, <1>5, <1>9, <2>3
  <2>5. e <= r
    BY <1>6, <1>9, <2>4
  <2> QED
    BY <1>1, <1>5, <1>6, <2>4, <2>5
<1> QED
  BY <1>1, <1>2, <1>7, <1>8, <1>9 DEF l, i, e, n

LEMMA ChildFoundFrom ==
  ASSUME NEW text \in Seq(Token)
  PROVE  \E f : ChildFrom(text, f)
<1> DEFINE n == Len(text) + 1
           stop == [p \in 1 .. n |-> ChildEnd(text, p) > Len(text)]
           id == [p \in 1 .. n |-> text[ChildAt(text, p)][2]]
           next == [p \in 1 .. n |-> ChildEnd(text, p) + 1]
           from[p \in 1 .. n] ==
             LET c == Find(text, p, "child-sas")
                 i == Find(text, c, "uniqueid")
                 e == Find(text, i, "INSTALLED")
             IN  IF e > Len(text) THEN {} ELSE {text[i][2]} \cup from[e + 1]
<1>1. n \in Nat
  OBVIOUS
<1>2. Ahead(n, stop, next)
  <2>1. ASSUME NEW p \in 1 .. n, ~ stop[p]
        PROVE  next[p] \in p + 1 .. n
    <3>1. ChildEnd(text, p) \in p .. Len(text) + 1 /\ Len(text) \in Nat
      BY ChildPlaces
    <3>2. ~ (ChildEnd(text, p) > Len(text)) /\ next[p] = ChildEnd(text, p) + 1
      BY <2>1
    <3> QED
      BY ONLY <3>1, <3>2, p \in 1 .. n
  <2> QED
    BY <2>1 DEF Ahead
<1>3. \E f : Gathers(n, stop, id, next, f)
  <2> HIDE DEF n, stop, id, next
  <2> QED
    BY <1>1, <1>2, DownwardFunction
<1>4. PICK f : Gathers(n, stop, id, next, f)
  BY <1>3
<1>5. f = [p \in 1 .. n |->
             LET c == Find(text, p, "child-sas")
                 i == Find(text, c, "uniqueid")
                 e == Find(text, i, "INSTALLED")
             IN  IF e > Len(text) THEN {} ELSE {text[i][2]} \cup f[e + 1]]
  BY <1>4 DEF Gathers, ChildAt, ChildEnd, ChildList
<1>6. from = [p \in 1 .. n |->
             LET c == Find(text, p, "child-sas")
                 i == Find(text, c, "uniqueid")
                 e == Find(text, i, "INSTALLED")
             IN  IF e > Len(text) THEN {} ELSE {text[i][2]} \cup from[e + 1]]
  BY <1>5
<1>7. ChildFound(text) = from[1]
  BY DEF ChildFound
<1> HIDE DEF from
<1>8. ASSUME NEW p \in 1 .. n
      PROVE  from[p] = IF ChildEnd(text, p) > Len(text) THEN {}
                       ELSE {text[ChildAt(text, p)][2]} \cup from[ChildEnd(text, p) + 1]
  BY <1>6 DEF ChildAt, ChildEnd, ChildList
<1>9. ChildFrom(text, from)
  BY <1>7, <1>8 DEF ChildFrom
<1> QED
  BY <1>9

LEMMA ChildFoundIs ==
  ASSUME NEW text \in Seq(Token)
  PROVE  /\ \A x \in ChildFound(text) : \E c, q \in 1 .. Len(text) :
              /\ c < q
              /\ text[c][1] = "child-sas"
              /\ text[q][1] = "uniqueid"
              /\ x = text[q][2]
         /\ ChildFound(text) # {} <=> ChildEnd(text, 1) <= Len(text)
<1> DEFINE n == Len(text) + 1
           stop == [p \in 1 .. n |-> ChildEnd(text, p) > Len(text)]
           id == [p \in 1 .. n |-> text[ChildAt(text, p)][2]]
           next == [p \in 1 .. n |-> ChildEnd(text, p) + 1]
<1>1. PICK f : ChildFrom(text, f)
  BY ChildFoundFrom
<1>2. n \in Nat /\ 1 \in 1 .. n /\ Len(text) \in Nat
  OBVIOUS
<1>3. Ahead(n, stop, next)
  <2>1. ASSUME NEW p \in 1 .. n, ~ stop[p]
        PROVE  next[p] \in p + 1 .. n
    <3>1. ChildEnd(text, p) \in p .. Len(text) + 1
      BY ChildPlaces
    <3>2. ~ (ChildEnd(text, p) > Len(text)) /\ next[p] = ChildEnd(text, p) + 1
      BY <2>1
    <3> QED
      BY ONLY <1>2, <3>1, <3>2, p \in 1 .. n
  <2> QED
    BY <2>1 DEF Ahead
<1>4. Collects(n, stop, id, next, f)
  BY <1>1 DEF ChildFrom, Collects
<1>5. \A p \in 1 .. n : \A x \in f[p] : \E q \in 1 .. n : ~ stop[q] /\ x = id[q]
  <2> HIDE DEF n, stop, id, next
  <2> QED
    BY <1>2, <1>3, <1>4, DownwardSubset
<1>6. ASSUME NEW x \in ChildFound(text)
      PROVE  \E c, q \in 1 .. Len(text) : /\ c < q
                                         /\ text[c][1] = "child-sas"
                                         /\ text[q][1] = "uniqueid"
                                         /\ x = text[q][2]
  <2>1. PICK q \in 1 .. n : ~ stop[q] /\ x = id[q]
    <3> HIDE DEF n, stop, id
    <3> QED
      BY <1>1, <1>2, <1>5, <1>6 DEF ChildFrom
  <2>2. /\ ChildList(text, q) \in 1 .. Len(text)
        /\ ChildAt(text, q) \in 1 .. Len(text)
        /\ ChildList(text, q) < ChildAt(text, q)
        /\ text[ChildList(text, q)][1] = "child-sas"
        /\ text[ChildAt(text, q)][1] = "uniqueid"
    <3>1. /\ ChildList(text, q) \in q .. Len(text) + 1
          /\ ChildAt(text, q) \in q .. Len(text) + 1
          /\ ChildEnd(text, q) \in q .. Len(text) + 1
          /\ ChildEnd(text, q) <= Len(text) =>
               /\ ChildList(text, q) < ChildAt(text, q)
               /\ ChildAt(text, q) <= Len(text)
               /\ text[ChildList(text, q)][1] = "child-sas"
               /\ text[ChildAt(text, q)][1] = "uniqueid"
      BY ChildPlaces
    <3>2. ChildEnd(text, q) <= Len(text)
      <4>1. ~ (ChildEnd(text, q) > Len(text))
        BY <2>1
      <4> QED
        BY ONLY <4>1, <3>1, <1>2, q \in 1 .. n
    <3> QED
      BY <3>1, <3>2, <1>2
  <2> QED
    BY <2>1, <2>2
<1>7. ChildFound(text) = IF ChildEnd(text, 1) > Len(text) THEN {}
                       ELSE {text[ChildAt(text, 1)][2]} \cup f[ChildEnd(text, 1) + 1]
  BY <1>1, <1>2 DEF ChildFrom
<1>8. ChildEnd(text, 1) \in Int
  BY <1>2, ChildPlaces
<1> HIDE DEF n, stop, id, next
<1>9. ChildFound(text) # {} <=> ChildEnd(text, 1) <= Len(text)
  BY <1>2, <1>7, <1>8
<1> QED
  BY <1>6, <1>9

-----------------------------------------------------------------------------
(***************************************************************************)
(* The observations of a poll: which there are, none twice, and deletions  *)
(* behind everything else.                                                 *)
(***************************************************************************)
Distinct(s) == \A i, j \in 1 .. Len(s) : s[i] = s[j] => i = j

DeletionsLast(s) ==
  \A i, j \in 1 .. Len(s) : i < j /\ s[i][1] = "SA_DELETED" => s[j][1] = "SA_DELETED"

Observation == Event \X Id

LEMMA ConcatMembers ==
  ASSUME NEW S, NEW a \in Seq(S), NEW b \in Seq(S)
  PROVE  ToSet(a \o b) = ToSet(a) \cup ToSet(b)
<1> DEFINE w == a \o b
<1>1. /\ Len(w) = Len(a) + Len(b)
      /\ Len(a) \in Nat
      /\ Len(b) \in Nat
      /\ \A q \in 1 .. Len(a) : w[q] = a[q]
      /\ \A j \in 1 .. Len(b) : w[Len(a) + j] = b[j]
  BY ConcatAt
<1>2. w \in Seq(S)
  BY ConcatProperties
<1> HIDE DEF w
<1>3. /\ ToSet(w) = {w[q] : q \in 1 .. Len(w)}
      /\ ToSet(a) = {a[q] : q \in 1 .. Len(a)}
      /\ ToSet(b) = {b[q] : q \in 1 .. Len(b)}
  BY <1>2 DEF ToSet
<1>4. ASSUME NEW x \in ToSet(w)
      PROVE  x \in ToSet(a) \/ x \in ToSet(b)
  <2>1. PICK q \in 1 .. Len(w) : x = w[q]
    BY <1>3
  <2>2. CASE q <= Len(a)
    BY <1>1, <1>3, <2>1, <2>2
  <2>3. CASE ~ (q <= Len(a))
    <3> DEFINE j == q - Len(a)
    <3>1. j \in 1 .. Len(b) /\ q = Len(a) + j
      BY <1>1, <2>3
    <3> HIDE DEF j
    <3> QED
      BY <1>1, <1>3, <2>1, <3>1
  <2> QED
    BY <2>2, <2>3
<1>5. ASSUME NEW x \in ToSet(a)
      PROVE  x \in ToSet(w)
  <2>1. PICK q \in 1 .. Len(a) : x = a[q]
    BY <1>3
  <2>2. q \in 1 .. Len(w)
    BY <1>1
  <2> QED
    BY <1>1, <1>3, <2>1, <2>2
<1>6. ASSUME NEW x \in ToSet(b)
      PROVE  x \in ToSet(w)
  <2>1. PICK j \in 1 .. Len(b) : x = b[j]
    BY <1>3
  <2> DEFINE q == Len(a) + j
  <2>2. q \in 1 .. Len(w) /\ x = w[q]
    BY <1>1, <2>1
  <2> HIDE DEF q
  <2> QED
    BY <1>3, <2>2
<1>7. ToSet(w) = ToSet(a) \cup ToSet(b)
  BY <1>4, <1>5, <1>6
<1> QED
  BY <1>7 DEF w

LEMMA ConcatKeeps ==
  ASSUME NEW S, NEW a \in Seq(S), NEW b \in Seq(S),
         Distinct(a), Distinct(b), ToSet(a) \cap ToSet(b) = {},
         DeletionsLast(b), \A i \in 1 .. Len(a) : a[i][1] # "SA_DELETED"
  PROVE  Distinct(a \o b) /\ DeletionsLast(a \o b)
<1> DEFINE w == a \o b
<1>1. /\ Len(w) = Len(a) + Len(b)
      /\ Len(a) \in Nat
      /\ Len(b) \in Nat
      /\ \A q \in 1 .. Len(a) : w[q] = a[q]
      /\ \A j \in 1 .. Len(b) : w[Len(a) + j] = b[j]
  BY ConcatAt
<1> HIDE DEF w
<1>2. \A q \in 1 .. Len(a) : w[q] \in ToSet(a)
  BY <1>1 DEF ToSet
<1>3. ASSUME NEW q \in 1 .. Len(w), q > Len(a)
      PROVE  q - Len(a) \in 1 .. Len(b) /\ w[q] = b[q - Len(a)] /\ w[q] \in ToSet(b)
  <2> DEFINE j == q - Len(a)
  <2>1. j \in 1 .. Len(b) /\ q = Len(a) + j
    BY <1>1, <1>3
  <2> HIDE DEF j
  <2>2. w[q] = b[j]
    BY <1>1, <2>1
  <2>3. b[j] \in ToSet(b)
    BY <2>1 DEF ToSet
  <2> QED
    BY <2>1, <2>2, <2>3 DEF j
<1>4. ASSUME NEW i \in 1 .. Len(w), NEW j \in 1 .. Len(w), w[i] = w[j]
      PROVE  i = j
  <2>1. CASE i <= Len(a) /\ j <= Len(a)
    BY <1>1, <1>4, <2>1 DEF Distinct
  <2>2. CASE i > Len(a) /\ j > Len(a)
    <3>1. /\ i - Len(a) \in 1 .. Len(b)
          /\ j - Len(a) \in 1 .. Len(b)
          /\ b[i - Len(a)] = b[j - Len(a)]
      BY <1>3, <1>4, <2>2
    <3>2. i - Len(a) = j - Len(a)
      BY <3>1 DEF Distinct
    <3> QED
      BY <3>2, <1>1
  <2>3. CASE i <= Len(a) /\ j > Len(a)
    BY <1>1, <1>2, <1>3, <1>4, <2>3
  <2>4. CASE i > Len(a) /\ j <= Len(a)
    BY <1>1, <1>2, <1>3, <1>4, <2>4
  <2> QED
    BY <1>1, <2>1, <2>2, <2>3, <2>4
<1>5. ASSUME NEW i \in 1 .. Len(w), NEW j \in 1 .. Len(w), i < j, w[i][1] = "SA_DELETED"
      PROVE  w[j][1] = "SA_DELETED"
  <2>1. i > Len(a)
    BY <1>1, <1>5
  <2>2. j > Len(a)
    BY <1>1, <1>5, <2>1
  <2>3. /\ i - Len(a) \in 1 .. Len(b)
        /\ j - Len(a) \in 1 .. Len(b)
        /\ b[i - Len(a)] = w[i]
        /\ b[j - Len(a)] = w[j]
    BY <1>3, <2>1, <2>2
  <2>4. i - Len(a) < j - Len(a)
    BY <1>1, <1>5
  <2> QED
    BY <1>5, <2>3, <2>4 DEF DeletionsLast
<1> QED
  BY <1>4, <1>5 DEF w, Distinct, DeletionsLast

LEMMA TailKeeps ==
  ASSUME NEW S, NEW s \in Seq(S), s # <<>>, Distinct(s), DeletionsLast(s)
  PROVE  /\ Head(s) \in S
         /\ Head(s) \in ToSet(s)
         /\ Tail(s) \in Seq(S)
         /\ ToSet(Tail(s)) = ToSet(s) \ {Head(s)}
         /\ Distinct(Tail(s))
         /\ DeletionsLast(Tail(s))
         /\ Head(s)[1] = "SA_DELETED" => \A o \in ToSet(s) : o[1] = "SA_DELETED"
<1> DEFINE t == Tail(s)
           n == Len(s)
<1>1. /\ t \in Seq(S)
      /\ n \in Nat \ {0}
      /\ Len(t) = n - 1
      /\ \A i \in 1 .. n - 1 : t[i] = s[i + 1]
      /\ Head(s) = s[1]
      /\ s[1] \in S
  OBVIOUS
<1> HIDE DEF t
<1>2. /\ ToSet(s) = {s[i] : i \in 1 .. n}
      /\ ToSet(t) = {t[i] : i \in 1 .. n - 1}
  <2>1. ToSet(s) = {s[i] : i \in 1 .. n}
    BY DEF ToSet
  <2>2. DOMAIN t = 1 .. n - 1
    BY <1>1
  <2>3. ToSet(t) = {t[i] : i \in 1 .. n - 1}
    BY <2>2 DEF ToSet
  <2> QED
    BY <2>1, <2>3
<1>3. \A i \in 1 .. n - 1 : i + 1 \in 1 .. n
  BY <1>1
<1> HIDE DEF n
<1>4. ASSUME NEW x \in ToSet(t)
      PROVE  x \in ToSet(s) /\ x # s[1]
  <2>1. PICK i \in 1 .. n - 1 : x = t[i]
    BY <1>2
  <2>2. i + 1 \in 1 .. n /\ x = s[i + 1] /\ 1 \in 1 .. n /\ i + 1 # 1
    BY <1>1, <1>3, <2>1
  <2> QED
    BY <1>2, <2>2 DEF Distinct, n
<1>5. ASSUME NEW x \in ToSet(s), x # s[1]
      PROVE  x \in ToSet(t)
  <2>1. PICK i \in 1 .. n : x = s[i]
    BY <1>2
  <2> DEFINE j == i - 1
  <2>2. j \in 1 .. n - 1 /\ i = j + 1
    BY <1>1, <1>5, <2>1
  <2> HIDE DEF j
  <2>3. t[j] = x
    BY <1>1, <2>1, <2>2
  <2> QED
    BY <1>2, <2>2, <2>3
<1>6. s[1] \in ToSet(s)
  BY <1>1, <1>2
<1>7. ToSet(t) = ToSet(s) \ {s[1]}
  BY <1>4, <1>5
<1>8. ASSUME NEW i \in 1 .. n - 1, NEW j \in 1 .. n - 1, t[i] = t[j]
      PROVE  i = j
  <2>1. s[i + 1] = s[j + 1] /\ i + 1 \in 1 .. n /\ j + 1 \in 1 .. n
    BY <1>1, <1>3, <1>8
  <2>2. i + 1 = j + 1
    BY <2>1 DEF Distinct, n
  <2> QED
    BY <2>2, <1>1
<1>9. ASSUME NEW i \in 1 .. n - 1, NEW j \in 1 .. n - 1, i < j, t[i][1] = "SA_DELETED"
      PROVE  t[j][1] = "SA_DELETED"
  <2>1. s[i + 1] = t[i] /\ s[j + 1] = t[j] /\ i + 1 \in 1 .. n /\ j + 1 \in 1 .. n
    BY <1>1, <1>3
  <2>2. i + 1 < j + 1
    BY <1>9, <1>1
  <2> QED
    BY <1>9, <2>1, <2>2 DEF DeletionsLast, n
<1>10. ASSUME s[1][1] = "SA_DELETED", NEW o \in ToSet(s)
       PROVE  o[1] = "SA_DELETED"
  <2>1. PICK i \in 1 .. n : o = s[i]
    BY <1>2
  <2>2. i = 1 \/ 1 < i
    BY <1>1
  <2> QED
    BY <1>1, <1>10, <2>1, <2>2 DEF DeletionsLast, n
<1> QED
  BY <1>1, <1>6, <1>7, <1>8, <1>9, <1>10 DEF t, Distinct, DeletionsLast

LEMMA ReportsAre ==
  ASSUME NEW event \in Event, NEW ids, ids \subseteq Id
  PROVE  /\ Reports(event, ids) \in Seq(Observation)
         /\ ToSet(Reports(event, ids)) = {event} \X ids
         /\ Distinct(Reports(event, ids))
         /\ \A i \in 1 .. Len(Reports(event, ids)) : Reports(event, ids)[i][1] = event
<1> DEFINE n == Cardinality(ids)
           order == SetToSeq(ids)
           r == Reports(event, ids)
<1>1. IsFiniteSet(ids)
  <2>1. IsFiniteSet(Id)
    BY MaxIdOK, FS_Interval DEF Id
  <2> QED
    BY <2>1, FS_Subset
<1>2. n \in Nat /\ ExistsBijection(1 .. n, ids)
  BY <1>1, FS_CardinalityType
<1>3. Cardinality(1 .. n) = n
  BY <1>2, FS_Interval
<1>4. order \in [1 .. n -> ids] /\ IsInjective(order)
  <2>1. \E f \in [1 .. n -> ids] : IsInjective(f)
    BY <1>2 DEF ExistsBijection, Bijection, Injection
  <2> QED
    BY <2>1 DEF SetToSeq
<1>5. \A x \in ids : \E i \in 1 .. n : order[i] = x
  <2>1. order \in Injection(1 .. n, ids)
    BY <1>4 DEF Injection
  <2>2. order \in Surjection(1 .. n, ids)
    <3> HIDE DEF order
    <3> QED
      BY <1>1, <1>3, <2>1, FS_Injection
  <2> QED
    BY <2>2 DEF Surjection
<1>6. Len(order) = n
  BY <1>2, <1>4
<1>7. r = [i \in 1 .. n |-> <<event, order[i]>>]
  BY <1>6 DEF Reports
<1> HIDE DEF n, order, r
<1>8. r \in Seq(Observation) /\ Len(r) = n /\ DOMAIN r = 1 .. n
  BY <1>2, <1>4, <1>7 DEF Observation
<1>9. \A i \in 1 .. n : r[i] = <<event, order[i]>> /\ order[i] \in ids
  BY <1>4, <1>7
<1>10. ToSet(r) = {event} \X ids
  <2>1. ASSUME NEW o \in ToSet(r)
        PROVE  o \in {event} \X ids
    <3>1. PICK i \in 1 .. n : o = r[i]
      BY <1>8 DEF ToSet
    <3> QED
      BY <1>9, <3>1
  <2>2. ASSUME NEW o \in {event} \X ids
        PROVE  o \in ToSet(r)
    <3>1. PICK i \in 1 .. n : order[i] = o[2]
      BY <1>5
    <3>2. r[i] = o
      BY <1>9, <3>1
    <3> QED
      BY <1>8, <3>2 DEF ToSet
  <2> QED
    BY <2>1, <2>2
<1>11. Distinct(r)
  <2>1. ASSUME NEW i \in 1 .. n, NEW j \in 1 .. n, r[i] = r[j]
        PROVE  i = j
    <3>1. order[i] = order[j]
      BY <1>9, <2>1
    <3> QED
      BY <3>1, <1>4 DEF IsInjective
  <2> QED
    BY <2>1, <1>8 DEF Distinct
<1>12. \A i \in 1 .. n : r[i][1] = event
  BY <1>9
<1> QED
  BY <1>8, <1>10, <1>11, <1>12 DEF r

\* The identifiers of which a sequence of observations has such an event.
ReportedIds(s, event) == {p[2] : p \in {q \in ToSet(s) : q[1] = event}}

LEMMA ReportedIn ==
  ASSUME NEW s \in Seq(Observation), NEW event, NEW x
  PROVE  x \in ReportedIds(s, event) <=> <<event, x>> \in ToSet(s)
<1>1. ASSUME x \in ReportedIds(s, event)
      PROVE  <<event, x>> \in ToSet(s)
  <2>1. PICK p \in ToSet(s) : p[1] = event /\ p[2] = x
    BY <1>1 DEF ReportedIds
  <2>2. p \in Observation
    BY <2>1 DEF ToSet
  <2>3. p = <<event, x>>
    BY <2>1, <2>2 DEF Observation
  <2> QED
    BY <2>1, <2>3
<1>2. ASSUME <<event, x>> \in ToSet(s)
      PROVE  x \in ReportedIds(s, event)
  <2> DEFINE p == <<event, x>>
  <2>1. p \in ToSet(s) /\ p[1] = event /\ p[2] = x
    BY <1>2
  <2> HIDE DEF p
  <2> QED
    BY <2>1 DEF ReportedIds
<1> QED
  BY <1>1, <1>2

LEMMA ObservationsAre ==
  ASSUME NEW ike, NEW child, ike \subseteq Id, child \subseteq Id, knownIke \subseteq Id
  PROVE  /\ Observations(ike, child) \in Seq(Observation)
         /\ Distinct(Observations(ike, child))
         /\ DeletionsLast(Observations(ike, child))
         /\ ReportedIds(Observations(ike, child), "IKE_SA_ESTABLISHED") = ike \ knownIke
         /\ ReportedIds(Observations(ike, child), "CHILD_SA_INSTALLED") = child \ knownChild
         /\ ReportedIds(Observations(ike, child), "SA_DELETED") = knownIke \ ike
<1> DEFINE e == Reports("IKE_SA_ESTABLISHED", ike \ knownIke)
           c == Reports("CHILD_SA_INSTALLED", child \ knownChild)
           d == Reports("SA_DELETED", knownIke \ ike)
           o == Observations(ike, child)
<1>1. /\ e \in Seq(Observation)
      /\ ToSet(e) = {"IKE_SA_ESTABLISHED"} \X (ike \ knownIke)
      /\ Distinct(e)
      /\ \A i \in 1 .. Len(e) : e[i][1] = "IKE_SA_ESTABLISHED"
  BY ReportsAre DEF Event
<1>2. /\ c \in Seq(Observation)
      /\ ToSet(c) = {"CHILD_SA_INSTALLED"} \X (child \ knownChild)
      /\ Distinct(c)
      /\ \A i \in 1 .. Len(c) : c[i][1] = "CHILD_SA_INSTALLED"
  BY ReportsAre DEF Event
<1>3. /\ d \in Seq(Observation)
      /\ ToSet(d) = {"SA_DELETED"} \X (knownIke \ ike)
      /\ Distinct(d)
      /\ \A i \in 1 .. Len(d) : d[i][1] = "SA_DELETED"
  BY ReportsAre DEF Event
<1>4. o = e \o c \o d
  BY DEF Observations
<1> HIDE DEF e, c, d, o
<1>5. /\ c \o d \in Seq(Observation)
      /\ ToSet(c \o d) = ToSet(c) \cup ToSet(d)
      /\ Distinct(c \o d)
      /\ DeletionsLast(c \o d)
  <2>1. ToSet(c) \cap ToSet(d) = {}
    BY <1>2, <1>3
  <2>2. DeletionsLast(d) /\ \A i \in 1 .. Len(c) : c[i][1] # "SA_DELETED"
    BY <1>2, <1>3 DEF DeletionsLast
  <2> QED
    BY <1>2, <1>3, <2>1, <2>2, ConcatKeeps, ConcatMembers, ConcatProperties
<1>6. /\ e \o (c \o d) \in Seq(Observation)
      /\ ToSet(e \o (c \o d)) = ToSet(e) \cup (ToSet(c) \cup ToSet(d))
      /\ Distinct(e \o (c \o d))
      /\ DeletionsLast(e \o (c \o d))
  <2> DEFINE cd == c \o d
  <2> HIDE DEF cd
  <2>1. /\ cd \in Seq(Observation) /\ ToSet(cd) = ToSet(c) \cup ToSet(d)
        /\ Distinct(cd) /\ DeletionsLast(cd)
    BY <1>5 DEF cd
  <2>2. ToSet(e) \cap ToSet(cd) = {}
    BY <1>1, <1>2, <1>3, <2>1
  <2>3. \A i \in 1 .. Len(e) : e[i][1] # "SA_DELETED"
    BY <1>1
  <2>4. e \o cd \in Seq(Observation) /\ ToSet(e \o cd) = ToSet(e) \cup ToSet(cd)
    BY <1>1, <2>1, ConcatMembers, ConcatProperties
  <2>5. Distinct(e \o cd) /\ DeletionsLast(e \o cd)
    BY <1>1, <2>1, <2>2, <2>3, ConcatKeeps
  <2> QED
    BY <2>1, <2>4, <2>5 DEF cd
<1>7. o = e \o (c \o d)
  BY <1>1, <1>2, <1>3, <1>4, ConcatAssociative
<1>8. ToSet(o) = ({"IKE_SA_ESTABLISHED"} \X (ike \ knownIke))
                 \cup ({"CHILD_SA_INSTALLED"} \X (child \ knownChild))
                 \cup ({"SA_DELETED"} \X (knownIke \ ike))
  BY <1>1, <1>2, <1>3, <1>6, <1>7
<1>9. o \in Seq(Observation)
  BY <1>6, <1>7
<1>10. ReportedIds(o, "IKE_SA_ESTABLISHED") = ike \ knownIke
  <2>1. ASSUME NEW x
        PROVE  x \in ReportedIds(o, "IKE_SA_ESTABLISHED") <=> x \in ike \ knownIke
    <3>1. x \in ReportedIds(o, "IKE_SA_ESTABLISHED") <=> <<"IKE_SA_ESTABLISHED", x>> \in ToSet(o)
      BY <1>9, ReportedIn
    <3>2. <<"IKE_SA_ESTABLISHED", x>> \in ToSet(o) <=> x \in ike \ knownIke
      BY <1>8
    <3> QED
      BY <3>1, <3>2
  <2> QED
    BY <2>1
<1>11. ReportedIds(o, "CHILD_SA_INSTALLED") = child \ knownChild
  <2>1. ASSUME NEW x
        PROVE  x \in ReportedIds(o, "CHILD_SA_INSTALLED") <=> x \in child \ knownChild
    <3>1. x \in ReportedIds(o, "CHILD_SA_INSTALLED") <=> <<"CHILD_SA_INSTALLED", x>> \in ToSet(o)
      BY <1>9, ReportedIn
    <3>2. <<"CHILD_SA_INSTALLED", x>> \in ToSet(o) <=> x \in child \ knownChild
      BY <1>8
    <3> QED
      BY <3>1, <3>2
  <2> QED
    BY <2>1
<1>12. ReportedIds(o, "SA_DELETED") = knownIke \ ike
  <2>1. ASSUME NEW x
        PROVE  x \in ReportedIds(o, "SA_DELETED") <=> x \in knownIke \ ike
    <3>1. x \in ReportedIds(o, "SA_DELETED") <=> <<"SA_DELETED", x>> \in ToSet(o)
      BY <1>9, ReportedIn
    <3>2. <<"SA_DELETED", x>> \in ToSet(o) <=> x \in knownIke \ ike
      BY <1>8
    <3> QED
      BY <3>1, <3>2
  <2> QED
    BY <2>1
<1> QED
  BY <1>6, <1>7, <1>10, <1>11, <1>12 DEF o

-----------------------------------------------------------------------------
(***************************************************************************)
(* Reading a listing.                                                      *)
(***************************************************************************)
LEMMA FoundAreIds ==
  ASSUME NEW list \in Seq(Sa)
  PROVE  IkeFound(Listing(list)) \subseteq Id /\ ChildFound(Listing(list)) \subseteq Id
<1> DEFINE text == Listing(list)
<1>1. text \in Seq(Token)
  BY ListingSays
<1> HIDE DEF text
<1>2. ASSUME NEW q \in 1 .. Len(text), text[q][1] = "uniqueid"
      PROVE  text[q][2] \in Id
  <2>1. text[q] \in Token
    BY <1>1
  <2> QED
    BY <1>2, <2>1 DEF Token, KidToken, Uid
<1>3. IkeFound(text) \subseteq Id
  BY <1>1, <1>2, IkeFoundIs
<1>4. ChildFound(text) \subseteq Id
  BY <1>1, <1>2, ChildFoundIs
<1> QED
  BY <1>3, <1>4 DEF text

LEMMA EstablishedIsFound ==
  ASSUME sas \in Seq(Sa)
  PROVE  IkeFound(Listing(sas)) # {} <=> Established # {}
<1> DEFINE text == Listing(sas)
<1>1. /\ text \in Seq(Token)
      /\ \A q \in 1 .. Len(text) :
           text[q][1] = "ESTABLISHED" => \E k \in 1 .. Len(sas) : sas[k].established
      /\ \A k \in 1 .. Len(sas) :
           sas[k].established =>
             \E q \in 1 .. Len(text) : /\ q + 1 \in 1 .. Len(text)
                                      /\ text[q][1] = "uniqueid"
                                      /\ text[q + 1][1] = "ESTABLISHED"
  BY ListingSays
<1> HIDE DEF text
<1> DEFINE n == Len(text)
           e == IkeEnd(text, 1)
<1>2. n \in Nat /\ 1 \in 1 .. n + 1
  BY <1>1
<1>3. IkeFound(text) # {} <=> e <= n
  BY <1>1, IkeFoundIs
<1>4. /\ e \in 1 .. n + 1
      /\ e <= n => text[e][1] = "ESTABLISHED"
      /\ \A q, r \in 1 .. n :
           q < r /\ text[q][1] = "uniqueid" /\ text[r][1] = "ESTABLISHED" => e <= n
  BY <1>1, <1>2, IkePlaces
<1> HIDE DEF e
<1>5. ASSUME e <= n
      PROVE  Established # {}
  <2>1. e \in 1 .. n /\ text[e][1] = "ESTABLISHED"
    BY <1>2, <1>4, <1>5
  <2>2. PICK k \in 1 .. Len(sas) : sas[k].established
    BY <2>1, <1>1
  <2>3. sas[k].id \in Established
    BY <2>2 DEF Established
  <2> QED
    BY <2>3
<1>6. ASSUME Established # {}
      PROVE  e <= n
  <2>1. PICK k \in 1 .. Len(sas) : sas[k].established
    BY <1>6 DEF Established
  <2>2. PICK q \in 1 .. n : /\ q + 1 \in 1 .. n
                            /\ text[q][1] = "uniqueid"
                            /\ text[q + 1][1] = "ESTABLISHED"
    BY <2>1, <1>1
  <2> QED
    BY <2>2, <1>2, <1>4
<1> QED
  BY <1>3, <1>5, <1>6 DEF text

LEMMA InstalledIsFound ==
  ASSUME sas \in Seq(Sa)
  PROVE  ChildFound(Listing(sas)) # {} <=> Installed # {}
<1> DEFINE text == Listing(sas)
<1>1. /\ text \in Seq(Token)
      /\ \A q \in 1 .. Len(text) :
           text[q][1] = "INSTALLED" =>
             \E k \in 1 .. Len(sas) : \E i \in 1 .. Len(sas[k].children) :
               sas[k].children[i].installed
      /\ \A k \in 1 .. Len(sas) : \A i \in 1 .. Len(sas[k].children) :
           sas[k].children[i].installed =>
             \E p, q \in 1 .. Len(text) : /\ p < q
                                         /\ q + 1 \in 1 .. Len(text)
                                         /\ text[p][1] = "child-sas"
                                         /\ text[q][1] = "uniqueid"
                                         /\ text[q + 1][1] = "INSTALLED"
  BY ListingSays
<1> HIDE DEF text
<1> DEFINE n == Len(text)
           e == ChildEnd(text, 1)
<1>2. n \in Nat /\ 1 \in 1 .. n + 1
  BY <1>1
<1>3. ChildFound(text) # {} <=> e <= n
  BY <1>1, ChildFoundIs
<1>4. /\ e \in 1 .. n + 1
      /\ e <= n => text[e][1] = "INSTALLED"
      /\ \A c, q, r \in 1 .. n :
           /\ c < q /\ q < r
           /\ text[c][1] = "child-sas" /\ text[q][1] = "uniqueid" /\ text[r][1] = "INSTALLED"
           => e <= n
  BY <1>1, <1>2, ChildPlaces
<1> HIDE DEF e
<1>5. \A k \in 1 .. Len(sas) : DOMAIN sas[k].children = 1 .. Len(sas[k].children)
  BY DEF Sa
<1>6. ASSUME e <= n
      PROVE  Installed # {}
  <2>1. e \in 1 .. n /\ text[e][1] = "INSTALLED"
    BY <1>2, <1>4, <1>6
  <2>2. PICK k \in 1 .. Len(sas) : \E i \in 1 .. Len(sas[k].children) : sas[k].children[i].installed
    BY <2>1, <1>1
  <2>3. PICK i \in 1 .. Len(sas[k].children) : sas[k].children[i].installed
    BY <2>2
  <2>4. sas[k].children[i] \in ToSet(sas[k].children)
    BY <1>5 DEF ToSet
  <2>5. sas[k].children[i].id \in Installed
    BY <2>3, <2>4 DEF Installed
  <2> QED
    BY <2>5
<1>7. ASSUME Installed # {}
      PROVE  e <= n
  <2>1. PICK k \in 1 .. Len(sas) : \E d \in ToSet(sas[k].children) : d.installed
    BY <1>7 DEF Installed
  <2>2. PICK i \in 1 .. Len(sas[k].children) : sas[k].children[i].installed
    BY <2>1, <1>5 DEF ToSet
  <2>3. PICK p \in 1 .. n, q \in 1 .. n : /\ p < q
                                         /\ q + 1 \in 1 .. n
                                         /\ text[p][1] = "child-sas"
                                         /\ text[q][1] = "uniqueid"
                                         /\ text[q + 1][1] = "INSTALLED"
    BY <2>2, <1>1
  <2>4. q < q + 1
    BY <2>3
  <2> QED
    BY <2>3, <2>4, <1>4
<1> QED
  BY <1>3, <1>6, <1>7 DEF text

\* With one SA listed, its being established is what is found.
LEMMA OneSaIsRead ==
  ASSUME sas \in Seq(Sa), Len(sas) = 1
  PROVE  IkeFound(Listing(sas)) = Established
<1> DEFINE text == Listing(sas)
           sa == sas[1]
           n == Len(text)
<1>1. sa \in Sa
  OBVIOUS
<1>2. text \in Seq(Token) /\ text = SaText(sa)
  BY ListingSays
<1>3. /\ text[1] = <<"uniqueid", sa.id>>
      /\ \A q \in 1 .. n : text[q][1] = "ESTABLISHED" => q = 2
      /\ sa.established => 2 \in 1 .. n /\ text[2][1] = "ESTABLISHED"
  BY <1>1, <1>2, SaTextIs, SaTextSays
<1>4. Established = {sas[k].id : k \in {j \in {1} : sas[j].established}}
  <2>1. 1 .. Len(sas) = {1}
    OBVIOUS
  <2> QED
    BY <2>1 DEF Established
<1>5. CASE ~ sa.established
  <2>1. Established = {}
    BY <1>4, <1>5
  <2> QED
    BY <2>1, EstablishedIsFound
<1>6. CASE sa.established
  <2>1. Established = {sa.id}
    BY <1>4, <1>6
  <2> HIDE DEF text, sa
  <2>2. n \in Nat /\ 2 \in 1 .. n
    BY <1>2, <1>3, <1>6
  <2>3. PICK f : IkeFrom(text, f)
    BY <1>2, IkeFoundFrom
  <2> HIDE DEF n
  <2>4. 1 \in 1 .. n + 1 /\ 3 \in 1 .. n + 1 /\ 1 \in 1 .. n
    BY <2>2
  <2>5. IkeAt(text, 1) = 1
    <3>1. IkeAt(text, 1) \in 1 .. n + 1 /\ IkeAt(text, 1) <= 1
      BY <1>2, <1>3, <2>4, FindIs DEF IkeAt, n
    <3> QED
      BY <3>1
  <2>6. IkeEnd(text, 1) = 2
    <3>1. /\ IkeEnd(text, 1) \in 1 .. n + 1
          /\ IkeEnd(text, 1) <= n => text[IkeEnd(text, 1)][1] = "ESTABLISHED"
          /\ \A q, r \in 1 .. n :
               q < r /\ text[q][1] = "uniqueid" /\ text[r][1] = "ESTABLISHED" => IkeEnd(text, 1) <= n
      BY <1>2, <2>4, IkePlaces DEF n
    <3>2. IkeEnd(text, 1) <= n
      BY <3>1, <2>2, <2>4, <1>3, <1>6
    <3>3. IkeEnd(text, 1) \in 1 .. n
      BY <3>1, <3>2, <2>2
    <3> QED
      BY <3>1, <3>2, <3>3, <1>3
  <2>7. IkeEnd(text, 3) > n
    <3>1. /\ IkeEnd(text, 3) \in 3 .. n + 1
          /\ IkeEnd(text, 3) <= n => text[IkeEnd(text, 3)][1] = "ESTABLISHED"
      BY <1>2, <2>4, IkePlaces DEF n
    <3> DEFINE e == IkeEnd(text, 3)
    <3> HIDE DEF e
    <3>2. ASSUME e <= n
          PROVE  FALSE
      <4>1. e \in 1 .. n /\ text[e][1] = "ESTABLISHED" /\ e # 2
        BY <3>1, <3>2, <2>2 DEF e
      <4> QED
        BY <4>1, <1>3
    <3> QED
      BY <3>1, <3>2, <2>2 DEF e
  <2>8. f[1] = {text[1][2]} \cup f[3]
    <3>1. f[1] = IF IkeEnd(text, 1) > n THEN {}
                 ELSE {text[IkeAt(text, 1)][2]} \cup f[IkeEnd(text, 1) + 1]
      BY <2>3, <2>4 DEF IkeFrom, n
    <3>2. ~ (2 > n)
      BY <2>2
    <3> QED
      BY <3>1, <3>2, <2>5, <2>6
  <2>9. f[3] = {}
    BY <2>3, <2>4, <2>7 DEF IkeFrom, n
  <2>10. IkeFound(text) = {sa.id}
    BY <2>3, <2>8, <2>9, <1>3 DEF IkeFrom
  <2> QED
    BY <2>1, <2>10 DEF text
<1> QED
  BY <1>5, <1>6

\* With one child of one SA listed, its being installed is what is found.
LEMMA OneChildIsRead ==
  ASSUME sas \in Seq(Sa), Len(sas) = 1, Cardinality(Children) = 1
  PROVE  ChildFound(Listing(sas)) = Installed
<1> DEFINE text == Listing(sas)
           sa == sas[1]
<1>1. sa \in Sa /\ 1 .. Len(sas) = {1}
  OBVIOUS
<1>2. text \in Seq(Token) /\ text = SaText(sa)
  BY ListingSays
<1>3. DOMAIN sa.children = 1 .. Len(sa.children)
  BY <1>1 DEF Sa
<1>4. Children = {c.id : c \in ToSet(sa.children)}
  BY <1>1 DEF Children
<1>5. Installed = {c.id : c \in {d \in ToSet(sa.children) : d.installed}}
  BY <1>1 DEF Installed
<1>6. \E x : Children = {x}
  <2>1. Children \subseteq Id
    <3>1. ASSUME NEW i \in 1 .. Len(sa.children)
          PROVE  sa.children[i].id \in Id
      <4>1. sa.children \in Seq(Child)
        BY <1>1 DEF Sa
      <4>2. sa.children[i] \in Child
        BY <4>1
      <4> QED
        BY <4>2 DEF Child
    <3> QED
      BY <3>1, <1>3, <1>4 DEF ToSet
  <2>2. IsFiniteSet(Children)
    <3>1. IsFiniteSet(Id)
      BY MaxIdOK, FS_Interval DEF Id
    <3> QED
      BY <2>1, <3>1, FS_Subset
  <2> QED
    BY <2>2, FS_Singleton
<1>7. PICK x : Children = {x}
  BY <1>6
<1>8. Installed \subseteq {x}
  BY <1>4, <1>5, <1>7
<1> HIDE DEF text, sa
<1>9. ASSUME NEW y \in ChildFound(text)
      PROVE  y = x
  <2>1. PICK c \in 1 .. Len(text), q \in 1 .. Len(text) : /\ c < q
                                                        /\ text[c][1] = "child-sas"
                                                        /\ text[q][1] = "uniqueid"
                                                        /\ y = text[q][2]
    BY <1>2, <1>9, ChildFoundIs
  <2>2. PICK i \in 1 .. Len(sa.children) : y = sa.children[i].id
    BY <2>1, <1>1, <1>2, SaTextSays
  <2>3. sa.children[i] \in ToSet(sa.children)
    BY <1>3 DEF ToSet
  <2>4. y \in Children
    BY <1>4, <2>2, <2>3
  <2> QED
    BY <2>4, <1>7
<1>10. ChildFound(text) \subseteq {x}
  BY <1>9
<1>11. ChildFound(text) # {} <=> Installed # {}
  BY InstalledIsFound DEF text
<1> QED
  BY <1>8, <1>10, <1>11 DEF text

LEMMA Understood ==
  ASSUME sas \in Seq(Sa)
  PROVE  ListingIsUnderstood
BY EstablishedIsFound, InstalledIsFound, OneSaIsRead, OneChildIsRead DEF ListingIsUnderstood

-----------------------------------------------------------------------------
(***************************************************************************)
(* The inductive invariant: besides the types, that the collector knows    *)
(* what the events stored and pending amount to, and that the pending ones *)
(* are each there once with the deletions behind the rest.                 *)
(***************************************************************************)
ObservationOK ==
  /\ TypeOK
  /\ EventsAreTransitions
  /\ Distinct(pending)
  /\ DeletionsLast(pending)

\* EventsAreTransitions in the words of these proofs.
LEMMA Transitions ==
  EventsAreTransitions <=>
    /\ ReportedIds(pending, "IKE_SA_ESTABLISHED") \cap ownIke = {}
    /\ ReportedIds(pending, "SA_DELETED") \subseteq ownIke
    /\ knownIke = (ownIke \cup ReportedIds(pending, "IKE_SA_ESTABLISHED"))
                  \ ReportedIds(pending, "SA_DELETED")
    /\ knownChild \subseteq ownChild \cup ReportedIds(pending, "CHILD_SA_INSTALLED")
BY DEF EventsAreTransitions, ReportedIds

LEMMA NoneReported ==
  ASSUME NEW event
  PROVE  ReportedIds(<<>>, event) = {} /\ Distinct(<<>>) /\ DeletionsLast(<<>>)
BY DEF ReportedIds, ToSet, Distinct, DeletionsLast

LEMMA ObservationBegins == Init => ObservationOK
<1> SUFFICES ASSUME Init
             PROVE  ObservationOK
  OBVIOUS
<1>1. TypeOK
  <2>1. up \in BOOLEAN
    BY DEF Init
  <2>2. <<>> \in Seq(Sa) /\ <<>> \in Seq(Event \X Id)
    BY EmptySeq
  <2>3. 0 \in 0 .. MaxId
    BY MaxIdOK
  <2> QED
    BY <2>1, <2>2, <2>3 DEF Init, TypeOK
<1>2. EventsAreTransitions
  BY NoneReported, Transitions DEF Init
<1> QED
  BY <1>1, <1>2, NoneReported DEF Init, ObservationOK

LEMMA SaWith ==
  ASSUME NEW sa \in Sa
  PROVE  /\ sa.children \in Seq(Child)
         /\ \A b \in BOOLEAN : [sa EXCEPT !.established = b] \in Sa
         /\ \A s \in Seq(Child) : [sa EXCEPT !.children = s] \in Sa
         /\ \A b \in BOOLEAN, s \in Seq(Child) :
              [sa EXCEPT !.established = b, !.children = s] \in Sa
         /\ \A i \in Id : [sa EXCEPT !.id = i] \in Sa
BY DEF Sa

\* charon's steps are not the agent's.
LEMMA CharonStep ==
  ASSUME ObservationOK, Charon
  PROVE  ObservationOK'
<1>1. UNCHANGED agentVars
  BY DEF Charon, CharonStart, CharonStop, Initiate, Establish, InstallChild, RetireChild,
         RekeyIke, DeleteIke
<1>2. EventsAreTransitions' /\ Distinct(pending)' /\ DeletionsLast(pending)'
  BY <1>1 DEF ObservationOK, EventsAreTransitions, Distinct, DeletionsLast, agentVars, eventVars
<1>3. /\ up \in BOOLEAN
      /\ sas \in Seq(Sa)
      /\ ikeIds \in 0 .. MaxId
      /\ childIds \in 0 .. MaxId
      /\ MaxId \in Nat \ {0}
  BY MaxIdOK DEF ObservationOK, TypeOK
<1>4. /\ up' \in BOOLEAN
      /\ sas' \in Seq(Sa)
      /\ ikeIds' \in 0 .. MaxId
      /\ childIds' \in 0 .. MaxId
  <2>1. CASE CharonStart
    BY <1>3, <2>1 DEF CharonStart, agentVars
  <2>2. CASE CharonStop
    <3>1. up' \in BOOLEAN
      BY <2>2 DEF CharonStop
    <3>2. <<>> \in Seq(Sa) /\ 0 \in 0 .. MaxId
      BY <1>3, EmptySeq
    <3> QED
      BY <2>2, <3>1, <3>2 DEF CharonStop
  <2>3. CASE Initiate
    <3>1. ikeIds + 1 \in Id /\ ikeIds + 1 \in 0 .. MaxId
      BY <1>3, <2>3 DEF Initiate, Id
    <3>2. [id |-> ikeIds + 1, established |-> FALSE, children |-> <<>>] \in Sa
      BY <3>1, EmptySeq DEF Sa
    <3> QED
      BY <1>3, <2>3, <3>1, <3>2 DEF Initiate
  <2>4. CASE Establish
    <3>1. PICK i \in 1 .. Len(sas) : sas' = [sas EXCEPT ![i].established = TRUE]
      BY <2>4 DEF Establish
    <3>2. [sas[i] EXCEPT !.established = TRUE] \in Sa
      <4>1. sas[i] \in Sa
        BY <1>3
      <4> QED
        BY <4>1, SaWith
    <3>3. sas' = [sas EXCEPT ![i] = [sas[i] EXCEPT !.established = TRUE]]
      BY <3>1
    <3> QED
      BY <1>3, <2>4, <3>2, <3>3, ExceptType DEF Establish
  <2>5. CASE InstallChild
    <3>1. childIds + 1 \in Id /\ childIds + 1 \in 0 .. MaxId
      BY <1>3, <2>5 DEF InstallChild, Id
    <3> DEFINE c == [id |-> childIds + 1, installed |-> TRUE]
    <3>2. c \in Child
      BY <3>1 DEF Child
    <3>3. PICK i \in 1 .. Len(sas) : sas' = [sas EXCEPT ![i].children = Append(@, c)]
      BY <2>5 DEF InstallChild
    <3> HIDE DEF c
    <3>4. [sas[i] EXCEPT !.children = Append(sas[i].children, c)] \in Sa
      <4>1. sas[i] \in Sa
        BY <1>3
      <4>2. Append(sas[i].children, c) \in Seq(Child)
        <5>1. sas[i].children \in Seq(Child)
          BY <4>1, SaWith
        <5> QED
          BY <5>1, <3>2
      <4> QED
        BY <4>1, <4>2, SaWith
    <3>5. sas' = [sas EXCEPT ![i] = [sas[i] EXCEPT !.children = Append(sas[i].children, c)]]
      BY <3>3
    <3> QED
      BY <1>3, <2>5, <3>1, <3>4, <3>5, ExceptType DEF InstallChild
  <2>6. CASE RetireChild
    <3>1. PICK i \in 1 .. Len(sas) : \E k \in 1 .. Len(sas[i].children) :
            \/ sas' = [sas EXCEPT ![i].children[k].installed = FALSE]
            \/ sas' = [sas EXCEPT ![i].children = RemoveAt(@, k)]
      BY <2>6 DEF RetireChild
    <3> PICK j \in 1 .. Len(sas[i].children) :
            \/ sas' = [sas EXCEPT ![i].children[j].installed = FALSE]
            \/ sas' = [sas EXCEPT ![i].children = RemoveAt(@, j)]
      BY <3>1
    <3>2. sas[i] \in Sa /\ sas[i].children \in Seq(Child)
      <4>1. sas[i] \in Sa
        BY <1>3
      <4> QED
        BY <4>1, SaWith
    <3> DEFINE old == sas[i].children
               new == [old EXCEPT ![j].installed = FALSE]
    <3>3. new \in Seq(Child) /\ RemoveAt(old, j) \in Seq(Child)
      <4>1. [old[j] EXCEPT !.installed = FALSE] \in Child
        <5>1. old[j] \in Child
          BY <3>2
        <5> QED
          BY <5>1 DEF Child
      <4>2. new = [old EXCEPT ![j] = [old[j] EXCEPT !.installed = FALSE]]
        OBVIOUS
      <4>3. new \in Seq(Child)
        BY <3>2, <4>1, <4>2
      <4>4. RemoveAt(old, j) \in Seq(Child)
        BY <3>2, RemoveAtType
      <4> QED
        BY <4>3, <4>4
    <3>4. \A s \in Seq(Child) : [sas[i] EXCEPT !.children = s] \in Sa
      BY <3>2, SaWith
    <3>5. \/ sas' = [sas EXCEPT ![i] = [sas[i] EXCEPT !.children = new]]
          \/ sas' = [sas EXCEPT ![i] = [sas[i] EXCEPT !.children = RemoveAt(old, j)]]
      OBVIOUS
    <3> HIDE DEF old, new
    <3>6. sas' \in Seq(Sa)
      <4> DEFINE a == [sas[i] EXCEPT !.children = new]
                 b == [sas[i] EXCEPT !.children = RemoveAt(old, j)]
      <4>1. a \in Sa /\ b \in Sa
        BY <3>3, <3>4
      <4>2. sas' = [sas EXCEPT ![i] = a] \/ sas' = [sas EXCEPT ![i] = b]
        BY <3>5
      <4> HIDE DEF a, b
      <4> QED
        BY <1>3, <4>1, <4>2, ExceptType
    <3> QED
      BY <1>3, <2>6, <3>6 DEF RetireChild
  <2>7. CASE RekeyIke
    <3>1. ikeIds + 1 \in Id /\ ikeIds + 1 \in 0 .. MaxId
      BY <1>3, <2>7 DEF RekeyIke, Id
    <3>2. sas[1] \in Sa
      <4>1. Len(sas) = 1
        BY <2>7 DEF RekeyIke
      <4> QED
        BY <1>3, <4>1
    <3>3. /\ [sas[1] EXCEPT !.established = FALSE, !.children = <<>>] \in Sa
          /\ [sas[1] EXCEPT !.id = ikeIds + 1] \in Sa
      BY <3>1, <3>2, EmptySeq, SaWith
    <3> QED
      BY <1>3, <2>7, <3>1, <3>3 DEF RekeyIke
  <2>8. CASE DeleteIke
    <3>1. PICK i \in 1 .. Len(sas) : sas' = RemoveAt(sas, i)
      BY <2>8 DEF DeleteIke
    <3>2. RemoveAt(sas, i) \in Seq(Sa)
      BY <1>3, RemoveAtType
    <3> QED
      BY <1>3, <2>8, <3>1, <3>2 DEF DeleteIke
  <2> QED
    BY <2>1, <2>2, <2>3, <2>4, <2>5, <2>6, <2>7, <2>8 DEF Charon
<1>5. TypeOK'
  BY <1>1, <1>4 DEF agentVars, eventVars, ObservationOK, TypeOK
<1> QED
  BY <1>2, <1>5 DEF ObservationOK

LEMMA PollStep ==
  ASSUME ObservationOK, Poll
  PROVE  ObservationOK'
<1> DEFINE ike == IkeFound(Listing(sas))
           child == ChildFound(Listing(sas))
<1>1. TypeOK /\ EventsAreTransitions
  BY DEF ObservationOK
<1>2. /\ pending = <<>>
      /\ knownIke' = ike
      /\ knownChild' = child
      /\ pending' = Observations(ike, child)
      /\ UNCHANGED charonVars
      /\ UNCHANGED <<seenIke, seenChild, ownIke, ownChild>>
  BY DEF Poll, eventVars
<1>3. ike \subseteq Id /\ child \subseteq Id
  BY <1>1, FoundAreIds DEF TypeOK
<1> HIDE DEF ike, child
<1>4. /\ knownIke = ownIke
      /\ knownChild \subseteq ownChild
      /\ knownIke \subseteq Id
  BY <1>1, <1>2, Transitions, NoneReported DEF TypeOK
<1>5. /\ pending' \in Seq(Observation)
      /\ Distinct(pending')
      /\ DeletionsLast(pending')
      /\ ReportedIds(pending', "IKE_SA_ESTABLISHED") = ike \ knownIke
      /\ ReportedIds(pending', "CHILD_SA_INSTALLED") = child \ knownChild
      /\ ReportedIds(pending', "SA_DELETED") = knownIke \ ike
  BY <1>2, <1>3, <1>4, ObservationsAre
<1>6. TypeOK'
  <2>1. up' \in BOOLEAN
    BY <1>1, <1>2 DEF TypeOK, charonVars
  <2> QED
    BY <1>1, <1>2, <1>3, <1>5, <2>1 DEF TypeOK, charonVars, Observation
<1>7. EventsAreTransitions'
  <2> DEFINE e == ReportedIds(pending', "IKE_SA_ESTABLISHED")
             c == ReportedIds(pending', "CHILD_SA_INSTALLED")
             d == ReportedIds(pending', "SA_DELETED")
  <2>1. EventsAreTransitions' <=> /\ e \cap ownIke' = {}
                                  /\ d \subseteq ownIke'
                                  /\ knownIke' = (ownIke' \cup e) \ d
                                  /\ knownChild' \subseteq ownChild' \cup c
    BY DEF EventsAreTransitions, ReportedIds
  <2>2. e = ike \ ownIke' /\ d = ownIke' \ ike /\ c = child \ knownChild
    BY <1>2, <1>4, <1>5
  <2> HIDE DEF e, c, d
  <2>3. e \cap ownIke' = {} /\ d \subseteq ownIke'
    BY <2>2
  <2>4. knownIke' = (ownIke' \cup e) \ d
    BY <1>2, <2>2
  <2>5. knownChild' \subseteq ownChild' \cup c
    BY <1>2, <1>4, <2>2
  <2> QED
    BY <2>1, <2>3, <2>4, <2>5
<1> QED
  BY <1>5, <1>6, <1>7 DEF ObservationOK

\* What is pending loses the first observation when that one is stored.
LEMMA PersistTakes ==
  ASSUME ObservationOK, Persist
  PROVE  /\ Head(pending) \in Observation
         /\ pending' \in Seq(Observation)
         /\ Distinct(pending')
         /\ DeletionsLast(pending')
         /\ Head(pending)[2] \in ReportedIds(pending, Head(pending)[1])
         /\ \A event, x : x \in ReportedIds(pending', event) <=>
              /\ x \in ReportedIds(pending, event)
              /\ <<event, x>> # Head(pending)
         /\ Head(pending)[1] = "SA_DELETED" =>
              ReportedIds(pending, "IKE_SA_ESTABLISHED") = {}
<1>1. /\ pending \in Seq(Observation)
      /\ pending # <<>>
      /\ Distinct(pending)
      /\ DeletionsLast(pending)
      /\ pending' = Tail(pending)
  BY DEF ObservationOK, TypeOK, Observation, Persist
<1> DEFINE h == Head(pending)
<1>2. /\ h \in Observation
      /\ h \in ToSet(pending)
      /\ pending' \in Seq(Observation)
      /\ ToSet(pending') = ToSet(pending) \ {h}
      /\ Distinct(pending')
      /\ DeletionsLast(pending')
      /\ h[1] = "SA_DELETED" => \A o \in ToSet(pending) : o[1] = "SA_DELETED"
  BY <1>1, TailKeeps
<1> HIDE DEF h
<1>3. h = <<h[1], h[2]>>
  BY <1>2 DEF Observation
<1>4. h[2] \in ReportedIds(pending, h[1])
  BY <1>1, <1>2, <1>3, ReportedIn
<1>5. ASSUME NEW event, NEW x
      PROVE  x \in ReportedIds(pending', event) <=>
               x \in ReportedIds(pending, event) /\ <<event, x>> # h
  <2>1. x \in ReportedIds(pending', event) <=> <<event, x>> \in ToSet(pending')
    BY <1>2, ReportedIn
  <2>2. x \in ReportedIds(pending, event) <=> <<event, x>> \in ToSet(pending)
    BY <1>1, ReportedIn
  <2> QED
    BY <1>2, <2>1, <2>2
<1>6. ASSUME h[1] = "SA_DELETED"
      PROVE  ReportedIds(pending, "IKE_SA_ESTABLISHED") = {}
  BY <1>2, <1>6 DEF ReportedIds
<1> QED
  BY <1>2, <1>4, <1>5, <1>6 DEF h

LEMMA PersistStep ==
  ASSUME ObservationOK, Persist
  PROVE  ObservationOK'
<1> DEFINE h == Head(pending)
           id == h[2]
           e == ReportedIds(pending, "IKE_SA_ESTABLISHED")
           c == ReportedIds(pending, "CHILD_SA_INSTALLED")
           d == ReportedIds(pending, "SA_DELETED")
           ee == ReportedIds(pending', "IKE_SA_ESTABLISHED")
           cc == ReportedIds(pending', "CHILD_SA_INSTALLED")
           dd == ReportedIds(pending', "SA_DELETED")
<1>1. TypeOK /\ EventsAreTransitions
  BY DEF ObservationOK
<1>2. /\ h \in Observation
      /\ pending' \in Seq(Observation)
      /\ Distinct(pending')
      /\ DeletionsLast(pending')
      /\ id \in ReportedIds(pending, h[1])
      /\ \A event, x : x \in ReportedIds(pending', event) <=>
           /\ x \in ReportedIds(pending, event)
           /\ <<event, x>> # h
  BY PersistTakes
<1>3. /\ e \cap ownIke = {}
      /\ d \subseteq ownIke
      /\ knownIke = (ownIke \cup e) \ d
      /\ knownChild \subseteq ownChild \cup c
  BY <1>1, Transitions
<1>4. EventsAreTransitions' <=> /\ ee \cap ownIke' = {}
                                /\ dd \subseteq ownIke'
                                /\ knownIke' = (ownIke' \cup ee) \ dd
                                /\ knownChild' \subseteq ownChild' \cup cc
  BY DEF EventsAreTransitions, ReportedIds
<1>5. /\ seenIke' = IkeAfter(seenIke, h[1], id)
      /\ ownIke' = IkeAfter(ownIke, h[1], id)
      /\ seenChild' = ChildAfter(seenChild, h[1], id)
      /\ ownChild' = ChildAfter(ownChild, h[1], id)
      /\ knownIke' = knownIke
      /\ knownChild' = knownChild
      /\ UNCHANGED charonVars
  BY DEF Persist
<1> HIDE DEF h
<1>6. h[1] \in Event /\ id \in Id /\ h = <<h[1], id>>
  BY <1>2 DEF Observation
<1>7. \A event, x : x \in ReportedIds(pending', event) <=>
        x \in ReportedIds(pending, event) /\ ~ (event = h[1] /\ x = id)
  BY <1>2, <1>6
<1>8. TypeOK'
  <2>1. up' \in BOOLEAN
    BY <1>1, <1>5 DEF TypeOK, charonVars
  <2>2. /\ seenIke' \subseteq Id /\ ownIke' \subseteq seenIke'
        /\ seenChild' \subseteq Id /\ ownChild' \subseteq seenChild'
    BY <1>1, <1>5, <1>6 DEF TypeOK, IkeAfter, ChildAfter
  <2> QED
    BY <1>1, <1>2, <1>5, <2>1, <2>2 DEF TypeOK, charonVars, Observation
<1> HIDE DEF id
<1>9. CASE h[1] = "IKE_SA_ESTABLISHED"
  <2>1. ownIke' = ownIke \cup {id} /\ ownChild' = ownChild
    BY <1>5, <1>9 DEF IkeAfter, ChildAfter
  <2>2. /\ \A x : x \in ee <=> x \in e /\ x # id
        /\ \A x : x \in cc <=> x \in c
        /\ \A x : x \in dd <=> x \in d
        /\ id \in e
    BY <1>2, <1>7, <1>9 DEF id
  <2> HIDE DEF e, c, d, ee, cc, dd
  <2>3. ee = e \ {id} /\ cc = c /\ dd = d
    BY <2>2
  <2> QED
    BY <1>3, <1>4, <1>5, <2>1, <2>2, <2>3, <1>8, <1>2 DEF ObservationOK
<1>10. CASE h[1] = "CHILD_SA_INSTALLED"
  <2>1. ownIke' = ownIke /\ ownChild' = ownChild \cup {id}
    BY <1>5, <1>10 DEF IkeAfter, ChildAfter
  <2>2. /\ \A x : x \in ee <=> x \in e
        /\ \A x : x \in cc <=> x \in c /\ x # id
        /\ \A x : x \in dd <=> x \in d
    BY <1>2, <1>7, <1>10 DEF id
  <2> HIDE DEF e, c, d, ee, cc, dd
  <2>3. ee = e /\ cc = c \ {id} /\ dd = d
    BY <2>2
  <2> QED
    BY <1>3, <1>4, <1>5, <2>1, <2>2, <2>3, <1>8, <1>2 DEF ObservationOK
<1>11. CASE h[1] = "SA_DELETED"
  <2>1. ownIke' = ownIke \ {id} /\ ownChild' = ownChild
    BY <1>5, <1>11 DEF IkeAfter, ChildAfter
  <2>2. /\ \A x : x \in ee <=> x \in e
        /\ \A x : x \in cc <=> x \in c
        /\ \A x : x \in dd <=> x \in d /\ x # id
        /\ id \in d
    BY <1>2, <1>7, <1>11 DEF id
  <2> HIDE DEF e, c, d, ee, cc, dd
  <2>3. ee = e /\ cc = c /\ dd = d \ {id}
    BY <2>2
  <2> QED
    BY <1>3, <1>4, <1>5, <2>1, <2>2, <2>3, <1>8, <1>2 DEF ObservationOK
<1> QED
  BY <1>6, <1>9, <1>10, <1>11 DEF Event

LEMMA RestartStep ==
  ASSUME ObservationOK, Restart
  PROVE  ObservationOK'
<1>1. TypeOK'
  <2>1. up' \in BOOLEAN
    BY DEF ObservationOK, TypeOK, Restart, charonVars
  <2> QED
    BY <2>1, EmptySeq DEF ObservationOK, TypeOK, Restart, charonVars
<1>2. /\ pending' = <<>> /\ knownIke' = {} /\ knownChild' = {}
      /\ ownIke' = {} /\ ownChild' = {}
  BY DEF Restart
<1>3. EventsAreTransitions'
  BY <1>2 DEF EventsAreTransitions, ToSet
<1>4. Distinct(pending') /\ DeletionsLast(pending')
  BY <1>2, NoneReported
<1> QED
  BY <1>1, <1>3, <1>4 DEF ObservationOK

(***************************************************************************)
(* The invariant holds of every reachable state, however many SAs, rekeys, *)
(* restarts of charon and of the agent there are.                          *)
(* (ViciCollector.collect_events, EventCollector.collect_events)           *)
(***************************************************************************)
THEOREM ObservationInvariant == Spec => []ObservationOK
<1>1. Init => ObservationOK
  BY ObservationBegins
<1>2. ObservationOK /\ [Next]_vars => ObservationOK'
  <2> SUFFICES ASSUME ObservationOK, [Next]_vars
               PROVE  ObservationOK'
    OBVIOUS
  <2>1. CASE Poll
    BY <2>1, PollStep
  <2>2. CASE Persist
    BY <2>2, PersistStep
  <2>3. CASE Restart
    BY <2>3, RestartStep
  <2>4. CASE Charon
    BY <2>4, CharonStep
  <2>5. CASE UNCHANGED vars
    BY <2>5 DEF vars, charonVars, agentVars, eventVars, ObservationOK, TypeOK, EventsAreTransitions,
                Distinct, DeletionsLast
  <2> QED
    BY <2>1, <2>2, <2>3, <2>4, <2>5 DEF Next, Agent
<1> QED
  BY <1>1, <1>2, PTL DEF Spec

(***************************************************************************)
(* Whatever is listed, only identifiers come of it, and what is pending is *)
(* a sequence of observations.  (ViciCollector.collect_events)             *)
(***************************************************************************)
THEOREM ObservationTypes == Spec => []TypeOK
<1>1. ObservationOK => TypeOK
  BY DEF ObservationOK
<1> QED
  BY <1>1, ObservationInvariant, PTL

(***************************************************************************)
(* The events that a process of the agent stored and has pending are the   *)
(* transitions of what it knows: it repeats none, and reports the end of   *)
(* no SA it has not established.  (ViciCollector._known_ike)               *)
(***************************************************************************)
THEOREM EventsTellTheStory == Spec => []EventsAreTransitions
<1>1. ObservationOK => EventsAreTransitions
  BY DEF ObservationOK
<1> QED
  BY <1>1, ObservationInvariant, PTL

(***************************************************************************)
(* The regular expressions read any listing right in the ways that         *)
(* ListingIsUnderstood says, of whatever length it is.                     *)
(* (ViciCollector.collect_events: re.findall)                              *)
(***************************************************************************)
THEOREM ListingsAreRead == Spec => []ListingIsUnderstood
<1>1. ObservationOK => ListingIsUnderstood
  BY Understood DEF ObservationOK, TypeOK
<1> QED
  BY <1>1, ObservationInvariant, PTL

(***************************************************************************)
(* The events leave an endpoint without IKE SA only when the last listing  *)
(* did.  (ViciCollector.collect_events: the order of `events`)             *)
(***************************************************************************)
THEOREM OutagesAreReal == Spec => OutageIsReal
<1>1. ObservationOK /\ [Next]_vars =>
        [Persist /\ seenIke # {} /\ seenIke' = {} => knownIke = {}]_vars
  <2> SUFFICES ASSUME ObservationOK, Persist, seenIke # {}, seenIke' = {}
               PROVE  knownIke = {}
    OBVIOUS
  <2> DEFINE h == Head(pending)
             e == ReportedIds(pending, "IKE_SA_ESTABLISHED")
             d == ReportedIds(pending, "SA_DELETED")
  <2>1. /\ h \in Observation
        /\ h[2] \in ReportedIds(pending, h[1])
        /\ h[1] = "SA_DELETED" => e = {}
    BY PersistTakes
  <2>2. /\ seenIke' = IkeAfter(seenIke, h[1], h[2])
        /\ ownIke \subseteq seenIke
    BY DEF Persist, ObservationOK, TypeOK
  <2>3. knownIke = (ownIke \cup e) \ d
    BY Transitions DEF ObservationOK
  <2> HIDE DEF h, e, d
  <2>4. h[1] = "SA_DELETED" /\ seenIke \ {h[2]} = {}
    BY <2>1, <2>2 DEF Observation, Event, IkeAfter
  <2>5. e = {} /\ h[2] \in d
    BY <2>1, <2>4 DEF d
  <2> QED
    BY <2>2, <2>3, <2>4, <2>5
<1> QED
  BY <1>1, ObservationInvariant, PTL DEF Spec, OutageIsReal
=============================================================================
