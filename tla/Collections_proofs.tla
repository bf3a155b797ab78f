------------------------ MODULE Collections_proofs ------------------------
(***************************************************************************)
(* Lemmas about the collections threads are kept in: queues, that is,      *)
(* sequences that threads are put at the end of and taken from the front   *)
(* or the middle (who is in them, whether once, and in front of whom), and *)
(* sums over sets.                                                         *)
(***************************************************************************)
EXTENDS SequencesExt, SequenceTheorems, FiniteSetTheorems, TLAPS

-----------------------------------------------------------------------------
(* Who is in a queue *)

\* The elements of a queue are what stands at its positions.
LEMMA ToSetType ==
  ASSUME NEW S, NEW s \in Seq(S)
  PROVE  /\ ToSet(s) \subseteq S
         /\ \A x : x \in ToSet(s) <=> \E i \in 1 .. Len(s) : s[i] = x
BY DEF ToSet

\* ... and those of two queues one behind the other are those of both.
LEMMA ToSetConcat ==
  ASSUME NEW S, NEW s \in Seq(S), NEW t \in Seq(S)
  PROVE  ToSet(s \o t) = ToSet(s) \cup ToSet(t)
<1>1. ToSet(s \o t) = Range(s \o t) /\ ToSet(s) = Range(s) /\ ToSet(t) = Range(t)
  BY DEF ToSet, Range
<1> QED
  BY <1>1, RangeConcatenation

\* emplace_back adds its element.
LEMMA ToSetAppend ==
  ASSUME NEW S, NEW s \in Seq(S), NEW e \in S
  PROVE  Append(s, e) \in Seq(S) /\ ToSet(Append(s, e)) = ToSet(s) \cup {e}
<1>1. /\ Append(s, e) \in Seq(S)
      /\ Len(Append(s, e)) = Len(s) + 1
      /\ \A i \in 1 .. Len(s) : Append(s, e)[i] = s[i]
      /\ Append(s, e)[Len(s) + 1] = e
  BY AppendProperties
<1>2. Len(s) \in Nat
  BY LenProperties
<1>3. ASSUME NEW x
      PROVE  x \in ToSet(Append(s, e)) <=> x \in ToSet(s) \cup {e}
  <2>1. x \in ToSet(s) <=> \E i \in 1 .. Len(s) : s[i] = x
    BY ToSetType
  <2>2. x \in ToSet(Append(s, e)) <=> \E i \in 1 .. Len(Append(s, e)) : Append(s, e)[i] = x
    <3> HIDE DEF ToSet
    <3>1. Append(s, e) \in Seq(S)
      BY <1>1
    <3> QED
      BY ONLY <3>1, ToSetType
  <2> QED
    BY <1>1, <1>2, <2>1, <2>2
<1> QED
  BY <1>1, <1>3

\* The front and the rest make up the queue.
LEMMA HeadOrTail ==
  ASSUME NEW S, NEW s \in Seq(S), s # <<>>
  PROVE  /\ Head(s) \in S /\ Tail(s) \in Seq(S)
         /\ ToSet(s) = {Head(s)} \cup ToSet(Tail(s))
<1>1. /\ Head(s) \in S /\ Tail(s) \in Seq(S)
      /\ Len(Tail(s)) = Len(s) - 1
      /\ \A i \in 1 .. Len(Tail(s)) : Tail(s)[i] = s[i + 1]
  BY HeadTailProperties
<1>2. Len(s) \in Nat \ {0} /\ Head(s) = s[1]
  BY EmptySeq
<1>3. ASSUME NEW x
      PROVE  x \in ToSet(s) <=> x \in {Head(s)} \cup ToSet(Tail(s))
  <2>1. x \in ToSet(s) <=> \E i \in 1 .. Len(s) : s[i] = x
    BY ToSetType
  <2>2. x \in ToSet(Tail(s)) <=> \E i \in 1 .. Len(s) - 1 : s[i + 1] = x
    <3>1. Tail(s) \in Seq(S)
      BY <1>1
    <3>2. x \in ToSet(Tail(s)) <=> \E i \in 1 .. Len(Tail(s)) : Tail(s)[i] = x
      BY ONLY <3>1, ToSetType
    <3> QED
      BY <1>1, <3>2
  <2>3. ASSUME NEW i \in 1 .. Len(s), s[i] = x
        PROVE  x \in {Head(s)} \cup ToSet(Tail(s))
    <3>1. CASE i = 1
      BY <1>2, <2>3, <3>1
    <3>2. CASE i # 1
      <4>1. i - 1 \in 1 .. Len(s) - 1 /\ s[(i - 1) + 1] = x
        BY <1>2, <2>3, <3>2
      <4> QED
        BY <2>2, <4>1
    <3> QED
      BY <3>1, <3>2
  <2>4. ASSUME x \in {Head(s)} \cup ToSet(Tail(s))
        PROVE  \E i \in 1 .. Len(s) : s[i] = x
    BY <1>2, <2>2, <2>4
  <2> QED
    BY <2>1, <2>3, <2>4
<1> QED
  BY <1>1, <1>3

\* A nonempty set of natural numbers has a smallest element.
LEMMA LeastNatural ==
  ASSUME NEW I, I \subseteq Nat, I # {}
  PROVE  \E m \in I : \A j \in I : m =< j
<1> DEFINE R == OpToRel(<, Nat)
<1>1. \A x, y \in Nat : <<x, y>> \in R <=> x < y
  BY DEF OpToRel
<1>2. IsWellFoundedOn(R, Nat)
  BY NatLessThanWellFounded
<1> HIDE DEF R
<1>3. PICK m \in I : \A j \in I : ~ (<<j, m>> \in R)
  BY <1>2, WFMin
<1>4. ASSUME NEW j \in I
      PROVE  m =< j
  <2>1. m \in Nat /\ j \in Nat
    OBVIOUS
  <2>2. ~ (j < m)
    BY <1>1, <1>3, <2>1
  <2> QED
    BY <2>1, <2>2
<1> QED
  BY <1>4

\* Min is that element.
LEMMA MinOfNaturals ==
  ASSUME NEW I, I \subseteq Nat, I # {}
  PROVE  Min(I) \in I
BY LeastNatural DEF Min

\* ready_tids_.erase(find(...)) takes out one position, which held e.
LEMMA RemoveFirstShape ==
  ASSUME NEW S, NEW s \in Seq(S), NEW e \in ToSet(s)
  PROVE  \E k \in 1 .. Len(s) :
           /\ s[k] = e
           /\ RemoveFirst(s, e) \in Seq(S)
           /\ Len(RemoveFirst(s, e)) = Len(s) - 1
           /\ \A i \in 1 .. Len(s) - 1 :
                RemoveFirst(s, e)[i] = IF i < k THEN s[i] ELSE s[i + 1]
<1> DEFINE I == {i \in 1 .. Len(s) : s[i] = e}
           k == Min(I)
           a == SubSeq(s, 1, k - 1)
           b == SubSeq(s, k + 1, Len(s))
<1>1. Len(s) \in Nat /\ \A i \in 1 .. Len(s) : s[i] \in S
  BY LenProperties, ElementOfSeq
<1>2. \E i \in 1 .. Len(s) : s[i] = e
  BY ToSetType
<1>3. I \subseteq Nat /\ I # {}
  BY <1>1, <1>2
<1>4. k \in I
  BY <1>3, MinOfNaturals
<1>5. SelectInSeq(s, LAMBDA v : v = e) = k
  BY <1>3 DEF SelectInSeq
<1>6. RemoveFirst(s, e) = a \o b
  BY <1>2, <1>5 DEF RemoveFirst, RemoveAt
<1>7. k \in 1 .. Len(s) /\ s[k] = e
  BY <1>4
<1> HIDE DEF k, I
<1>8. /\ a \in Seq(S) /\ Len(a) = k - 1
      /\ \A i \in 1 .. k - 1 : a[i] = s[i]
  BY <1>1, <1>7, SubSeqProperties
<1>9. /\ b \in Seq(S) /\ Len(b) = Len(s) - k
      /\ \A i \in 1 .. Len(s) - k : b[i] = s[k + i]
  BY <1>1, <1>7, SubSeqProperties
<1> HIDE DEF a, b
<1>10. /\ a \o b \in Seq(S) /\ Len(a \o b) = Len(a) + Len(b)
       /\ \A i \in 1 .. Len(a) + Len(b) :
            (a \o b)[i] = IF i <= Len(a) THEN a[i] ELSE b[i - Len(a)]
  BY <1>8, <1>9, ConcatProperties
<1>11. Len(a) + Len(b) = Len(s) - 1
  BY <1>1, <1>7, <1>8, <1>9
<1>12. ASSUME NEW i \in 1 .. Len(s) - 1
       PROVE  (a \o b)[i] = IF i < k THEN s[i] ELSE s[i + 1]
  <2>1. CASE i < k
    BY <1>1, <1>7, <1>8, <1>10, <1>11, <2>1
  <2>2. CASE ~ (i < k)
    <3>1. i - (k - 1) \in 1 .. Len(s) - k /\ k + (i - (k - 1)) = i + 1 /\ ~ (i <= k - 1)
      BY <1>1, <1>7, <2>2
    <3>2. (a \o b)[i] = b[i - (k - 1)]
      BY <1>8, <1>10, <1>11, <3>1
    <3> QED
      BY <1>9, <2>2, <3>1, <3>2
  <2> QED
    BY <2>1, <2>2
<1> QED
  BY <1>6, <1>7, <1>10, <1>11, <1>12

\* It leaves a queue, without losing anyone else.
LEMMA RemoveFirstKeeps ==
  ASSUME NEW S, NEW s \in Seq(S), NEW e
  PROVE  /\ RemoveFirst(s, e) \in Seq(S)
         /\ \A x \in ToSet(s) : x # e => x \in ToSet(RemoveFirst(s, e))
<1>1. Len(s) \in Nat
  BY LenProperties
<1>2. CASE e \notin ToSet(s)
  <2>1. RemoveFirst(s, e) = s
    BY <1>2, ToSetType DEF RemoveFirst
  <2> QED
    BY <2>1
<1>3. CASE e \in ToSet(s)
  <2> DEFINE r == RemoveFirst(s, e)
  <2>1. PICK k \in 1 .. Len(s) :
          /\ s[k] = e
          /\ r \in Seq(S)
          /\ Len(r) = Len(s) - 1
          /\ \A i \in 1 .. Len(s) - 1 : r[i] = IF i < k THEN s[i] ELSE s[i + 1]
    BY <1>3, RemoveFirstShape
  <2> HIDE DEF r
  <2>2. ASSUME NEW x \in ToSet(s), x # e
        PROVE  x \in ToSet(r)
    <3>1. PICK i \in 1 .. Len(s) : s[i] = x
      BY ToSetType
    <3>2. CASE i < k
      <4>1. i \in 1 .. Len(r) /\ r[i] = x
        BY <1>1, <2>1, <3>1, <3>2
      <4> QED
        BY <2>1, <4>1, ToSetType
    <3>3. CASE i > k
      <4>1. i - 1 \in 1 .. Len(s) - 1 /\ ~ (i - 1 < k) /\ (i - 1) + 1 = i
        BY <1>1, <2>1, <3>1, <3>3
      <4>2. i - 1 \in 1 .. Len(r) /\ r[i - 1] = x
        BY <2>1, <3>1, <4>1
      <4> QED
        BY <2>1, <4>2, ToSetType
    <3>4. i # k
      BY <2>1, <2>2, <3>1
    <3> QED
      BY <1>1, <2>1, <3>2, <3>3, <3>4
  <2> QED
    BY <2>1, <2>2 DEF r
<1> QED
  BY <1>2, <1>3

-----------------------------------------------------------------------------
(* Queues without repetitions *)

\* Two queues with nobody in common make one without repetitions.
LEMMA InjectiveConcat ==
  ASSUME NEW S, NEW s \in Seq(S), NEW t \in Seq(S),
         IsInjective(s), IsInjective(t), ToSet(s) \cap ToSet(t) = {}
  PROVE  IsInjective(s \o t)
<1> DEFINE q == s \o t
<1>1. /\ Len(s) \in Nat /\ Len(t) \in Nat
      /\ DOMAIN s = 1 .. Len(s) /\ DOMAIN t = 1 .. Len(t)
  BY LenProperties
<1>2. /\ q \in Seq(S) /\ Len(q) = Len(s) + Len(t)
      /\ \A i \in 1 .. Len(s) + Len(t) : q[i] = IF i <= Len(s) THEN s[i] ELSE t[i - Len(s)]
  BY ConcatProperties
<1> HIDE DEF q
<1>3. DOMAIN q = 1 .. Len(s) + Len(t)
  BY <1>2, LenProperties
<1>4. SUFFICES ASSUME NEW i \in 1 .. Len(s) + Len(t), NEW j \in 1 .. Len(s) + Len(t),
                      q[i] = q[j]
               PROVE  i = j
  BY <1>3 DEF IsInjective, q
<1>5. ASSUME NEW k \in 1 .. Len(s) + Len(t)
      PROVE  \/ k \in 1 .. Len(s) /\ q[k] = s[k] /\ q[k] \in ToSet(s)
             \/ k - Len(s) \in 1 .. Len(t) /\ q[k] = t[k - Len(s)] /\ q[k] \in ToSet(t)
  <2>1. CASE k <= Len(s)
    <3>1. k \in 1 .. Len(s) /\ q[k] = s[k]
      BY <1>1, <1>2, <2>1
    <3> QED
      BY <3>1, ToSetType
  <2>2. CASE ~ (k <= Len(s))
    <3>1. k - Len(s) \in 1 .. Len(t) /\ q[k] = t[k - Len(s)]
      BY <1>1, <1>2, <2>2
    <3> QED
      BY <3>1, ToSetType
  <2> QED
    BY <2>1, <2>2
<1>6. CASE i \in 1 .. Len(s) /\ j \in 1 .. Len(s) /\ s[i] = s[j]
  BY <1>1, <1>6 DEF IsInjective
<1>7. CASE /\ i - Len(s) \in 1 .. Len(t) /\ j - Len(s) \in 1 .. Len(t)
           /\ t[i - Len(s)] = t[j - Len(s)]
  <2>1. i - Len(s) = j - Len(s)
    BY <1>1, <1>7 DEF IsInjective
  <2> QED
    BY <1>1, <2>1
<1> QED
  BY <1>4, <1>5, <1>6, <1>7

\* pop_front leaves a queue without repetitions, and without the popped thread.
LEMMA InjectiveTail ==
  ASSUME NEW S, NEW s \in Seq(S), s # <<>>, IsInjective(s)
  PROVE  IsInjective(Tail(s)) /\ Head(s) \notin ToSet(Tail(s))
<1>1. Len(s) \in Nat \ {0} /\ DOMAIN s = 1 .. Len(s) /\ Head(s) = s[1]
  BY EmptySeq, LenProperties
<1>2. /\ Tail(s) \in Seq(S) /\ Len(Tail(s)) = Len(s) - 1
      /\ \A i \in 1 .. Len(s) - 1 : Tail(s)[i] = s[i + 1]
  BY HeadTailProperties
<1>3. DOMAIN Tail(s) = 1 .. Len(s) - 1
  BY <1>2, LenProperties
<1>4. ASSUME NEW i \in 1 .. Len(s) - 1, NEW j \in 1 .. Len(s) - 1, Tail(s)[i] = Tail(s)[j]
      PROVE  i = j
  <2>1. i + 1 \in 1 .. Len(s) /\ j + 1 \in 1 .. Len(s) /\ s[i + 1] = s[j + 1]
    BY <1>1, <1>2, <1>4
  <2>2. i + 1 = j + 1
    BY <1>1, <2>1 DEF IsInjective
  <2> QED
    BY <2>2
<1>5. ASSUME NEW i \in 1 .. Len(s) - 1
      PROVE  Tail(s)[i] # Head(s)
  <2>1. i + 1 \in 1 .. Len(s) /\ 1 \in 1 .. Len(s) /\ i + 1 # 1
    BY <1>1
  <2> QED
    BY <1>1, <1>2, <2>1 DEF IsInjective
<1>6. IsInjective(Tail(s))
  BY <1>3, <1>4 DEF IsInjective
<1>7. Head(s) \notin ToSet(Tail(s))
  BY <1>2, <1>5, ToSetType
<1> QED
  BY <1>6, <1>7

\* emplace_back of a thread that is not in the queue.
LEMMA InjectiveAppend ==
  ASSUME NEW S, NEW s \in Seq(S), NEW e \in S, IsInjective(s), e \notin ToSet(s)
  PROVE  IsInjective(Append(s, e))
<1>1. <<e>> \in Seq(S) /\ ToSet(<<e>>) = {e} /\ IsInjective(<<e>>)
  BY DEF ToSet, IsInjective
<1>2. Append(s, e) = s \o <<e>>
  BY AppendIsConcat
<1> QED
  BY <1>1, <1>2, InjectiveConcat

\* erase(find(...)) takes the thread, and only it, out of the queue.
LEMMA InjectiveRemove ==
  ASSUME NEW S, NEW s \in Seq(S), NEW e \in ToSet(s), IsInjective(s)
  PROVE  /\ IsInjective(RemoveFirst(s, e))
         /\ ToSet(RemoveFirst(s, e)) = ToSet(s) \ {e}
<1> DEFINE r == RemoveFirst(s, e)
<1>1. PICK k \in 1 .. Len(s) :
        /\ s[k] = e
        /\ r \in Seq(S)
        /\ Len(r) = Len(s) - 1
        /\ \A i \in 1 .. Len(s) - 1 : r[i] = IF i < k THEN s[i] ELSE s[i + 1]
  BY RemoveFirstShape
<1>2. Len(s) \in Nat /\ DOMAIN s = 1 .. Len(s)
  BY LenProperties
<1>3. \A x \in ToSet(s) : x # e => x \in ToSet(r)
  BY RemoveFirstKeeps
<1> HIDE DEF r
<1>4. DOMAIN r = 1 .. Len(s) - 1
  BY <1>1, LenProperties
<1> DEFINE from(i) == IF i < k THEN i ELSE i + 1
<1>5. ASSUME NEW i \in 1 .. Len(s) - 1
      PROVE  from(i) \in 1 .. Len(s) /\ from(i) # k /\ r[i] = s[from(i)]
  BY <1>1, <1>2
<1>6. ASSUME NEW i \in 1 .. Len(s) - 1, NEW j \in 1 .. Len(s) - 1, r[i] = r[j]
      PROVE  i = j
  <2>1. from(i) = from(j)
    <3> HIDE DEF from
    <3> QED
      BY <1>2, <1>5, <1>6 DEF IsInjective
  <2> QED
    BY <1>2, <2>1
<1>7. IsInjective(r)
  BY <1>4, <1>6 DEF IsInjective
<1>8. ASSUME NEW x \in ToSet(r)
      PROVE  x \in ToSet(s) /\ x # e
  <2>1. PICK i \in 1 .. Len(r) : r[i] = x
    BY <1>1, ToSetType
  <2>2. i \in 1 .. Len(s) - 1
    BY <1>1, <2>1
  <2>3. from(i) \in 1 .. Len(s) /\ from(i) # k /\ x = s[from(i)]
    BY <1>5, <2>1, <2>2
  <2> HIDE DEF from
  <2>4. x # s[k]
    BY <1>1, <1>2, <2>3 DEF IsInjective
  <2> QED
    BY <1>1, <2>3, <2>4, ToSetType
<1> QED
  BY <1>3, <1>7, <1>8 DEF r

-----------------------------------------------------------------------------
(* Who is in front of whom in a queue *)

\* Those in front of t in a queue.
Before(q, t) == {q[i] : i \in {k \in DOMAIN q : \E j \in DOMAIN q : k < j /\ q[j] = t}}

\* Somebody is in front of t if he has a position in front of one of t's.
LEMMA BeforePosition ==
  ASSUME NEW S, NEW q \in Seq(S), NEW t, NEW x
  PROVE  x \in Before(q, t) <=>
           \E i \in 1 .. Len(q), j \in 1 .. Len(q) : i < j /\ q[i] = x /\ q[j] = t
<1>1. DOMAIN q = 1 .. Len(q)
  BY LenProperties
<1> QED
  BY <1>1 DEF Before

\* Pushing others behind a queue puts nobody in front of t.
LEMMA BeforeConcat ==
  ASSUME NEW S, NEW q \in Seq(S), NEW r \in Seq(S), NEW t, t \notin ToSet(r)
  PROVE  Before(q \o r, t) \subseteq Before(q, t)
<1>1. /\ q \o r \in Seq(S) /\ Len(q \o r) = Len(q) + Len(r)
      /\ \A i \in 1 .. Len(q) + Len(r) :
           (q \o r)[i] = IF i <= Len(q) THEN q[i] ELSE r[i - Len(q)]
  BY ConcatProperties
<1>2. Len(q) \in Nat /\ Len(r) \in Nat
  BY LenProperties
<1>3. SUFFICES ASSUME NEW x \in Before(q \o r, t)
               PROVE  x \in Before(q, t)
  OBVIOUS
<1>4. PICK i \in 1 .. Len(q \o r), j \in 1 .. Len(q \o r) :
        i < j /\ (q \o r)[i] = x /\ (q \o r)[j] = t
  <2> DEFINE p == q \o r
  <2>1. p \in Seq(S) /\ x \in Before(p, t)
    BY <1>1, <1>3
  <2> HIDE DEF p
  <2>2. \E i \in 1 .. Len(p), j \in 1 .. Len(p) : i < j /\ p[i] = x /\ p[j] = t
    BY ONLY <2>1, BeforePosition
  <2> QED
    BY <2>2 DEF p
<1>5. j <= Len(q)
  <2>1. SUFFICES ASSUME ~ (j <= Len(q))
                 PROVE  FALSE
    OBVIOUS
  <2>2. j - Len(q) \in 1 .. Len(r) /\ r[j - Len(q)] = t
    BY <1>1, <1>2, <1>4, <2>1
  <2> QED
    BY <2>2, ToSetType
<1>6. i \in 1 .. Len(q) /\ j \in 1 .. Len(q) /\ q[i] = x /\ q[j] = t
  BY <1>1, <1>2, <1>4, <1>5
<1> QED
  BY <1>4, <1>6, BeforePosition

\* Popping the front puts nobody in front of t.
LEMMA BeforeTail ==
  ASSUME NEW S, NEW q \in Seq(S), q # <<>>, NEW t
  PROVE  Before(Tail(q), t) \subseteq Before(q, t)
<1>1. /\ Tail(q) \in Seq(S) /\ Len(Tail(q)) = Len(q) - 1
      /\ \A i \in 1 .. Len(q) - 1 : Tail(q)[i] = q[i + 1]
  BY HeadTailProperties
<1>2. Len(q) \in Nat
  BY LenProperties
<1>3. SUFFICES ASSUME NEW x \in Before(Tail(q), t)
               PROVE  x \in Before(q, t)
  OBVIOUS
<1>4. PICK i \in 1 .. Len(Tail(q)), j \in 1 .. Len(Tail(q)) :
        i < j /\ Tail(q)[i] = x /\ Tail(q)[j] = t
  <2> DEFINE p == Tail(q)
  <2>1. p \in Seq(S) /\ x \in Before(p, t)
    BY <1>1, <1>3
  <2> HIDE DEF p
  <2>2. \E i \in 1 .. Len(p), j \in 1 .. Len(p) : i < j /\ p[i] = x /\ p[j] = t
    BY ONLY <2>1, BeforePosition
  <2> QED
    BY <2>2 DEF p
<1>5. /\ i + 1 \in 1 .. Len(q) /\ j + 1 \in 1 .. Len(q) /\ i + 1 < j + 1
      /\ q[i + 1] = x /\ q[j + 1] = t
  BY <1>1, <1>2, <1>4
<1> QED
  BY <1>5, BeforePosition

\* Taking somebody out puts nobody in front of t.
LEMMA BeforeRemove ==
  ASSUME NEW S, NEW q \in Seq(S), NEW e, NEW t
  PROVE  Before(RemoveFirst(q, e), t) \subseteq Before(q, t)
<1>1. CASE e \notin ToSet(q)
  <2>1. RemoveFirst(q, e) = q
    BY <1>1, ToSetType DEF RemoveFirst
  <2> QED
    BY <2>1
<1>2. CASE e \in ToSet(q)
  <2> DEFINE r == RemoveFirst(q, e)
  <2>1. PICK k \in 1 .. Len(q) :
          /\ r \in Seq(S)
          /\ Len(r) = Len(q) - 1
          /\ \A i \in 1 .. Len(q) - 1 : r[i] = IF i < k THEN q[i] ELSE q[i + 1]
    BY <1>2, RemoveFirstShape
  <2> HIDE DEF r
  <2>2. Len(q) \in Nat
    BY LenProperties
  <2>3. SUFFICES ASSUME NEW x \in Before(r, t)
                 PROVE  x \in Before(q, t)
    BY DEF r
  <2>4. PICK i \in 1 .. Len(r), j \in 1 .. Len(r) : i < j /\ r[i] = x /\ r[j] = t
    <3>1. r \in Seq(S)
      BY <2>1
    <3> QED
      BY ONLY <3>1, <2>3, BeforePosition
  <2> DEFINE from(n) == IF n < k THEN n ELSE n + 1
  <2>5. /\ from(i) \in 1 .. Len(q) /\ from(j) \in 1 .. Len(q) /\ from(i) < from(j)
        /\ q[from(i)] = x /\ q[from(j)] = t
    BY <2>1, <2>2, <2>4
  <2> HIDE DEF from
  <2> QED
    BY <2>5, BeforePosition
<1> QED
  BY <1>1, <1>2

\* The front is in front of everybody else.
LEMMA FrontBefore ==
  ASSUME NEW S, NEW q \in Seq(S), q # <<>>, NEW t \in ToSet(Tail(q))
  PROVE  Head(q) \in Before(q, t)
<1>1. /\ Tail(q) \in Seq(S) /\ Len(Tail(q)) = Len(q) - 1
      /\ \A i \in 1 .. Len(q) - 1 : Tail(q)[i] = q[i + 1]
  BY HeadTailProperties
<1>2. Len(q) \in Nat \ {0} /\ Head(q) = q[1]
  BY EmptySeq
<1>3. PICK i \in 1 .. Len(Tail(q)) : Tail(q)[i] = t
  BY <1>1, ToSetType
<1>4. 1 \in 1 .. Len(q) /\ i + 1 \in 1 .. Len(q) /\ 1 < i + 1 /\ q[1] = Head(q) /\ q[i + 1] = t
  BY <1>1, <1>2, <1>3
<1> QED
  BY <1>4, BeforePosition

-----------------------------------------------------------------------------
(* Sums over a finite set: MapThenSumSet adds up in the order of CHOOSE *)

\* What num(t) for the threads t of S adds up to.
SumOver(num, S) == MapThenSumSet(LAMBDA t : num[t], S)

\* The element it takes next, and the equation of its recursion.
Chosen(s) == CHOOSE x \in s : TRUE
AddsUp(num, g, s) == g[s] = IF s = {} THEN 0 ELSE num[Chosen(s)] + g[s \ {Chosen(s)}]

\* It is an element of the set.
LEMMA ChosenIn ==
  ASSUME NEW s, s # {}
  PROVE  Chosen(s) \in s
BY DEF Chosen

\* A finite set with one element less.
LEMMA OneLess ==
  ASSUME NEW S, IsFiniteSet(S), NEW x \in S
  PROVE  /\ IsFiniteSet(S \ {x})
         /\ Cardinality(S) \in Nat /\ Cardinality(S \ {x}) \in Nat
         /\ Cardinality(S \ {x}) = Cardinality(S) - 1
<1>1. Cardinality(S) \in Nat
  BY FS_CardinalityType
<1>2. IsFiniteSet(S \ {x}) /\ Cardinality(S \ {x}) = Cardinality(S) - 1
  BY FS_RemoveElement
<1>3. Cardinality(S \ {x}) \in Nat
  BY <1>2, FS_CardinalityType
<1> QED
  BY <1>1, <1>2, <1>3

\* There is a function that satisfies the equation on all subsets.
LEMMA SumExists ==
  ASSUME NEW S, IsFiniteSet(S), NEW num, \A t \in S : num[t] \in Int
  PROVE  \E g \in [SUBSET S -> Int] : \A s \in SUBSET S : AddsUp(num, g, s)
<1> DEFINE Upto(n, g) == \A s \in SUBSET S : Cardinality(s) =< n => AddsUp(num, g, s)
           Fails == {n \in Nat : ~ \E g \in [SUBSET S -> Int] : Upto(n, g)}
<1>1. \A s \in SUBSET S : IsFiniteSet(s) /\ Cardinality(s) \in Nat
  BY FS_Subset, FS_CardinalityType
<1>2. SUFFICES Fails = {}
  <2>1. Cardinality(S) \in Nat /\ \A s \in SUBSET S : Cardinality(s) =< Cardinality(S)
    BY FS_CardinalityType, FS_Subset
  <2>2. PICK g \in [SUBSET S -> Int] : Upto(Cardinality(S), g)
    BY <1>2, <2>1
  <2> QED
    BY <2>1, <2>2
<1>3. SUFFICES ASSUME Fails # {} PROVE FALSE
  OBVIOUS
<1>4. PICK n \in Fails : \A j \in Fails : n =< j
  <2>1. Fails \subseteq Nat
    OBVIOUS
  <2> HIDE DEF Fails
  <2> QED
    BY <1>3, <2>1, LeastNatural
<1>5. CASE n = 0
  <2> DEFINE g == [s \in SUBSET S |-> 0]
  <2>1. g \in [SUBSET S -> Int]
    OBVIOUS
  <2>2. ASSUME NEW s \in SUBSET S, Cardinality(s) =< 0
        PROVE  AddsUp(num, g, s)
    <3>1. s = {}
      BY <1>1, <2>2, FS_EmptySet
    <3> QED
      BY <3>1 DEF AddsUp
  <2>3. Upto(n, g)
    <3> HIDE DEF g
    <3> QED
      BY <1>5, <2>2
  <2> QED
    BY <1>4, <2>1, <2>3
<1>6. CASE n # 0
  <2>1. n - 1 \in Nat /\ n - 1 \notin Fails
    <3>1. n \in Nat
      OBVIOUS
    <3> HIDE DEF Fails
    <3> QED
      BY <1>4, <1>6, <3>1
  <2>2. PICK g \in [SUBSET S -> Int] : Upto(n - 1, g)
    BY <2>1
  <2> DEFINE next(s) == IF s = {} THEN 0 ELSE num[Chosen(s)] + g[s \ {Chosen(s)}]
             h == [s \in SUBSET S |-> next(s)]
  <2>3. ASSUME NEW s \in SUBSET S
        PROVE  next(s) \in Int
    BY ChosenIn
  <2>4. h \in [SUBSET S -> Int]
    <3> HIDE DEF next
    <3> QED
      BY <2>3
  <2>5. ASSUME NEW s \in SUBSET S, Cardinality(s) =< n - 1
        PROVE  h[s] = g[s]
    BY <2>2, <2>5 DEF AddsUp
  <2>6. ASSUME NEW s \in SUBSET S, Cardinality(s) =< n
        PROVE  AddsUp(num, h, s)
    <3>1. h[s] = next(s)
      OBVIOUS
    <3>2. CASE s = {}
      BY <3>1, <3>2 DEF AddsUp
    <3>3. CASE s # {}
      <4> DEFINE r == s \ {Chosen(s)}
      <4>1. Chosen(s) \in s
        BY <3>3, ChosenIn
      <4>2. r \in SUBSET S /\ Cardinality(r) =< n - 1
        BY <1>1, <2>6, <4>1, OneLess
      <4>3. h[r] = g[r]
        <5> HIDE DEF r, h
        <5> QED
          BY <2>5, <4>2
      <4>4. h[s] = num[Chosen(s)] + g[r]
        BY <3>1, <3>3
      <4> HIDE DEF h, next
      <4> QED
        BY <3>3, <4>3, <4>4 DEF AddsUp
    <3> QED
      BY <3>2, <3>3
  <2>7. Upto(n, h)
    <3> HIDE DEF h
    <3> QED
      BY <2>6
  <2> HIDE DEF h
  <2> QED
    BY <1>4, <2>4, <2>7
<1> QED
  BY <1>5, <1>6

\* So the sum is the value of such a function.
LEMMA SumIsFold ==
  ASSUME NEW S, IsFiniteSet(S), NEW num, \A t \in S : num[t] \in Int
  PROVE  \E g : /\ \A s \in SUBSET S : AddsUp(num, g, s)
                /\ SumOver(num, S) = g[S]
<1> DEFINE F(g) == [s \in SUBSET S |-> IF s = {} THEN 0
                                       ELSE num[CHOOSE x \in s : TRUE] + g[s \ {CHOOSE x \in s : TRUE}]]
           iter == CHOOSE g : g = F(g)
<1>1. SumOver(num, S) = iter[S]
  BY DEF SumOver, MapThenSumSet, MapThenFoldSet
<1>2. \E g : g = F(g)
  <2>1. PICK g \in [SUBSET S -> Int] : \A s \in SUBSET S : AddsUp(num, g, s)
    BY SumExists
  <2>2. g = F(g)
    BY <2>1 DEF AddsUp, Chosen
  <2> QED
    BY <2>2
<1>3. iter = F(iter)
  <2> HIDE DEF F
  <2> QED
    BY <1>2
<1> HIDE DEF iter
<1>4. \A s \in SUBSET S : iter[s] = F(iter)[s]
  BY <1>3
<1>5. \A s \in SUBSET S : AddsUp(num, iter, s)
  BY <1>4 DEF AddsUp, Chosen
<1> QED
  BY <1>1, <1>5

\* Two such functions agree where they are both defined, if they add up the
\* same numbers.
LEMMA FoldsAgree ==
  ASSUME NEW S, IsFiniteSet(S),
         NEW num, \A t \in S : num[t] \in Int,
         NEW other, \A t \in S : other[t] = num[t],
         NEW g, \A s \in SUBSET S : AddsUp(num, g, s),
         NEW h, \A s \in SUBSET S : AddsUp(other, h, s)
  PROVE  g[S] = h[S] /\ g[S] \in Int
<1> DEFINE Same(s) == g[s] = h[s] /\ g[s] \in Int
           Differ == {n \in Nat : \E s \in SUBSET S : Cardinality(s) = n /\ ~ Same(s)}
<1>1. \A s \in SUBSET S : IsFiniteSet(s) /\ Cardinality(s) \in Nat
  BY FS_Subset, FS_CardinalityType
<1>2. SUFFICES Differ = {}
  BY <1>1
<1>3. SUFFICES ASSUME Differ # {} PROVE FALSE
  OBVIOUS
<1>4. PICK n \in Differ : \A j \in Differ : n =< j
  <2>1. Differ \subseteq Nat
    OBVIOUS
  <2> HIDE DEF Differ
  <2> QED
    BY <1>3, <2>1, LeastNatural
<1>5. PICK s \in SUBSET S : Cardinality(s) = n /\ ~ Same(s)
  OBVIOUS
<1>6. AddsUp(num, g, s) /\ AddsUp(other, h, s)
  OBVIOUS
<1>7. s # {}
  BY <1>5, <1>6 DEF AddsUp
<1> DEFINE x == Chosen(s)
           r == s \ {x}
<1>8. x \in s
  BY <1>7, ChosenIn
<1>9. g[s] = num[x] + g[r] /\ h[s] = other[x] + h[r]
  BY <1>6, <1>7 DEF AddsUp
<1> HIDE DEF x
<1>10. r \in SUBSET S /\ Cardinality(r) \in Nat /\ Cardinality(r) = n - 1
  BY <1>1, <1>5, <1>8, OneLess
<1>11. Same(r)
  <2>1. n \in Nat /\ n - 1 \notin Differ
    <3>1. n \in Nat
      OBVIOUS
    <3> HIDE DEF Differ
    <3> QED
      BY <1>4, <3>1
  <2> QED
    BY <1>10, <2>1
<1>12. num[x] \in Int /\ other[x] = num[x]
  BY <1>8
<1> QED
  BY <1>5, <1>9, <1>11, <1>12

\* The sum over no thread, and the sum over S, one chosen thread first.
LEMMA SumStep ==
  ASSUME NEW S, IsFiniteSet(S), NEW num, \A t \in S : num[t] \in Int
  PROVE  /\ SumOver(num, S) \in Int
         /\ SumOver(num, S) = IF S = {} THEN 0
                              ELSE num[Chosen(S)] + SumOver(num, S \ {Chosen(S)})
<1>1. PICK g : /\ \A s \in SUBSET S : AddsUp(num, g, s)
               /\ SumOver(num, S) = g[S]
  BY SumIsFold
<1>2. g[S] \in Int
  BY <1>1, FoldsAgree
<1>3. AddsUp(num, g, S)
  BY <1>1
<1>4. CASE S = {}
  BY <1>1, <1>2, <1>3, <1>4 DEF AddsUp
<1>5. CASE S # {}
  <2> DEFINE r == S \ {Chosen(S)}
  <2>1. r \subseteq S /\ IsFiniteSet(r)
    BY FS_Subset
  <2> HIDE DEF r
  <2>2. \A t \in r : num[t] \in Int
    BY <2>1
  <2>3. PICK h : /\ \A s \in SUBSET r : AddsUp(num, h, s)
                 /\ SumOver(num, r) = h[r]
    BY <2>1, <2>2, SumIsFold
  <2>4. \A s \in SUBSET r : AddsUp(num, g, s)
    BY <1>1, <2>1
  <2>5. g[r] = h[r]
    BY <2>1, <2>2, <2>3, <2>4, FoldsAgree
  <2> QED
    BY <1>1, <1>2, <1>3, <1>5, <2>3, <2>5 DEF AddsUp, r
<1> QED
  BY <1>4, <1>5

\* It is the same sum for the same numbers.
LEMMA SumSame ==
  ASSUME NEW S, IsFiniteSet(S), NEW num, \A t \in S : num[t] \in Int,
         NEW other, \A t \in S : other[t] = num[t]
  PROVE  SumOver(other, S) = SumOver(num, S)
<1>1. PICK g : /\ \A s \in SUBSET S : AddsUp(num, g, s)
               /\ SumOver(num, S) = g[S]
  BY SumIsFold
<1>2. PICK h : /\ \A s \in SUBSET S : AddsUp(other, h, s)
               /\ SumOver(other, S) = h[S]
  BY SumIsFold
<1> QED
  BY <1>1, <1>2, FoldsAgree

\* The order does not matter: any thread of S may be added last.
LEMMA SumRemove ==
  ASSUME NEW S, IsFiniteSet(S), NEW num, \A t \in S : num[t] \in Int, NEW x \in S
  PROVE  SumOver(num, S) = num[x] + SumOver(num, S \ {x})
<1> DEFINE Agrees(s) == \A t \in s : SumOver(num, s) = num[t] + SumOver(num, s \ {t})
           Differ == {n \in Nat : \E s \in SUBSET S : Cardinality(s) = n /\ ~ Agrees(s)}
<1>1. \A s \in SUBSET S : IsFiniteSet(s) /\ Cardinality(s) \in Nat
  BY FS_Subset, FS_CardinalityType
<1>2. SUFFICES Differ = {}
  BY <1>1
<1>3. SUFFICES ASSUME Differ # {} PROVE FALSE
  OBVIOUS
<1>4. PICK n \in Differ : \A j \in Differ : n =< j
  <2>1. Differ \subseteq Nat
    OBVIOUS
  <2> HIDE DEF Differ
  <2> QED
    BY <1>3, <2>1, LeastNatural
<1>5. PICK s \in SUBSET S : Cardinality(s) = n /\ ~ Agrees(s)
  OBVIOUS
<1>6. PICK t \in s : SumOver(num, s) # num[t] + SumOver(num, s \ {t})
  BY <1>5
<1>7. ASSUME NEW r \in SUBSET S
      PROVE  /\ SumOver(num, r) \in Int
             /\ r # {} => SumOver(num, r) = num[Chosen(r)] + SumOver(num, r \ {Chosen(r)})
  <2>1. IsFiniteSet(r) /\ \A u \in r : num[u] \in Int
    BY <1>1
  <2> QED
    BY <2>1, SumStep
<1>8. ASSUME NEW u \in s
      PROVE  Agrees(s \ {u})
  <2>1. /\ s \ {u} \in SUBSET S
        /\ Cardinality(s \ {u}) \in Nat /\ Cardinality(s \ {u}) = n - 1
    BY <1>1, <1>5, OneLess
  <2>2. n \in Nat /\ n - 1 \notin Differ
    <3>1. n \in Nat
      OBVIOUS
    <3> HIDE DEF Differ
    <3> QED
      BY <1>4, <3>1
  <2> HIDE DEF Agrees
  <2> QED
    BY <2>1, <2>2
<1> DEFINE c == Chosen(s)
<1>9. c \in s /\ SumOver(num, s) = num[c] + SumOver(num, s \ {c})
  BY <1>6, <1>7, ChosenIn
<1> HIDE DEF c
<1>10. t # c
  BY <1>6, <1>9
<1>11. SumOver(num, s \ {c}) = num[t] + SumOver(num, (s \ {c}) \ {t})
  BY <1>8, <1>9, <1>10
<1>12. SumOver(num, s \ {t}) = num[c] + SumOver(num, (s \ {t}) \ {c})
  BY <1>8, <1>9, <1>10
<1>13. (s \ {c}) \ {t} = (s \ {t}) \ {c}
  OBVIOUS
<1> DEFINE rest == SumOver(num, (s \ {t}) \ {c})
<1>14. num[t] \in Int /\ num[c] \in Int /\ rest \in Int
  BY <1>7, <1>9
<1>15. /\ SumOver(num, s) = num[c] + SumOver(num, s \ {c})
       /\ SumOver(num, s \ {c}) = num[t] + rest
       /\ SumOver(num, s \ {t}) = num[c] + rest
  BY <1>9, <1>11, <1>12, <1>13
<1> HIDE DEF rest
<1> QED
  BY ONLY <1>6, <1>14, <1>15

=============================================================================
