---------------------------- MODULE QueueLemmas ----------------------------
(***************************************************************************)
(* Facts about sequences used as queues: what Append and Tail do to the    *)
(* set of elements, and how long a queue without repetition can be.        *)
(***************************************************************************)
EXTENDS Naturals, Sequences, FiniteSets, Functions,
        SequenceTheorems, FiniteSetTheorems, TLAPS

\* Enqueueing adds the element and, if it is new, no repetition (a write of
\* one identifier to a pipe).
LEMMA AppendElements ==
  ASSUME NEW S, NEW s \in Seq(S), NEW e \in S
  PROVE  /\ Append(s, e) \in Seq(S)
         /\ Range(Append(s, e)) = Range(s) \cup {e}
         /\ IsInjective(s) /\ e \notin Range(s) => IsInjective(Append(s, e))
<1>1. /\ Append(s, e) \in Seq(S)
      /\ Len(Append(s, e)) = Len(s) + 1
      /\ \A i \in 1..Len(s) : Append(s, e)[i] = s[i]
      /\ Append(s, e)[Len(s) + 1] = e
  BY AppendProperties
<1>2. /\ DOMAIN s = 1..Len(s) /\ Len(s) \in Nat
      /\ DOMAIN Append(s, e) = 1..(Len(s) + 1)
  BY <1>1, LenProperties
<1>3. Range(Append(s, e)) = Range(s) \cup {e}
  <2>1. Range(Append(s, e)) \subseteq Range(s) \cup {e}
    BY <1>1, <1>2 DEF Range
  <2>2. Range(s) \cup {e} \subseteq Range(Append(s, e))
    BY <1>1, <1>2 DEF Range
  <2> QED BY <2>1, <2>2
<1>4. IsInjective(s) /\ e \notin Range(s) => IsInjective(Append(s, e))
  BY <1>1, <1>2 DEF Range, IsInjective
<1> QED BY <1>1, <1>3, <1>4

\* Dequeueing from a queue without repetition removes its first element (a
\* read of one identifier from a pipe).
LEMMA TailElements ==
  ASSUME NEW S, NEW s \in Seq(S), s # <<>>, IsInjective(s)
  PROVE  /\ Head(s) \in S /\ Head(s) \in Range(s)
         /\ Tail(s) \in Seq(S)
         /\ Range(Tail(s)) = Range(s) \ {Head(s)}
         /\ IsInjective(Tail(s))
<1>1. /\ Head(s) \in S /\ Tail(s) \in Seq(S)
      /\ Len(Tail(s)) = Len(s) - 1
      /\ \A i \in 1..Len(Tail(s)) : Tail(s)[i] = s[i + 1]
  BY HeadTailProperties
<1>2. /\ DOMAIN s = 1..Len(s) /\ Len(s) \in Nat /\ Len(s) # 0
      /\ DOMAIN Tail(s) = 1..(Len(s) - 1)
      /\ Head(s) = s[1]
  BY <1>1, LenProperties, EmptySeq
<1>3. Head(s) \in Range(s)
  BY <1>2 DEF Range
<1>4. Range(Tail(s)) \subseteq Range(s) \ {Head(s)}
  BY <1>1, <1>2 DEF Range, IsInjective
<1>5. ASSUME NEW x \in Range(s) \ {Head(s)}
      PROVE  x \in Range(Tail(s))
  <2>1. PICK i \in 1..Len(s) : x = s[i]
    BY <1>2 DEF Range
  <2>2. i # 1
    BY <2>1, <1>2, <1>5
  <2>3. i - 1 \in 1..Len(Tail(s)) /\ Tail(s)[i - 1] = s[(i - 1) + 1]
    BY <2>1, <2>2, <1>1, <1>2
  <2>4. x = Tail(s)[i - 1]
    BY <2>1, <2>3, <1>2
  <2> QED BY <2>3, <2>4, <1>1, <1>2 DEF Range
<1>6. IsInjective(Tail(s))
  BY <1>1, <1>2 DEF IsInjective
<1> QED BY <1>1, <1>3, <1>4, <1>5, <1>6

\* A queue without repetition is no longer than the set it draws from, and
\* shorter if it leaves one member out (no write of an identifier can block).
LEMMA InjectiveLength ==
  ASSUME NEW n \in Nat, NEW s \in Seq(0..(n - 1)), IsInjective(s)
  PROVE  /\ Len(s) <= n
         /\ \A x \in 0..(n - 1) : x \notin Range(s) => Len(s) < n
<1> DEFINE I == 0..(n - 1)
<1>1. /\ IsFiniteSet(I) /\ Cardinality(I) = n
  <2>1. IsFiniteSet(I) /\ Cardinality(I) = IF 0 > n - 1 THEN 0 ELSE (n - 1) - 0 + 1
    BY FS_Interval
  <2> QED BY <2>1
<1>2. /\ Len(s) \in Nat
      /\ IsFiniteSet(1..Len(s)) /\ Cardinality(1..Len(s)) = Len(s)
  <2>1. Len(s) \in Nat
    BY LenProperties
  <2>2. IsFiniteSet(1..Len(s)) /\ Cardinality(1..Len(s))
          = IF 1 > Len(s) THEN 0 ELSE Len(s) - 1 + 1
    BY <2>1, FS_Interval
  <2> QED BY <2>1, <2>2
<1>3. s \in [1..Len(s) -> I] /\ DOMAIN s = 1..Len(s)
  BY LenProperties
<1>4. Len(s) <= n
  <2>1. s \in Injection(1..Len(s), I)
    BY <1>3 DEF Injection
  <2>2. Cardinality(1..Len(s)) <= Cardinality(I)
    BY <2>1, <1>1, FS_Injection
  <2> QED BY <2>2, <1>1, <1>2
<1>5. ASSUME NEW x \in I, x \notin Range(s)
      PROVE  Len(s) < n
  <2>1. IsFiniteSet(I \ {x}) /\ Cardinality(I \ {x}) = n - 1
    BY <1>1, FS_RemoveElement
  <2>2. s \in [1..Len(s) -> I \ {x}]
    BY <1>3, <1>5 DEF Range
  <2>3. s \in Injection(1..Len(s), I \ {x})
    BY <2>2 DEF Injection
  <2>4. Cardinality(1..Len(s)) <= Cardinality(I \ {x})
    BY <2>1, <2>3, FS_Injection
  <2> QED BY <2>4, <2>1, <1>2
<1> QED BY <1>4, <1>5

\* Taking the first element of one queue to the end of another, which is what a
\* server does with a request it has finished, keeps the two in a row.
LEMMA MoveHead ==
  ASSUME NEW S, NEW s \in Seq(S), NEW t \in Seq(S), t # <<>>
  PROVE  Append(s, Head(t)) \o Tail(t) = s \o t
<1>1. Head(t) \in S /\ Tail(t) \in Seq(S) /\ Append(s, Head(t)) \in Seq(S)
  BY HeadTailProperties, AppendProperties
<1>2. /\ Len(Append(s, Head(t)) \o Tail(t)) = Len(s \o t)
      /\ \A i \in 1..Len(s \o t) : (Append(s, Head(t)) \o Tail(t))[i] = (s \o t)[i]
  <2> DEFINE l == Append(s, Head(t)) \o Tail(t)
             r == s \o t
  <2>1. /\ Len(s) \in Nat /\ Len(t) \in Nat \ {0} /\ Head(t) = t[1]
        /\ Len(Tail(t)) = Len(t) - 1
        /\ \A i \in 1..Len(Tail(t)) : Tail(t)[i] = t[i + 1]
    BY HeadTailProperties, LenProperties, EmptySeq
  <2>2. /\ Len(Append(s, Head(t))) = Len(s) + 1
        /\ \A i \in 1..Len(s) : Append(s, Head(t))[i] = s[i]
        /\ Append(s, Head(t))[Len(s) + 1] = Head(t)
    BY <1>1, AppendProperties
  <2>3. /\ Len(l) = Len(s) + 1 + Len(Tail(t))
        /\ \A i \in 1..(Len(s) + 1 + Len(Tail(t))) :
             l[i] = IF i <= Len(s) + 1 THEN Append(s, Head(t))[i] ELSE Tail(t)[i - (Len(s) + 1)]
    BY <1>1, <2>2, ConcatProperties
  <2>4. /\ Len(r) = Len(s) + Len(t)
        /\ \A i \in 1..(Len(s) + Len(t)) : r[i] = IF i <= Len(s) THEN s[i] ELSE t[i - Len(s)]
    BY ConcatProperties
  <2>5. Len(l) = Len(r)
    BY <2>1, <2>3, <2>4
  <2>6. ASSUME NEW i \in 1..Len(r) PROVE l[i] = r[i]
    <3>1. CASE i <= Len(s)
      BY <3>1, <2>1, <2>2, <2>3, <2>4
    <3>2. CASE i = Len(s) + 1
      BY <3>2, <2>1, <2>2, <2>3, <2>4
    <3>3. CASE i > Len(s) + 1
      <4>1. /\ i - (Len(s) + 1) \in 1..Len(Tail(t))
            /\ (i - (Len(s) + 1)) + 1 = i - Len(s)
        BY <3>3, <2>1, <2>4
      <4>2. l[i] = t[i - Len(s)]
        BY <3>3, <4>1, <2>1, <2>3, <2>4
      <4> QED BY <3>3, <4>2, <2>1, <2>4
    <3> QED BY <3>1, <3>2, <3>3, <2>1, <2>4
  <2> QED BY <2>5, <2>6
<1> QED BY <1>1, <1>2, SeqEqual, ConcatProperties

\* What is put at the end of the second of two queues in a row is put at the
\* end of the row, and what is taken from the first is taken from the row.
LEMMA RowOfQueues ==
  ASSUME NEW S, NEW s \in Seq(S), NEW t \in Seq(S)
  PROVE  /\ \A e \in S : s \o Append(t, e) = Append(s \o t, e)
         /\ s # <<>> => /\ Tail(s) \o t = Tail(s \o t) /\ Head(s) = Head(s \o t)
                        /\ s \o t # <<>>
<1>1. ASSUME NEW e \in S PROVE s \o Append(t, e) = Append(s \o t, e)
  <2>1. <<e>> \in Seq(S) /\ s \o t \in Seq(S)
    BY ConcatProperties
  <2>2. Append(t, e) = t \o <<e>> /\ Append(s \o t, e) = (s \o t) \o <<e>>
    BY <2>1, AppendIsConcat
  <2> QED BY <2>1, <2>2, ConcatAssociative
<1>2. ASSUME s # <<>>
      PROVE  /\ Tail(s) \o t = Tail(s \o t) /\ Head(s) = Head(s \o t) /\ s \o t # <<>>
  <2> DEFINE h == <<Head(s)>>
  <2>1. Head(s) \in S /\ Tail(s) \in Seq(S)
    BY <1>2, HeadTailProperties
  <2>2. /\ Len(s) \in Nat \ {0} /\ Len(t) \in Nat
        /\ Len(Tail(s)) = Len(s) - 1
        /\ \A i \in 1..Len(Tail(s)) : Tail(s)[i] = s[i + 1]
    BY <1>2, HeadTailProperties, LenProperties, EmptySeq
  <2>3. /\ s \o t \in Seq(S) /\ Len(s \o t) = Len(s) + Len(t)
        /\ \A i \in 1..(Len(s) + Len(t)) :
             (s \o t)[i] = IF i <= Len(s) THEN s[i] ELSE t[i - Len(s)]
    BY ConcatProperties
  <2>4. s \o t # <<>>
    BY <2>2, <2>3, EmptySeq
  <2>5. /\ Tail(s \o t) \in Seq(S) /\ Len(Tail(s \o t)) = Len(s) + Len(t) - 1
        /\ \A i \in 1..(Len(s) + Len(t) - 1) : Tail(s \o t)[i] = (s \o t)[i + 1]
    BY <2>2, <2>3, <2>4, HeadTailProperties
  <2>6. /\ Tail(s) \o t \in Seq(S) /\ Len(Tail(s) \o t) = Len(s) - 1 + Len(t)
        /\ \A i \in 1..(Len(s) - 1 + Len(t)) :
             (Tail(s) \o t)[i] = IF i <= Len(s) - 1 THEN Tail(s)[i] ELSE t[i - (Len(s) - 1)]
    BY <2>1, <2>2, ConcatProperties
  <2>7. ASSUME NEW i \in 1..(Len(s) + Len(t) - 1)
        PROVE  (Tail(s) \o t)[i] = Tail(s \o t)[i]
    <3>1. CASE i <= Len(s) - 1
      BY <3>1, <2>2, <2>3, <2>5, <2>6
    <3>2. CASE i > Len(s) - 1
      <4>1. i - (Len(s) - 1) = (i + 1) - Len(s)
        BY <2>2
      <4> QED BY <3>2, <4>1, <2>2, <2>3, <2>5, <2>6
    <3> QED BY <3>1, <3>2, <2>2
  <2>8. Head(s) = s[1] /\ Head(s \o t) = (s \o t)[1]
    BY <2>3, <2>4
  <2>9. Len(Tail(s) \o t) = Len(Tail(s \o t)) /\ Len(Tail(s) \o t) = Len(s) + Len(t) - 1
    BY <2>2, <2>5, <2>6
  <2>10. Tail(s) \o t = Tail(s \o t)
    BY <2>5, <2>6, <2>7, <2>9, SeqEqual
  <2> QED BY <2>2, <2>3, <2>4, <2>8, <2>10
<1> QED BY <1>1, <1>2

\* Every nonempty set of numbers has a least one.
LEMMA LeastNumber ==
  ASSUME NEW T \in SUBSET Nat, T # {}
  PROVE  \E x \in T : \A y \in T : x <= y
<1>1. PICK x \in T : \A y \in T : ~(<<y, x>> \in OpToRel(<, Nat))
  BY NatLessThanWellFounded, WFMin
<1>2. \A y \in T : ~(y < x)
  BY <1>1 DEF OpToRel
<1> QED BY <1>2
=============================================================================
